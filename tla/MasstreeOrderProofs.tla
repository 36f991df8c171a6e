------------------------ MODULE MasstreeOrderProofs ------------------------
(***************************************************************************)
(* Masstree: the order of the keys, which keeps locate from aborting.  A   *)
(* node is for one range of keys as long as it exists: a split makes new   *)
(* nodes, for two parts of the range.  So a thread that has followed a     *)
(* link for its key is right to do so, however old the link is.  The       *)
(* ranges are nowhere in the program: the invariant says that there are    *)
(* some, and each split extends them to the nodes it makes.                *)
(***************************************************************************)
EXTENDS MasstreeProofs

\* The keys of the tree: build_tree inserts key 0.
Keys0 == Key \cup {0}

Sorted(d) == \A i, j \in DOMAIN d : i < j => d[i].key < d[j].key

\* d holds keys of R only, and none of R is below all of them.
Covers(d, R) == /\ \A i \in DOMAIN d : d[i].key \in R
                /\ \A k \in R : d[1].key <= k

\* The nodes that d links share out R; rg is the range of each node.
Routes(d, R, rg) ==
  \A i \in DOMAIN d : rg[d[i].link] = {k \in R : Locate(d, k) = i}

\* Nodes l and r share out the range of node c at key k.
Shares(c, l, r, k, rg) == /\ rg[l] = {m \in rg[c] : m < k}
                          /\ rg[r] = {m \in rg[c] : m >= k}

-----------------------------------------------------------------------------
(* Sequences of entries. *)

\* Keys are numbers.
LEMMA KeyTypes ==
  /\ Keys0 \subseteq Nat
  /\ \A d \in Seq(Entries) : \A i \in DOMAIN d :
       d[i].key \in Keys0 /\ d[i].key \in Nat /\ d[i].link \in 0 .. MaxNodes
  <1>1. Keys0 \subseteq Nat
    BY Constants DEF Keys0
  <1>2. ASSUME NEW d \in Seq(Entries), NEW i \in DOMAIN d
        PROVE  d[i].key \in Keys0 /\ d[i].link \in 0 .. MaxNodes
    <2>1. d[i] \in Entries
      OBVIOUS
    <2> QED
      BY <2>1 DEF Entries, Keys0
  <1> QED
    BY <1>1, <1>2

\* In a sorted sequence locate counts the entries up to the last one whose key
\* is not above k.
LEMMA LocateSplits ==
  ASSUME NEW d \in Seq(Entries), Sorted(d), NEW k \in Nat
  PROVE  /\ Locate(d, k) \in 0 .. Len(d)
         /\ \A j \in DOMAIN d : d[j].key <= k <=> j <= Locate(d, k)
  <1> DEFINE I == {j \in DOMAIN d : d[j].key <= k}
  <1>1. /\ Len(d) \in Nat /\ DOMAIN d = 1 .. Len(d)
        /\ \A j \in DOMAIN d : d[j].key \in Nat
    BY KeyTypes
  <1>2. ASSUME NEW m \in Nat
        PROVE  IsFiniteSet(1 .. m) /\ Cardinality(1 .. m) = m
    <2>1. /\ IsFiniteSet(1 .. m)
          /\ Cardinality(1 .. m) = IF 1 > m THEN 0 ELSE m - 1 + 1
      BY FS_Interval
    <2>2. (IF 1 > m THEN 0 ELSE m - 1 + 1) = m
      OBVIOUS
    <2> QED
      BY <2>1, <2>2
  <1>3. \A i \in I : \A j \in DOMAIN d : j <= i => j \in I
    <2> SUFFICES ASSUME NEW i \in I, NEW j \in DOMAIN d, j <= i
        PROVE  j \in I
      OBVIOUS
    <2>1. CASE j = i
      BY <2>1
    <2>2. CASE j < i
      BY <1>1, <2>2 DEF Sorted
    <2> QED
      BY <1>1, <2>1, <2>2
  <1>4. IsFiniteSet(I) /\ Cardinality(I) \in Nat /\ Locate(d, k) = Cardinality(I)
    <2>1. I \subseteq 1 .. Len(d)
      BY <1>1
    <2> QED
      BY <1>1, <1>2, <2>1, FS_Subset, FS_CardinalityType DEF Locate
  <1>5. Locate(d, k) \in 0 .. Len(d)
    BY LocateRange
  <1>6. ASSUME NEW j \in DOMAIN d, j \in I
        PROVE  j <= Locate(d, k)
    <2>1. 1 .. j \subseteq I /\ j \in Nat
      BY <1>1, <1>3, <1>6
    <2>2. Cardinality(1 .. j) <= Cardinality(I)
      BY <1>4, <2>1, FS_Subset
    <2> QED
      BY <1>2, <1>4, <2>1, <2>2
  <1>7. ASSUME NEW j \in DOMAIN d, j \notin I
        PROVE  ~(j <= Locate(d, k))
    <2>1. I \subseteq 1 .. j - 1 /\ j - 1 \in Nat
      BY <1>1, <1>3, <1>7
    <2>2. Cardinality(I) <= Cardinality(1 .. j - 1)
      BY <1>2, <2>1, FS_Subset
    <2>3. Cardinality(I) <= j - 1
      BY <1>2, <2>1, <2>2
    <2> QED
      BY <1>1, <1>4, <2>3
  <1> QED
    BY <1>5, <1>6, <1>7

\* ... and is the only number that separates the entries like that.
LEMMA LocateIs ==
  ASSUME NEW d \in Seq(Entries), Sorted(d), NEW k \in Nat, NEW i \in 0 .. Len(d),
         \A j \in DOMAIN d : d[j].key <= k <=> j <= i
  PROVE  Locate(d, k) = i
  <1>1. /\ Len(d) \in Nat /\ DOMAIN d = 1 .. Len(d)
        /\ Locate(d, k) \in 0 .. Len(d)
        /\ \A j \in DOMAIN d : d[j].key <= k <=> j <= Locate(d, k)
    <2>1. Len(d) \in Nat /\ DOMAIN d = 1 .. Len(d)
      OBVIOUS
    <2>2. /\ Locate(d, k) \in 0 .. Len(d)
          /\ \A j \in DOMAIN d : d[j].key <= k <=> j <= Locate(d, k)
      BY LocateSplits
    <2> QED
      BY <2>1, <2>2
  <1>2. PICK m : m = Locate(d, k)
    OBVIOUS
  <1>3. \A j \in 1 .. Len(d) : j <= i <=> j <= m
    BY <1>1, <1>2
  <1>4. CASE m < i
    <2>1. i \in 1 .. Len(d)
      BY <1>1, <1>2, <1>4
    <2> QED
      BY <1>1, <1>2, <1>3, <1>4, <2>1
  <1>5. CASE m > i
    <2>1. m \in 1 .. Len(d)
      BY <1>1, <1>2, <1>5
    <2> QED
      BY <1>1, <1>2, <1>3, <1>5, <2>1
  <1> QED
    BY <1>1, <1>2, <1>4, <1>5

\* An entry is found with its own key.
LEMMA LocateOwn ==
  ASSUME NEW d \in Seq(Entries), Sorted(d), NEW i \in DOMAIN d
  PROVE  Locate(d, d[i].key) = i
  <1>1. /\ Len(d) \in Nat /\ DOMAIN d = 1 .. Len(d) /\ i \in 0 .. Len(d)
        /\ \A j \in DOMAIN d : d[j].key \in Nat
    BY KeyTypes
  <1>2. \A j \in DOMAIN d : d[j].key <= d[i].key <=> j <= i
    BY <1>1 DEF Sorted
  <1> QED
    BY <1>1, <1>2, LocateIs

\* An entry with a key that is not there keeps the keys in order.
SortedWith(x, d, k, R) ==
  /\ Sorted(x) /\ Covers(x, R) /\ x[1].key = d[1].key
  /\ \A m \in Nat : Locate(x, m) = IF m < k THEN Locate(d, m) ELSE Locate(d, m) + 1

\* extend, behind the entry that locate has found, inserts like that.
LEMMA Inserted ==
  ASSUME NEW d \in Seq(Entries), Sorted(d), NEW k \in Keys0,
         NEW i \in 1 .. Len(d), i = Locate(d, k), d[i].key < k,
         NEW R \in SUBSET Keys0, Covers(d, R), k \in R,
         NEW link \in 0 .. MaxNodes, NEW relink \in 0 .. MaxNodes
  PROVE  SortedWith(Extended(d, i, Entry(k, link), relink), d, k, R)
  <1> SUFFICES ASSUME NEW x, x = Extended(d, i, Entry(k, link), relink)
               PROVE  SortedWith(x, d, k, R)
    OBVIOUS
  <1> DEFINE n == Len(d)
  <1>1. /\ n \in Nat /\ DOMAIN d = 1 .. n /\ i \in 1 .. n /\ k \in Nat
        /\ \A j \in 1 .. n : d[j].key \in Nat
    BY KeyTypes
  <1>2. PICK new \in Entries : new = Entry(k, link) /\ new.key = k
    BY DEF Entry, Entries, Keys0
  <1>3. /\ x \in Seq(Entries) /\ Len(x) = n + 1
        /\ \A j \in 1 .. i : x[j].key = d[j].key
        /\ x[i + 1].key = k
        /\ \A j \in i + 1 .. n : x[j + 1].key = d[j].key
    <2>1. PICK p \in 0 .. Len(d) : p = i
      BY <1>1
    <2>2. IsExtended(Extended(d, p, new, relink), d, p, new, relink)
      BY ExtendedAt
    <2>3. IsExtended(x, d, i, new, relink)
      BY <1>2, <2>1, <2>2
    <2> QED
      BY <1>2, <2>1, <2>3 DEF IsExtended
  <1>4. \A j \in 1 .. n : d[j].key <= k <=> j <= i
    <2>1. \A j \in DOMAIN d : d[j].key <= k <=> j <= Locate(d, k)
      BY <1>1, LocateSplits
    <2> QED
      BY <1>1, <2>1
  <1>5. \A j \in 1 .. n : j <= i => d[j].key < k
    <2>1. \A j \in 1 .. n : j < i => d[j].key < d[i].key
      BY <1>1 DEF Sorted
    <2> QED
      BY <1>1, <2>1
  <1>6. \A j \in 1 .. n : j > i => d[j].key > k
    BY <1>1, <1>4
  <1>7. DOMAIN x = 1 .. n + 1
    BY <1>1, <1>3
  <1>8. \A j \in 1 .. n + 1 :
          \/ j \in 1 .. i /\ j \in 1 .. n /\ x[j].key = d[j].key
          \/ j = i + 1 /\ x[j].key = k
          \/ /\ j - 1 \in i + 1 .. n /\ j - 1 \in 1 .. n /\ j - 1 > i
             /\ x[j].key = d[j - 1].key
    <2> SUFFICES ASSUME NEW j \in 1 .. n + 1
                 PROVE  \/ j \in 1 .. i /\ j \in 1 .. n /\ x[j].key = d[j].key
                        \/ j = i + 1 /\ x[j].key = k
                        \/ /\ j - 1 \in i + 1 .. n /\ j - 1 \in 1 .. n
                           /\ j - 1 > i /\ x[j].key = d[j - 1].key
      OBVIOUS
    <2>1. CASE j <= i
      <3>1. j \in 1 .. i /\ j \in 1 .. n
        BY <1>1, <2>1
      <3> QED
        BY <1>3, <3>1
    <2>2. CASE j = i + 1
      BY <1>3, <2>2
    <2>3. CASE j > i + 1
      <3>1. PICK m : m = j - 1
        OBVIOUS
      <3>2. m \in i + 1 .. n /\ m \in 1 .. n /\ m > i /\ j = m + 1
        BY <1>1, <2>3, <3>1
      <3> QED
        BY <1>3, <3>1, <3>2
    <2> QED
      BY <1>1, <2>1, <2>2, <2>3
  <1> HIDE DEF n
  <1>9. Sorted(x)
    <2> SUFFICES ASSUME NEW a \in 1 .. n + 1, NEW b \in 1 .. n + 1, a < b
                 PROVE  x[a].key < x[b].key
      BY <1>7 DEF Sorted
    <2>1. CASE b \in 1 .. i
      <3>1. a \in 1 .. i /\ a \in 1 .. n /\ b \in 1 .. n
        BY <1>1, <2>1
      <3>2. d[a].key < d[b].key
        BY <1>1, <3>1 DEF Sorted
      <3> QED
        BY <1>3, <2>1, <3>1, <3>2
    <2>2. CASE b = i + 1
      <3>1. a \in 1 .. i /\ a \in 1 .. n /\ a <= i
        BY <1>1, <2>2
      <3>2. x[a].key = d[a].key /\ d[a].key < k
        BY <1>3, <1>5, <3>1
      <3> QED
        BY <1>3, <2>2, <3>2
    <2>3. CASE b > i + 1
      <3>1. PICK m : m = b - 1
        OBVIOUS
      <3>2. m \in i + 1 .. n /\ m \in 1 .. n /\ m > i /\ b = m + 1
        BY <1>1, <2>3, <3>1
      <3>3. x[b].key = d[m].key /\ d[m].key > k
        BY <1>3, <1>6, <3>2
      <3>4. CASE a \in 1 .. i
        <4>1. a \in 1 .. n /\ a <= i
          BY <1>1, <3>4
        <4>2. x[a].key = d[a].key /\ d[a].key < k /\ d[a].key \in Nat
          BY <1>1, <1>3, <1>5, <3>4, <4>1
        <4>3. d[m].key \in Nat
          BY <1>1, <3>2
        <4> QED
          BY <1>1, <3>3, <4>2, <4>3
      <3>5. CASE a = i + 1
        BY <1>1, <1>3, <3>2, <3>3, <3>5
      <3>6. CASE a > i + 1
        <4>1. PICK q : q = a - 1
          OBVIOUS
        <4>2. q \in i + 1 .. n /\ q \in 1 .. n /\ q < m /\ a = q + 1
          BY <1>1, <3>2, <3>6, <4>1
        <4>3. d[q].key < d[m].key
          BY <1>1, <3>2, <4>2 DEF Sorted
        <4> QED
          BY <1>3, <3>3, <4>2, <4>3
      <3> QED
        BY <1>1, <3>4, <3>5, <3>6
    <2> QED
      BY <1>1, <2>1, <2>2, <2>3
  <1>10. x[1].key = d[1].key
    BY <1>1, <1>3
  <1>11. Covers(x, R)
    <2>1. \A j \in 1 .. n : d[j].key \in R
      BY <1>1 DEF Covers
    <2>2. \A j \in 1 .. n + 1 : x[j].key \in R
      BY <1>8, <2>1
    <2> QED
      BY <1>7, <1>10, <2>2 DEF Covers
  <1>12. ASSUME NEW m \in Nat
         PROVE  Locate(x, m) = IF m < k THEN Locate(d, m) ELSE Locate(d, m) + 1
    <2>1. PICK q : q = Locate(d, m)
      OBVIOUS
    <2>2. q \in 0 .. n /\ \A j \in 1 .. n : d[j].key <= m <=> j <= q
      <3>1. /\ Locate(d, m) \in 0 .. Len(d)
            /\ \A j \in DOMAIN d : d[j].key <= m <=> j <= Locate(d, m)
        BY LocateSplits
      <3> QED
        BY <1>1, <2>1, <3>1 DEF n
    <2>3. CASE m < k
      <3>1. q <= i
        <4>1. CASE q = 0
          BY <1>1, <4>1
        <4>2. CASE q # 0
          <5>1. q \in 1 .. n
            BY <1>1, <2>2, <4>2
          <5> QED
            BY <1>1, <1>4, <2>2, <2>3, <5>1
        <4> QED
          BY <4>1, <4>2
      <3>2. q \in 0 .. Len(x)
        BY <1>1, <1>3, <2>2
      <3>3. ASSUME NEW j \in 1 .. n + 1
            PROVE  x[j].key <= m <=> j <= q
        <4>1. CASE j \in 1 .. i /\ j \in 1 .. n /\ x[j].key = d[j].key
          BY <2>2, <4>1
        <4>2. CASE j = i + 1 /\ x[j].key = k
          BY <1>1, <2>2, <2>3, <3>1, <4>2
        <4>3. CASE /\ j - 1 \in i + 1 .. n /\ j - 1 \in 1 .. n /\ j - 1 > i
                   /\ x[j].key = d[j - 1].key
          <5>1. d[j - 1].key > k /\ d[j - 1].key \in Nat
            BY <1>1, <1>6, <4>3
          <5> QED
            BY <1>1, <2>2, <2>3, <3>1, <4>3, <5>1
        <4> QED
          BY <1>8, <4>1, <4>2, <4>3
      <3> QED
        BY <1>3, <1>7, <1>9, <2>1, <2>3, <3>2, <3>3, LocateIs
    <2>4. CASE ~(m < k)
      <3>1. i <= q
        BY <1>1, <1>5, <2>2, <2>4
      <3>2. q + 1 \in 0 .. Len(x)
        BY <1>1, <1>3, <2>2
      <3>3. ASSUME NEW j \in 1 .. n + 1
            PROVE  x[j].key <= m <=> j <= q + 1
        <4>1. CASE j \in 1 .. i /\ j \in 1 .. n /\ x[j].key = d[j].key
          BY <1>1, <1>5, <2>2, <2>4, <3>1, <4>1
        <4>2. CASE j = i + 1 /\ x[j].key = k
          BY <1>1, <2>2, <2>4, <3>1, <4>2
        <4>3. CASE /\ j - 1 \in i + 1 .. n /\ j - 1 \in 1 .. n /\ j - 1 > i
                   /\ x[j].key = d[j - 1].key
          <5>1. d[j - 1].key <= m <=> j - 1 <= q
            BY <2>2, <4>3
          <5>2. j - 1 <= q <=> j <= q + 1
            BY <1>1, <2>2
          <5> QED
            BY <4>3, <5>1, <5>2
        <4> QED
          BY <1>8, <4>1, <4>2, <4>3
      <3> QED
        BY <1>3, <1>7, <1>9, <2>1, <2>4, <3>2, <3>3, LocateIs
    <2> QED
      BY <2>3, <2>4
  <1> QED
    BY <1>9, <1>10, <1>11, <1>12 DEF SortedWith

\* divide gives the first half of the entries to the left node, the others to the
\* right one.
LEMMA HalvesAt ==
  ASSUME NEW d \in Seq(Entries), Len(d) = 2 * Half,
         NEW l, l = LeftHalf(d), NEW r, r = RightHalf(d)
  PROVE  /\ l \in Seq(Entries) /\ DOMAIN l = 1 .. Half
         /\ \A j \in 1 .. Half : l[j] = d[j]
         /\ r \in Seq(Entries) /\ DOMAIN r = 1 .. Half
         /\ \A j \in 1 .. Half : r[j] = d[Half + j]
  <1>1. PICK h \in Nat \ {0} : h = Half
    BY Constants
  <1>2. Len(d) = 2 * h /\ DOMAIN d = 1 .. 2 * h /\ \A j \in 1 .. 2 * h : d[j] \in Entries
    BY <1>1
  <1>3. /\ l \in Seq(Entries) /\ Len(l) = h /\ \A j \in 1 .. h : l[j] = d[j]
    <2>1. \A j \in 1 .. h : d[j] \in Entries
      BY <1>2
    <2>2. /\ SubSeq(d, 1, h) \in Seq(Entries)
          /\ Len(SubSeq(d, 1, h)) = IF 1 <= h THEN h - 1 + 1 ELSE 0
          /\ \A j \in 1 .. h - 1 + 1 : SubSeq(d, 1, h)[j] = d[1 + j - 1]
      BY <2>1, SubSeqProperties
    <2>3. h - 1 + 1 = h /\ 1 <= h /\ \A j \in 1 .. h : 1 + j - 1 = j
      OBVIOUS
    <2> QED
      BY <1>1, <2>2, <2>3 DEF LeftHalf
  <1>4. /\ r \in Seq(Entries) /\ Len(r) = h /\ \A j \in 1 .. h : r[j] = d[h + j]
    <2>1. /\ \A j \in h + 1 .. 2 * h : d[j] \in Entries
          /\ h + 1 \in Int /\ 2 * h \in Int /\ h + 1 <= 2 * h
      BY <1>2
    <2>2. /\ SubSeq(d, h + 1, 2 * h) \in Seq(Entries)
          /\ Len(SubSeq(d, h + 1, 2 * h)) = IF h + 1 <= 2 * h THEN 2 * h - (h + 1) + 1
                                            ELSE 0
          /\ \A j \in 1 .. 2 * h - (h + 1) + 1 :
               SubSeq(d, h + 1, 2 * h)[j] = d[h + 1 + j - 1]
      BY <2>1, SubSeqProperties
    <2>3. 2 * h - (h + 1) + 1 = h /\ \A j \in 1 .. h : h + 1 + j - 1 = h + j
      OBVIOUS
    <2> QED
      BY <1>1, <2>1, <2>2, <2>3 DEF RightHalf
  <1> QED
    BY <1>1, <1>3, <1>4

\* The halves cover the keys below f, the right one's first, and the others.
CoverHalves(d, R, l, r, f) ==
  /\ Sorted(l) /\ Covers(l, {k \in R : k < f}) /\ l[1].key = d[1].key
  /\ Sorted(r) /\ Covers(r, {k \in R : k >= f})
  /\ \A k \in R : Locate(d, k) = IF k < f THEN Locate(l, k) ELSE Half + Locate(r, k)

\* The halves that divide makes do.
LEMMA HalvesCover ==
  ASSUME NEW d \in Seq(Entries), Len(d) = 2 * Half, Sorted(d),
         NEW R \in SUBSET Keys0, Covers(d, R)
  PROVE  CoverHalves(d, R, LeftHalf(d), RightHalf(d), RightHalf(d)[1].key)
  <1> SUFFICES ASSUME NEW l, l = LeftHalf(d), NEW r, r = RightHalf(d),
                      NEW f, f = r[1].key
               PROVE  CoverHalves(d, R, l, r, f)
    OBVIOUS
  <1>1. PICK h \in Nat \ {0} : h = Half
    BY Constants
  <1>2. /\ l \in Seq(Entries) /\ DOMAIN l = 1 .. h /\ Len(l) = h
        /\ \A j \in 1 .. h : l[j] = d[j]
        /\ r \in Seq(Entries) /\ DOMAIN r = 1 .. h /\ Len(r) = h
        /\ \A j \in 1 .. h : r[j] = d[h + j]
    <2>1. /\ l \in Seq(Entries) /\ DOMAIN l = 1 .. Half
          /\ \A j \in 1 .. Half : l[j] = d[j]
          /\ r \in Seq(Entries) /\ DOMAIN r = 1 .. Half
          /\ \A j \in 1 .. Half : r[j] = d[Half + j]
      BY HalvesAt
    <2>2. Len(l) = h /\ Len(r) = h
      BY <1>1, <2>1
    <2> QED
      BY <1>1, <2>1, <2>2
  <1>3. /\ Len(d) = 2 * h /\ DOMAIN d = 1 .. 2 * h
        /\ \A j \in 1 .. 2 * h : d[j].key \in Nat /\ d[j].key \in R
        /\ \A k \in R : k \in Nat /\ d[1].key <= k
    <2>1. /\ \A j \in DOMAIN d : d[j].key \in Nat
          /\ Keys0 \subseteq Nat
      BY KeyTypes
    <2> QED
      BY <1>1, <2>1 DEF Covers
  <1>4. \A i, j \in 1 .. 2 * h : i < j => d[i].key < d[j].key
    BY <1>3 DEF Sorted
  <1>5. f = d[h + 1].key /\ h + 1 \in 1 .. 2 * h /\ f \in Nat /\ f \in R
    BY <1>2, <1>3
  <1>6. \A j \in 1 .. h : /\ j \in 1 .. 2 * h /\ h + j \in 1 .. 2 * h
                          /\ l[j].key < f /\ r[j].key >= f
    <2> SUFFICES ASSUME NEW j \in 1 .. h
                 PROVE  /\ j \in 1 .. 2 * h /\ h + j \in 1 .. 2 * h
                        /\ l[j].key < f /\ r[j].key >= f
      OBVIOUS
    <2>1. j \in 1 .. 2 * h /\ h + j \in 1 .. 2 * h /\ j < h + 1
      OBVIOUS
    <2>2. l[j].key < f
      BY <1>2, <1>4, <1>5, <2>1
    <2>3. CASE j = 1
      <3>1. r[j].key = f
        BY <2>3
      <3> QED
        BY <1>5, <2>1, <2>2, <3>1
    <2>4. CASE j > 1
      <3>1. h + 1 < h + j
        BY <2>4
      <3>2. d[h + 1].key < d[h + j].key
        BY <1>4, <1>5, <2>1, <3>1
      <3>3. r[j].key = d[h + j].key /\ d[h + j].key \in Nat
        BY <1>2, <1>3, <2>1
      <3> QED
        BY <1>5, <2>1, <2>2, <3>2, <3>3
    <2> QED
      BY <2>3, <2>4
  <1>7. Sorted(l)
    BY <1>2, <1>4, <1>6 DEF Sorted
  <1>8. Sorted(r)
    <2> SUFFICES ASSUME NEW i \in 1 .. h, NEW j \in 1 .. h, i < j
                 PROVE  r[i].key < r[j].key
      BY <1>2 DEF Sorted
    <2>1. h + i < h + j /\ h + i \in 1 .. 2 * h /\ h + j \in 1 .. 2 * h
      OBVIOUS
    <2> QED
      BY <1>2, <1>4, <2>1
  <1>9. l[1].key = d[1].key
    BY <1>2
  <1>10. Covers(l, {k \in R : k < f})
    BY <1>2, <1>3, <1>6, <1>9 DEF Covers
  <1>11. Covers(r, {k \in R : k >= f})
    BY <1>2, <1>3, <1>5, <1>6 DEF Covers
  <1>12. ASSUME NEW k \in R, k < f
         PROVE  Locate(d, k) = Locate(l, k)
    <2>1. k \in Nat
      BY <1>3
    <2>2. PICK q : q = Locate(l, k)
      OBVIOUS
    <2>3. q \in 0 .. h /\ \A j \in 1 .. h : l[j].key <= k <=> j <= q
      <3>1. /\ Locate(l, k) \in 0 .. Len(l)
            /\ \A j \in DOMAIN l : l[j].key <= k <=> j <= Locate(l, k)
        BY <1>2, <1>7, <2>1, LocateSplits
      <3> QED
        BY <1>2, <2>2, <3>1
    <2>4. ASSUME NEW j \in 1 .. 2 * h
          PROVE  d[j].key <= k <=> j <= q
      <3>1. CASE j \in 1 .. h
        BY <1>2, <2>3, <3>1
      <3>2. CASE j = h + 1
        BY <1>5, <1>12, <2>1, <2>3, <3>2
      <3>3. CASE j > h + 1
        <4>1. d[h + 1].key < d[j].key /\ d[j].key \in Nat
          BY <1>3, <1>4, <1>5, <3>3
        <4> QED
          BY <1>5, <1>12, <2>1, <2>3, <3>3, <4>1
      <3> QED
        BY <3>1, <3>2, <3>3
    <2>5. q \in 0 .. Len(d)
      BY <1>3, <2>3
    <2> QED
      BY <1>3, <2>1, <2>2, <2>4, <2>5, LocateIs
  <1>13. ASSUME NEW k \in R, k >= f
         PROVE  Locate(d, k) = h + Locate(r, k)
    <2>1. k \in Nat
      BY <1>3
    <2>2. PICK q : q = Locate(r, k)
      OBVIOUS
    <2>3. q \in 0 .. h /\ \A j \in 1 .. h : r[j].key <= k <=> j <= q
      <3>1. /\ Locate(r, k) \in 0 .. Len(r)
            /\ \A j \in DOMAIN r : r[j].key <= k <=> j <= Locate(r, k)
        BY <1>2, <1>8, <2>1, LocateSplits
      <3> QED
        BY <1>2, <2>2, <3>1
    <2>4. ASSUME NEW j \in 1 .. 2 * h
          PROVE  d[j].key <= k <=> j <= h + q
      <3>1. CASE j \in 1 .. h
        <4>1. l[j].key < f /\ l[j].key = d[j].key /\ d[j].key \in Nat
          BY <1>2, <1>3, <1>6, <3>1
        <4> QED
          BY <1>5, <1>13, <2>1, <2>3, <3>1, <4>1
      <3>2. CASE j > h
        <4>1. PICK m : m = j - h
          OBVIOUS
        <4>2. m \in 1 .. h /\ j = h + m /\ (m <= q <=> j <= h + q)
          BY <2>3, <3>2, <4>1
        <4>3. d[j].key = r[m].key
          BY <1>2, <4>2
        <4> QED
          BY <2>3, <4>2, <4>3
      <3> QED
        BY <3>1, <3>2
    <2>5. h + q \in 0 .. Len(d)
      BY <1>3, <2>3
    <2> QED
      BY <1>3, <2>1, <2>2, <2>4, <2>5, LocateIs
  <1>14. ASSUME NEW k \in R
         PROVE  Locate(d, k) = IF k < f THEN Locate(l, k) ELSE Half + Locate(r, k)
    <2>1. k < f \/ k >= f
      BY <1>3, <1>5
    <2> QED
      BY <1>1, <1>12, <1>13, <2>1
  <1> QED
    BY <1>7, <1>8, <1>9, <1>10, <1>11, <1>14 DEF CoverHalves

\* No node is linked twice, for each has a key of its own.
LEMMA LinksDiffer ==
  ASSUME NEW d \in Seq(Entries), Sorted(d), NEW R, Covers(d, R), NEW rg,
         Routes(d, R, rg), NEW i \in DOMAIN d, NEW j \in DOMAIN d,
         d[i].link = d[j].link
  PROVE  i = j
  <1>1. Locate(d, d[i].key) = i /\ d[i].key \in R
    BY LocateOwn DEF Covers
  <1>2. d[i].key \in rg[d[i].link] /\ rg[d[j].link] = {k \in R : Locate(d, k) = j}
    BY <1>1 DEF Routes
  <1> QED
    BY <1>1, <1>2

\* The new nodes that replace a linked one share out what was its range.
RoutesWith(x, d, i, left, right, R, rg) ==
  /\ Routes(x, R, rg)
  /\ \A c \in Links(x) : c \in {left, right} \/ (c \in Links(d) /\ c # d[i].link)
  /\ {left, right} \subseteq Links(x)
  /\ \A c \in Links(d) : c \in Links(x) \/ c = d[i].link

\* They do when they enter the node above behind the entry of the old one.
LEMMA RoutesInserted ==
  ASSUME NEW d \in Seq(Entries), Sorted(d), NEW k \in Keys0,
         NEW i \in 1 .. Len(d), i = Locate(d, k), d[i].key < k,
         NEW R \in SUBSET Keys0, Covers(d, R), k \in R, NEW rg, Routes(d, R, rg),
         NEW left \in 0 .. MaxNodes, left # NoNode, NEW right \in 0 .. MaxNodes,
         Shares(d[i].link, left, right, k, rg)
  PROVE  RoutesWith(Extended(d, i, Entry(k, right), left), d, i, left, right, R, rg)
  <1> SUFFICES ASSUME NEW x, x = Extended(d, i, Entry(k, right), left)
               PROVE  RoutesWith(x, d, i, left, right, R, rg)
    OBVIOUS
  <1>1. PICK n \in Nat : n = Len(d)
    OBVIOUS
  <1>2. PICK new \in Entries : new = Entry(k, right) /\ new.link = right
    BY DEF Entry, Entries, Keys0
  <1>3. /\ DOMAIN d = 1 .. n /\ i \in 1 .. n /\ k \in Nat /\ R \subseteq Nat
        /\ \A j \in 1 .. n : d[j].key \in Nat
    BY <1>1, KeyTypes
  <1>4. /\ x \in Seq(Entries) /\ Len(x) = n + 1
        /\ \A j \in 1 .. i : x[j].link = IF j = i THEN left ELSE d[j].link
        /\ x[i + 1].link = right
        /\ \A j \in i + 1 .. n : x[j + 1].link = d[j].link
    <2>1. PICK p \in 0 .. Len(d) : p = i
      BY <1>1, <1>3
    <2>2. IsExtended(Extended(d, p, new, left), d, p, new, left)
      BY ExtendedAt
    <2>3. IsExtended(x, d, i, new, left)
      BY <1>2, <2>1, <2>2
    <2> QED
      BY <1>1, <1>2, <2>1, <2>3 DEF IsExtended
  <1>5. /\ DOMAIN x = 1 .. n + 1
        /\ \A j \in 1 .. n + 1 :
             \/ j \in 1 .. i /\ j # i /\ j \in 1 .. n /\ x[j].link = d[j].link
             \/ j = i /\ x[j].link = left
             \/ j = i + 1 /\ x[j].link = right
             \/ \E q \in 1 .. n : j = q + 1 /\ q > i /\ x[j].link = d[q].link
    <2>1. DOMAIN x = 1 .. n + 1
      BY <1>4
    <2>2. ASSUME NEW j \in 1 .. n + 1
          PROVE  \/ j \in 1 .. i /\ j # i /\ j \in 1 .. n /\ x[j].link = d[j].link
                 \/ j = i /\ x[j].link = left
                 \/ j = i + 1 /\ x[j].link = right
                 \/ \E q \in 1 .. n : j = q + 1 /\ q > i /\ x[j].link = d[q].link
      <3>1. CASE j <= i
        <4>1. j \in 1 .. i /\ j \in 1 .. n
          BY <1>3, <3>1
        <4> QED
          BY <1>4, <4>1
      <3>2. CASE j = i + 1
        BY <1>4, <3>2
      <3>3. CASE j > i + 1
        <4>1. PICK q : q = j - 1
          OBVIOUS
        <4>2. q \in i + 1 .. n /\ q \in 1 .. n /\ q > i /\ j = q + 1
          BY <1>3, <3>3, <4>1
        <4> QED
          BY <1>4, <4>2
      <3> QED
        BY <1>3, <3>1, <3>2, <3>3
    <2> QED
      BY <2>1, <2>2
  <1>6. \A m \in R : Locate(x, m) = IF m < k THEN Locate(d, m) ELSE Locate(d, m) + 1
    <2>1. \A m \in Nat :
            Locate(x, m) = IF m < k THEN Locate(d, m) ELSE Locate(d, m) + 1
      BY Inserted DEF SortedWith
    <2> QED
      BY <1>3, <2>1
  <1>7. \A m \in R : /\ Locate(d, m) \in 0 .. n
                     /\ Locate(d, m) < i => m < k
                     /\ Locate(d, m) > i => ~(m < k)
    <2> SUFFICES ASSUME NEW m \in R
                 PROVE  /\ Locate(d, m) \in 0 .. n
                        /\ Locate(d, m) < i => m < k
                        /\ Locate(d, m) > i => ~(m < k)
      OBVIOUS
    <2>1. m \in Nat
      BY <1>3
    <2>2. PICK q : q = Locate(d, m)
      OBVIOUS
    <2>3. q \in 0 .. n /\ \A j \in 1 .. n : d[j].key <= m <=> j <= q
      <3>1. /\ Locate(d, m) \in 0 .. Len(d)
            /\ \A j \in DOMAIN d : d[j].key <= m <=> j <= Locate(d, m)
        BY <2>1, LocateSplits
      <3> QED
        BY <1>1, <1>3, <2>2, <3>1
    <2>4. \A j \in 1 .. n : d[j].key <= k <=> j <= i
      <3>1. \A j \in DOMAIN d : d[j].key <= k <=> j <= Locate(d, k)
        BY <1>3, LocateSplits
      <3> QED
        BY <1>3, <3>1
    <2>5. q < i => m < k
      BY <1>3, <2>1, <2>3
    <2>6. ASSUME q > i
          PROVE  ~(m < k)
      <3>1. q \in 1 .. n
        BY <1>3, <2>3, <2>6
      <3>2. d[q].key <= m /\ ~(d[q].key <= k) /\ d[q].key \in Nat
        BY <1>3, <2>3, <2>4, <2>6, <3>1
      <3> QED
        BY <1>3, <2>1, <3>2
    <2> QED
      BY <2>2, <2>3, <2>5, <2>6
  <1>8. \A j \in 1 .. n : rg[d[j].link] = {m \in R : Locate(d, m) = j}
    BY <1>3 DEF Routes
  <1>9. ASSUME NEW j \in 1 .. n + 1
        PROVE  rg[x[j].link] = {m \in R : Locate(x, m) = j}
    <2>1. CASE j \in 1 .. i /\ j # i /\ j \in 1 .. n /\ x[j].link = d[j].link
      <3>1. \A m \in R : Locate(x, m) = j <=> Locate(d, m) = j
        BY <1>3, <1>6, <1>7, <2>1
      <3> QED
        BY <1>8, <2>1, <3>1
    <2>2. CASE j = i /\ x[j].link = left
      <3>1. \A m \in R : Locate(x, m) = i <=> Locate(d, m) = i /\ m < k
        BY <1>3, <1>6, <1>7
      <3>2. rg[d[i].link] = {m \in R : Locate(d, m) = i}
        BY <1>3, <1>8
      <3> QED
        BY <2>2, <3>1, <3>2 DEF Shares
    <2>3. CASE j = i + 1 /\ x[j].link = right
      <3>1. \A m \in R : Locate(x, m) = i + 1 <=> Locate(d, m) = i /\ m >= k
        BY <1>3, <1>6, <1>7
      <3>2. rg[d[i].link] = {m \in R : Locate(d, m) = i}
        BY <1>3, <1>8
      <3> QED
        BY <2>3, <3>1, <3>2 DEF Shares
    <2>4. CASE \E q \in 1 .. n : j = q + 1 /\ q > i /\ x[j].link = d[q].link
      <3>1. PICK q \in 1 .. n : j = q + 1 /\ q > i /\ x[j].link = d[q].link
        BY <2>4
      <3>2. ASSUME NEW m \in R
            PROVE  Locate(x, m) = q + 1 <=> Locate(d, m) = q
        <4>1. PICK y : y = Locate(d, m)
          OBVIOUS
        <4>2. /\ y \in 0 .. n /\ (y < i => m < k) /\ (y > i => ~(m < k))
              /\ Locate(x, m) = IF m < k THEN y ELSE y + 1
          BY <1>6, <1>7, <4>1
        <4>3. y \in Int /\ q \in Int /\ i \in Int /\ q > i
          BY <1>3, <3>1, <4>2
        <4>4. y = q => Locate(x, m) = q + 1
          BY <4>2, <4>3
        <4>5. Locate(x, m) = q + 1 => y = q
          <5>1. CASE m < k
            BY <4>2, <4>3, <5>1
          <5>2. CASE ~(m < k)
            BY <4>2, <4>3, <5>2
          <5> QED
            BY <5>1, <5>2
        <4> QED
          BY <4>1, <4>4, <4>5
      <3> QED
        BY <1>8, <3>1, <3>2
    <2> QED
      BY <1>5, <2>1, <2>2, <2>3, <2>4
  <1>10. Routes(x, R, rg)
    BY <1>5, <1>9 DEF Routes
  <1>11. \A a, b \in 1 .. n : d[a].link = d[b].link => a = b
    BY <1>3, LinksDiffer
  <1>12. ASSUME NEW c \in Links(x)
         PROVE  c \in {left, right} \/ (c \in Links(d) /\ c # d[i].link)
    <2>1. PICK j \in 1 .. n + 1 : c = x[j].link
      BY <1>5, <1>12 DEF Links
    <2>2. ASSUME NEW q \in 1 .. n, q # i, c = d[q].link
          PROVE  c \in Links(d) /\ c # d[i].link
      BY <1>3, <1>11, <2>2 DEF Links
    <2> QED
      BY <1>3, <1>5, <2>1, <2>2
  <1>13. {left, right} \subseteq Links(x)
    <2>1. i \in 1 .. i /\ i \in 1 .. n + 1 /\ i + 1 \in 1 .. n + 1
      BY <1>3
    <2> QED
      BY <1>4, <1>5, <2>1 DEF Links
  <1>14. ASSUME NEW c \in Links(d), c # d[i].link
         PROVE  c \in Links(x)
    <2>1. PICK j \in 1 .. n : c = d[j].link /\ j # i
      BY <1>3, <1>14 DEF Links
    <2>2. CASE j < i
      <3>1. j \in 1 .. i /\ j \in 1 .. n + 1
        BY <1>3, <2>2
      <3> QED
        BY <1>4, <1>5, <2>1, <3>1 DEF Links
    <2>3. CASE j > i
      <3>1. j \in i + 1 .. n /\ j + 1 \in 1 .. n + 1
        BY <1>3, <2>3
      <3> QED
        BY ZenonT(30), <1>4, <1>5, <2>1, <3>1 DEF Links
    <2> QED
      BY <1>3, <2>1, <2>2, <2>3
  <1> QED
    BY <1>10, <1>12, <1>13, <1>14 DEF RoutesWith

\* The halves of a node's entries share out the two parts of its range.
RouteHalves(d, R, rg, l, r, f) ==
  /\ Routes(l, {k \in R : k < f}, rg)
  /\ Routes(r, {k \in R : k >= f}, rg)
  /\ Links(l) \cap Links(r) = {} /\ Links(d) = Links(l) \cup Links(r)

\* divide cuts the links of an interior node like that.
LEMMA HalvesRoute ==
  ASSUME NEW d \in Seq(Entries), Len(d) = 2 * Half, Sorted(d),
         NEW R \in SUBSET Keys0, Covers(d, R), NEW rg, Routes(d, R, rg)
  PROVE  RouteHalves(d, R, rg, LeftHalf(d), RightHalf(d), RightHalf(d)[1].key)
  <1> SUFFICES ASSUME NEW l, l = LeftHalf(d), NEW r, r = RightHalf(d),
                      NEW f, f = r[1].key
               PROVE  RouteHalves(d, R, rg, l, r, f)
    OBVIOUS
  <1>1. PICK h \in Nat \ {0} : h = Half
    BY Constants
  <1>2. /\ l \in Seq(Entries) /\ DOMAIN l = 1 .. h /\ Len(l) = h
        /\ \A j \in 1 .. h : l[j] = d[j]
        /\ r \in Seq(Entries) /\ DOMAIN r = 1 .. h /\ Len(r) = h
        /\ \A j \in 1 .. h : r[j] = d[h + j]
    <2>1. /\ l \in Seq(Entries) /\ DOMAIN l = 1 .. Half
          /\ \A j \in 1 .. Half : l[j] = d[j]
          /\ r \in Seq(Entries) /\ DOMAIN r = 1 .. Half
          /\ \A j \in 1 .. Half : r[j] = d[Half + j]
      BY HalvesAt
    <2>2. Len(l) = h /\ Len(r) = h
      BY <1>1, <2>1
    <2> QED
      BY <1>1, <2>1, <2>2
  <1>3. DOMAIN d = 1 .. 2 * h /\ R \subseteq Nat
    BY <1>1, KeyTypes
  <1>4. \A k \in R : Locate(d, k) = IF k < f THEN Locate(l, k) ELSE h + Locate(r, k)
    <2>1. CoverHalves(d, R, l, r, f)
      BY HalvesCover
    <2> QED
      BY <1>1, <2>1 DEF CoverHalves
  <1>5. /\ \A k : Locate(l, k) \in 0 .. h
        /\ \A k \in R : ~(k < f) => Locate(r, k) \in 1 .. h
    <2>1. ASSUME NEW k
          PROVE  Locate(l, k) \in 0 .. h
      BY <1>2, LocateRange
    <2>2. ASSUME NEW k \in R, ~(k < f)
          PROVE  Locate(r, k) \in 1 .. h
      <3>1. r # << >> /\ k \in Nat /\ f \in Nat
        <4>1. 1 \in DOMAIN r
          BY <1>2
        <4>2. r[1].key \in Nat
          BY <1>2, <4>1, KeyTypes
        <4> QED
          BY <1>3, <4>1, <4>2
      <3>2. r[1].key <= k
        BY <2>2, <3>1
      <3> QED
        BY <1>2, <3>1, <3>2, LocateRange
    <2> QED
      BY <2>1, <2>2
  <1>6. \A j \in 1 .. 2 * h : rg[d[j].link] = {k \in R : Locate(d, k) = j}
    BY <1>3 DEF Routes
  <1>7. ASSUME NEW j \in 1 .. h
        PROVE  /\ rg[l[j].link] = {k \in R : k < f /\ Locate(l, k) = j}
               /\ rg[r[j].link] = {k \in R : k >= f /\ Locate(r, k) = j}
    <2>1. j \in 1 .. 2 * h /\ h + j \in 1 .. 2 * h
      OBVIOUS
    <2>2. f \in Nat
      <3>1. 1 \in DOMAIN r
        BY <1>2
      <3> QED
        BY <1>2, <3>1, KeyTypes
    <2>3. \A k \in R : Locate(d, k) = j <=> k < f /\ Locate(l, k) = j
      BY <1>4, <1>5
    <2>4. \A k \in R : Locate(d, k) = h + j <=> k >= f /\ Locate(r, k) = j
      <3> SUFFICES ASSUME NEW k \in R
                   PROVE  Locate(d, k) = h + j <=> k >= f /\ Locate(r, k) = j
        OBVIOUS
      <3>1. k \in Nat
        BY <1>3
      <3>2. CASE k < f
        <4>1. Locate(d, k) \in 0 .. h
          BY <1>4, <1>5, <3>2
        <4> QED
          BY <2>2, <3>1, <3>2, <4>1
      <3>3. CASE ~(k < f)
        <4>1. Locate(d, k) = h + Locate(r, k) /\ Locate(r, k) \in 1 .. h
          BY <1>4, <1>5, <3>3
        <4> QED
          BY <2>2, <3>1, <3>3, <4>1
      <3> QED
        BY <3>2, <3>3
    <2>5. rg[l[j].link] = {k \in R : Locate(d, k) = j}
      BY <1>2, <1>6, <2>1
    <2>6. rg[r[j].link] = {k \in R : Locate(d, k) = h + j}
      BY <1>2, <1>6, <2>1
    <2> QED
      BY <2>3, <2>4, <2>5, <2>6
  <1>8. \A a, b \in 1 .. 2 * h : d[a].link = d[b].link => a = b
    BY <1>3, LinksDiffer
  <1>9. Links(l) \cap Links(r) = {}
    <2> SUFFICES ASSUME NEW a \in 1 .. h, NEW b \in 1 .. h, l[a].link = r[b].link
                 PROVE  FALSE
      BY <1>2 DEF Links
    <2>1. a \in 1 .. 2 * h /\ h + b \in 1 .. 2 * h /\ a # h + b
      OBVIOUS
    <2> QED
      BY <1>2, <1>8, <2>1
  <1>10. Links(l) \cup Links(r) \subseteq Links(d)
    <2>1. ASSUME NEW j \in 1 .. h
          PROVE  l[j].link \in Links(d) /\ r[j].link \in Links(d)
      <3>1. j \in 1 .. 2 * h /\ h + j \in 1 .. 2 * h
        OBVIOUS
      <3> QED
        BY <1>2, <1>3, <3>1 DEF Links
    <2>2. Links(l) = {l[j].link : j \in 1 .. h} /\ Links(r) = {r[j].link : j \in 1 .. h}
      BY <1>2 DEF Links
    <2> QED
      BY <2>1, <2>2
  <1>11. ASSUME NEW c \in Links(d)
         PROVE  c \in Links(l) \cup Links(r)
    <2>1. PICK j \in 1 .. 2 * h : c = d[j].link
      BY <1>3, <1>11 DEF Links
    <2>2. CASE j \in 1 .. h
      BY <1>2, <2>1, <2>2 DEF Links
    <2>3. CASE j > h
      <3>1. PICK m : m = j - h
        OBVIOUS
      <3>2. m \in 1 .. h /\ j = h + m
        BY <2>3, <3>1
      <3> QED
        BY <1>2, <2>1, <3>2 DEF Links
    <2> QED
      BY <2>2, <2>3
  <1> QED
    BY <1>2, <1>7, <1>9, <1>10, <1>11 DEF RouteHalves, Routes

-----------------------------------------------------------------------------
(* The tree and the threads that change it; rg[n] is the range of node n.    *)

Shaped(n, rg) ==
  /\ Sorted(data[n]) /\ Covers(data[n], rg[n]) /\ Len(data[n]) <= Fanout
  /\ type[n] # "LEAF" => Routes(data[n], rg[n], rg)
  /\ type[n] = "ROOT" => rg[n] = Keys0

\* Nodes l and r share out the range of node c.
Halved(c, l, r, rg) == Shares(c, l, r, First(r), rg)

Deleted(n) == Has(ver[n], DELETED)
Splitting(n) == \E u \in Thread : pc[u] \in Splits /\ n = at[u].node

\* Thread t is about to link its halves in the node above, which it has locked:
\* they know that node, which does not know them.
AtParent(t) == pc[t] = "interior" \/ (pc[t] = "insert" /\ type[at[t].node] # "LEAF")
Unlinked(t) == AtParent(t) \/ (pc[t] = "replace" /\ at[t].near # NoNode)
Above(t) == IF pc[t] = "replace" THEN at[t].near ELSE at[t].node
Loose(n) == \E u \in Thread : Unlinked(u) /\ n \in Halves(u)

\* The halves do not know the node above yet.
Building == {"next", "prev", "lockprev", "parent", "lockparent", "newroot"}

\* Where a thread looks for a key is where the key belongs.
PathAt(t, rg) ==
  /\ pc[t] \in {"stable"} \cup Descending \cup AtLeaf => op(t).key \in rg[at[t].node]
  /\ pc[t] \in {"child", "check"} => op(t).key \in rg[at[t].child]
  /\ pc[t] = "insert" => Roomy(at[t].node)
  /\ pc[t] = "insert" /\ type[at[t].node] = "LEAF" =>
       op(t).key \in rg[at[t].node] /\ ~Holds(at[t].node, op(t).key)

\* What a thread has locked to change the tree is part of the tree, and what it
\* has made is not, until it is linked.
SplitAt(t, rg) ==
  /\ pc[t] = "interior" => type[at[t].node] # "LEAF"
  /\ pc[t] = "newroot" => type[at[t].node] = "ROOT"
  /\ pc[t] \in Splits => Halved(at[t].node, at[t].left, at[t].right, rg)
  /\ AtParent(t) => \E c \in Links(data[at[t].node]) :
       Deleted(c) /\ Halved(c, at[t].left, at[t].right, rg)
  /\ pc[t] = "replace" /\ at[t].near # NoNode =>
       /\ at[t].node \in Links(data[at[t].near]) /\ type[at[t].near] # "LEAF"
       /\ ~Deleted(at[t].near)
  /\ pc[t] \in Inserts \cup Splits \/ (pc[t] = "act" /\ op(t).kind # "read")
       => ~Deleted(at[t].node)
  /\ pc[t] \in Building \/ Unlinked(t) =>
       \A m \in Node : Halves(t) \cap Links(data[m]) = {}
  /\ pc[t] \in Building => parent[at[t].left] = NoNode /\ parent[at[t].right] = NoNode
  /\ Unlinked(t) => parent[at[t].left] = Above(t) /\ parent[at[t].right] = Above(t)

\* A node that is in use is linked by the node above it ...
UpAt(n) ==
  parent[n] # NoNode /\ ~Deleted(n) /\ ~Loose(n) =>
    /\ n \in Links(data[parent[n]]) /\ type[parent[n]] # "LEAF"
    /\ ~Deleted(parent[n]) /\ ~Splitting(parent[n])

\* ... and what it links has it above.
DownAt(n) ==
  type[n] # "LEAF" /\ ~Deleted(n) /\ ~Splitting(n) =>
    \A c \in Links(data[n]) : parent[c] = n

TopInv == type[root] = "ROOT" /\ \A n \in Node \ (1 .. used) : parent[n] = NoNode

TreeInv(rg) ==
  /\ rg \in [Node -> SUBSET Keys0] /\ TopInv
  /\ \A n \in 1 .. used : Shaped(n, rg) /\ UpAt(n) /\ DownAt(n)
  /\ \A t \in Thread : PathAt(t, rg) /\ SplitAt(t, rg)

\* The nodes a thread that splits a node works on.
LEMMA HalvesNodes ==
  ASSUME IInv, NEW t \in Thread, pc[t] \in Splits \/ AtParent(t)
  PROVE  /\ at[t].node \in 1 .. used /\ at[t].node \in Held(t)
         /\ at[t].left \in 1 .. used /\ at[t].right \in 1 .. used
         /\ Halves(t) = {at[t].left, at[t].right}
         /\ pc[t] = "replace" /\ at[t].near # NoNode
              => at[t].near \in 1 .. used /\ at[t].near \in Held(t)
  <1>1. /\ pc[t] \notin {"idle", "root"}
        /\ pc[t] \in {"act", "updated"} \cup Inserts \cup Splits
    BY DEF AtParent, Splits, Inserts
  <1>2. at[t].node \in 1 .. used /\ at[t].node \in Held(t)
    BY <1>1, Facts, HeldNodes
  <1>3. at[t].left \in 0 .. used /\ at[t].left # NoNode
        /\ at[t].right \in 0 .. used /\ at[t].right # NoNode
    BY DEF IInv, LocalsAt, AtParent
  <1>4. at[t].left \in 1 .. used /\ at[t].right \in 1 .. used
    BY <1>3, Facts
  <1>5. pc[t] = "replace" /\ at[t].near # NoNode
          => at[t].near \in 1 .. used /\ at[t].near \in Held(t)
    BY HeldNodes
  <1> QED
    BY <1>2, <1>3, <1>4, <1>5 DEF Halves

\* What an interior node links are nodes.
LEMMA LinkedNodes ==
  ASSUME IInv, NEW n \in 1 .. used, type[n] # "LEAF"
  PROVE  Links(data[n]) \subseteq 1 .. used
  <1>1. /\ used \in Nat /\ n \in Node /\ Links(data[n]) \subseteq 0 .. used
        /\ NoNode \notin Links(data[n])
    <2>1. n \in Node /\ used \in Nat
      BY Constants DEF IInv, NodesInv
    <2> QED
      BY <2>1 DEF IInv, NodesInv
  <1> QED
    BY <1>1, Constants

\* A node's entries.
LEMMA EntriesOf ==
  ASSUME IInv, NEW n \in 1 .. used
  PROVE  /\ n \in Node /\ data[n] \in Seq(Entries) /\ data[n] # << >>
         /\ Len(data[n]) \in Nat \ {0} /\ DOMAIN data[n] = 1 .. Len(data[n])
         /\ First(n) \in Keys0 /\ First(n) \in Nat
  <1>1. /\ n \in Node /\ data[n] \in Seq(Entries) /\ data[n] # << >>
    <2>1. n \in Node
      BY Constants DEF IInv, NodesInv
    <2> QED
      BY <2>1 DEF IInv, NodesInv
  <1>2. PICK d \in Seq(Entries) : d = data[n] /\ d # << >>
    BY <1>1
  <1>3. Len(d) \in Nat \ {0} /\ DOMAIN d = 1 .. Len(d) /\ 1 \in DOMAIN d
    BY <1>2
  <1>4. d[1].key \in Keys0 /\ d[1].key \in Nat
    BY <1>3, KeyTypes
  <1> QED
    BY <1>1, <1>2, <1>3, <1>4 DEF First

\* The node above links the node that the halves replace: it is the entry
\* locate finds, and the key of the right half belongs behind it.
LEMMA AboveFacts ==
  ASSUME IInv, NEW rg, TreeInv(rg), NEW t \in Thread, AtParent(t),
         NEW n, n = at[t].node, NEW d, d = data[n], NEW l, l = at[t].left,
         NEW r, r = at[t].right
  PROVE  /\ First(r) \in rg[n] /\ First(n) <= SplitKey(t)
         /\ \E i \in 1 .. Len(d) :
              /\ i = Locate(d, First(r)) /\ i = Locate(d, SplitKey(t))
              /\ d[i].key < First(r) /\ Deleted(d[i].link)
              /\ Halved(d[i].link, l, r, rg)
  <1>1. /\ n \in 1 .. used /\ l \in 1 .. used /\ r \in 1 .. used
        /\ type[n] # "LEAF"
    <2>1. n \in 1 .. used /\ l \in 1 .. used /\ r \in 1 .. used
      BY HalvesNodes
    <2>2. SplitAt(t, rg)
      BY DEF TreeInv
    <2> QED
      BY <2>1, <2>2 DEF SplitAt, AtParent
  <1>2. /\ d \in Seq(Entries) /\ DOMAIN d = 1 .. Len(d) /\ d # << >>
        /\ Len(d) \in Nat
    BY <1>1, EntriesOf
  <1>3. First(l) \in Nat /\ First(r) \in Nat
    BY <1>1, EntriesOf
  <1>4. /\ Sorted(d) /\ Covers(d, rg[n]) /\ Routes(d, rg[n], rg)
    BY <1>1 DEF TreeInv, Shaped
  <1>5. First(l) \in rg[l] /\ First(r) \in rg[r]
    <2>1. Covers(data[l], rg[l]) /\ Covers(data[r], rg[r])
      BY <1>1 DEF TreeInv, Shaped
    <2>2. 1 \in DOMAIN data[l] /\ 1 \in DOMAIN data[r]
      <3>1. /\ Len(data[l]) \in Nat \ {0} /\ DOMAIN data[l] = 1 .. Len(data[l])
            /\ Len(data[r]) \in Nat \ {0} /\ DOMAIN data[r] = 1 .. Len(data[r])
        BY <1>1, EntriesOf
      <3> QED
        BY <3>1
    <2> QED
      BY <2>1, <2>2 DEF Covers, First
  <1>6. PICK c \in Links(d) : Deleted(c) /\ Halved(c, l, r, rg)
    BY DEF TreeInv, SplitAt
  <1>7. PICK i \in 1 .. Len(d) : c = d[i].link
    BY <1>2 DEF Links
  <1>8. rg[c] = {k \in rg[n] : Locate(d, k) = i}
    BY <1>2, <1>4, <1>7 DEF Routes
  <1>9. /\ First(l) \in rg[n] /\ Locate(d, First(l)) = i /\ First(l) < First(r)
        /\ First(r) \in rg[n] /\ Locate(d, First(r)) = i
    BY <1>5, <1>6, <1>8 DEF Halved, Shares
  <1>10. d[i].key <= First(l) /\ d[i].key \in Nat
    <2>1. \A j \in DOMAIN d : d[j].key <= First(l) <=> j <= Locate(d, First(l))
      BY <1>2, <1>3, <1>4, LocateSplits
    <2>2. i \in DOMAIN d /\ i <= i
      BY <1>2
    <2>3. d[i].key \in Nat
      BY <1>2, <2>2, KeyTypes
    <2> QED
      BY <1>9, <2>1, <2>2, <2>3
  <1>11. d[i].key < First(r)
    BY <1>3, <1>9, <1>10
  <1>12. First(n) <= First(l) /\ First(n) <= First(r)
    BY <1>4, <1>9 DEF Covers, First
  <1> QED
    BY <1>6, <1>7, <1>9, <1>11, <1>12 DEF SplitKey

\* So locate never fails.
LEMMA TreeLocates ==
  ASSUME IInv, NEW rg, TreeInv(rg)
  PROVE  LocateFinds
  <1> SUFFICES ASSUME NEW t \in Thread
               PROVE  /\ pc[t] \in {"down", "act"} => First(at[t].node) <= op(t).key
                      /\ pc[t] = "interior" => First(at[t].node) <= SplitKey(t)
    BY DEF LocateFinds
  <1>1. ASSUME pc[t] \in {"down", "act"}
        PROVE  First(at[t].node) <= op(t).key
    <2>1. at[t].node \in 1 .. used /\ op(t).key \in rg[at[t].node]
      BY <1>1, Facts DEF TreeInv, PathAt, Descending, AtLeaf
    <2> QED
      BY <2>1 DEF TreeInv, Shaped, Covers, First
  <1>2. ASSUME pc[t] = "interior"
        PROVE  First(at[t].node) <= SplitKey(t)
    BY <1>2, AboveFacts DEF AtParent
  <1> QED
    BY <1>1, <1>2

-----------------------------------------------------------------------------
(* Steps.                                                                    *)

\* DELETED stays as it is but in done_split_and_delete.
LEMMA DeletedBits ==
  ASSUME NEW v \in Nat
  PROVE  /\ \A w \in {Raise(v, LOCK), Raise(v, INSERT), Raise(v, SPLIT), Unlocked(v),
                      DoneInsert(v), DoneCreate(v)} :
              w \in Nat /\ (Has(w, DELETED) <=> Has(v, DELETED))
         /\ DoneSplitAndDelete(v) \in Nat /\ Has(DoneSplitAndDelete(v), DELETED)
         /\ \A w \in Nat : SameButLock(v, w) => (Has(v, DELETED) <=> Has(w, DELETED))
  <1>1. /\ LOCK \in Bits \ {DELETED} /\ INSERT \in Bits \ {DELETED}
        /\ SPLIT \in Bits \ {DELETED} /\ DELETED \in Bits
    BY DEF Bits, LOCK, INSERT, SPLIT, DELETED
  <1>2. \A b \in Bits \ {DELETED}, u \in Nat :
          /\ Raise(u, b) \in Nat /\ (Has(Raise(u, b), DELETED) <=> Has(u, DELETED))
          /\ Toggle(u, b) \in Nat /\ (Has(Toggle(u, b), DELETED) <=> Has(u, DELETED))
    BY <1>1, RaiseBits, ToggleBits
  <1>3. v + INSERTCNT \in Nat /\ (Has(v + INSERTCNT, DELETED) <=> Has(v, DELETED))
    BY <1>1, CountBits
  <1>4. \A w \in {Raise(v, LOCK), Raise(v, INSERT), Raise(v, SPLIT), Unlocked(v),
                  DoneInsert(v), DoneCreate(v)} :
          w \in Nat /\ (Has(w, DELETED) <=> Has(v, DELETED))
    BY <1>1, <1>2, <1>3 DEF Unlocked, DoneInsert, DoneCreate
  <1>5. /\ DoneSplitAndDelete(v) \in Nat /\ Has(DoneSplitAndDelete(v), DELETED)
    <2>1. /\ Raise(v + INSERTCNT, DELETED) \in Nat
          /\ Has(Raise(v + INSERTCNT, DELETED), DELETED)
      BY <1>1, <1>3, RaiseBits
    <2> QED
      BY <1>1, <1>2, <2>1 DEF DoneSplitAndDelete
  <1>6. ASSUME NEW w \in Nat, SameButLock(v, w)
        PROVE  Has(v, DELETED) <=> Has(w, DELETED)
    <2>1. v \div 2 = w \div 2
      BY <1>6 DEF SameButLock, INSERT
    <2>2. v \div 8 = w \div 8
      BY <2>1
    <2> QED
      BY <2>2 DEF Has, DELETED
  <1> QED
    BY <1>4, <1>5, <1>6

\* What the other threads see of a step of thread t: entries come and go in
\* nodes it has locked only, but for the first one of each; a node that is linked
\* or has its parent changed was linked before or is one of t's halves; and
\* nodes come into being, with ranges of their own.
Seen(t, rg, rg2) ==
  /\ used' \in Nat /\ used <= used' /\ used' <= MaxNodes
  /\ \A n \in 1 .. used :
       /\ type'[n] = type[n] /\ rg2[n] = rg[n] /\ First(n)' = First(n)
       /\ Deleted(n) => Deleted(n)'
       /\ n \notin Held(t) => data'[n] = data[n] /\ (Deleted(n)' <=> Deleted(n))
  /\ \A c \in 1 .. used : c \notin Halves(t) /\ (\A m \in Node : c \notin Links(data[m]))
       => parent'[c] = parent[c] /\ (\A m \in Node : c \notin Links(data'[m]))
  /\ \A u \in Thread \ {t} :
       /\ at'[u] = at[u] /\ pc'[u] = pc[u]
       /\ S!Pending(u) => op(u)' = op(u)

\* What TreeInv says of the other threads is kept by a step of t that changes
\* only what t has locked or made.
LEMMA OthersTree ==
  ASSUME IInv, NEW rg, TreeInv(rg), NEW t \in Thread, NEW rg2, Seen(t, rg, rg2),
         NEW u \in Thread \ {t}
  PROVE  PathAt(u, rg2)' /\ SplitAt(u, rg2)'
  <1>1. /\ at'[u] = at[u] /\ pc'[u] = pc[u] /\ (S!Pending(u) => op(u)' = op(u))
        /\ \A n \in 1 .. used :
             /\ type'[n] = type[n] /\ rg2[n] = rg[n] /\ First(n)' = First(n)
             /\ Deleted(n) => Deleted(n)'
        /\ \A n \in Held(u) : n \in 1 .. used =>
             data'[n] = data[n] /\ (Deleted(n)' <=> Deleted(n))
    BY DEF Seen, IInv, LocksOwned
  <1>2. /\ PathAt(u, rg) /\ SplitAt(u, rg)
    BY DEF TreeInv
  <1>3. pc[u] \notin {"idle", "root"} =>
          at[u].node \in 1 .. used /\ op(u)' = op(u)
    BY <1>1, Facts DEF IInv, LocalsAt
  <1>4. pc[u] \in {"child", "check"} => at[u].child \in 1 .. used
    BY Facts DEF IInv, LocalsAt
  <1>5. pc[u] \in {"act", "updated"} \cup Inserts \cup Splits =>
          /\ data'[at[u].node] = data[at[u].node]
          /\ Deleted(at[u].node)' <=> Deleted(at[u].node)
    <2> SUFFICES ASSUME pc[u] \in {"act", "updated"} \cup Inserts \cup Splits
                 PROVE  /\ data'[at[u].node] = data[at[u].node]
                        /\ Deleted(at[u].node)' <=> Deleted(at[u].node)
      OBVIOUS
    <2>1. at[u].node \in Held(u) /\ Held(u) \subseteq 1 .. used
      BY HeldNodes
    <2> QED
      BY <1>1, <2>1
  <1>6. (AtParent(u)' <=> AtParent(u)) /\ (Unlinked(u)' <=> Unlinked(u))
    BY <1>1, <1>3 DEF AtParent, Unlinked
  <1>7. PathAt(u, rg2)'
    <2>1. pc[u] \in {"stable"} \cup Descending \cup AtLeaf =>
            (op(u).key \in rg2[at[u].node])'
      <3>1. pc[u] \in {"stable"} \cup Descending \cup AtLeaf =>
              pc[u] \notin {"idle", "root"}
        BY DEF Descending, AtLeaf
      <3> QED
        BY <1>1, <1>2, <1>3, <3>1 DEF PathAt
    <2>2. pc[u] \in {"child", "check"} => (op(u).key \in rg2[at[u].child])'
      BY <1>1, <1>2, <1>3, <1>4 DEF PathAt
    <2>3. pc[u] = "insert" => Roomy(at[u].node)'
      BY <1>1, <1>2, <1>5 DEF PathAt, Roomy, Inserts
    <2>4. pc[u] = "insert" /\ (type[at[u].node] = "LEAF")' =>
            /\ (op(u).key \in rg2[at[u].node])'
            /\ ~Holds(at[u].node, op(u).key)'
      BY <1>1, <1>2, <1>3, <1>5 DEF PathAt, Holds, Inserts
    <2> QED
      BY <1>1, <2>1, <2>2, <2>3, <2>4 DEF PathAt
  <1>8. pc[u] \in Splits \/ AtParent(u) =>
          /\ at[u].node \in 1 .. used
          /\ at[u].left \in 1 .. used /\ at[u].right \in 1 .. used
          /\ Halves(u) = {at[u].left, at[u].right}
          /\ Halves(u) \cap Halves(t) = {}
    BY HalvesNodes DEF IInv, HalvesApart
  <1>9. ASSUME NEW c \in 1 .. used, pc[u] \in Splits \/ AtParent(u),
               Halved(c, at[u].left, at[u].right, rg)
        PROVE  Halved(c, at[u].left, at[u].right, rg2)'
    <2>1. /\ rg2[c] = rg[c] /\ rg2[at[u].left] = rg[at[u].left]
          /\ rg2[at[u].right] = rg[at[u].right]
          /\ First(at[u].right)' = First(at[u].right)
      BY <1>1, <1>8, <1>9
    <2> QED
      BY <1>1, <1>9, <2>1 DEF Halved, Shares
  <1>10. AtParent(u) => (\E c \in Links(data[at[u].node]) :
            Deleted(c) /\ Halved(c, at[u].left, at[u].right, rg2))'
    <2> SUFFICES ASSUME AtParent(u)
                 PROVE  \E c \in Links(data'[at'[u].node]) :
                          Deleted(c)' /\ Halved(c, at[u].left, at[u].right, rg2)'
      OBVIOUS
    <2>1. PICK c \in Links(data[at[u].node]) :
            Deleted(c) /\ Halved(c, at[u].left, at[u].right, rg)
      BY <1>2 DEF SplitAt
    <2>2. type[at[u].node] # "LEAF" /\ pc[u] \in Inserts
      BY <1>2 DEF SplitAt, AtParent, Inserts
    <2>3. c \in 1 .. used
      BY <1>8, <2>1, <2>2, LinkedNodes
    <2>4. c \in Links(data'[at'[u].node])
      BY <1>1, <1>5, <2>1, <2>2
    <2> QED
      BY <1>1, <1>9, <2>1, <2>3, <2>4
  <1>11. pc[u] = "replace" /\ at[u].near # NoNode =>
           /\ (at[u].node \in Links(data[at[u].near]))'
           /\ (type[at[u].near] # "LEAF")' /\ ~Deleted(at[u].near)'
    <2> SUFFICES ASSUME pc[u] = "replace", at[u].near # NoNode
                 PROVE  /\ at'[u].node \in Links(data'[at'[u].near])
                        /\ type'[at'[u].near] # "LEAF" /\ ~Deleted(at[u].near)'
      OBVIOUS
    <2>1. at[u].near \in 1 .. used /\ at[u].near \in Held(u)
      BY HalvesNodes DEF Splits
    <2>2. data'[at[u].near] = data[at[u].near]
          /\ (Deleted(at[u].near)' <=> Deleted(at[u].near))
      BY <1>1, <2>1
    <2> QED
      BY <1>1, <1>2, <2>1, <2>2 DEF SplitAt
  <1>12. ASSUME pc[u] \in Building \/ Unlinked(u)
         PROVE  /\ (\A m \in Node : Halves(u) \cap Links(data[m]) = {})'
                /\ parent'[at[u].left] = parent[at[u].left]
                /\ parent'[at[u].right] = parent[at[u].right]
    <2>1. pc[u] \in Splits \/ AtParent(u)
      BY <1>12 DEF Building, Splits, Unlinked
    <2>2. \A c \in Halves(u) : c \in 1 .. used /\ c \notin Halves(t)
                               /\ \A m \in Node : c \notin Links(data[m])
      BY <1>2, <1>8, <1>12, <2>1 DEF SplitAt
    <2>3. \A c \in Halves(u) : /\ parent'[c] = parent[c]
                               /\ \A m \in Node : c \notin Links(data'[m])
      BY <2>2 DEF Seen
    <2>4. Halves(u)' = Halves(u)
      BY <1>1 DEF Halves
    <2> QED
      BY <1>8, <2>1, <2>3, <2>4
  <1>13. Unlinked(u) => Above(u)' = Above(u)
    BY <1>1 DEF Above
  <1>14. SplitAt(u, rg2)'
    <2>1. (pc[u] = "interior" => type[at[u].node] # "LEAF")'
      BY <1>1, <1>2, <1>3 DEF SplitAt
    <2>2. (pc[u] = "newroot" => type[at[u].node] = "ROOT")'
      BY <1>1, <1>2, <1>3 DEF SplitAt
    <2>3. (pc[u] \in Splits => Halved(at[u].node, at[u].left, at[u].right, rg2))'
      BY <1>1, <1>2, <1>8, <1>9 DEF SplitAt
    <2>4. (pc[u] \in Inserts \cup Splits \/ (pc[u] = "act" /\ op(u).kind # "read")
             => ~Deleted(at[u].node))'
      BY <1>1, <1>2, <1>3, <1>5 DEF SplitAt
    <2>5. (AtParent(u) => \E c \in Links(data[at[u].node]) :
             Deleted(c) /\ Halved(c, at[u].left, at[u].right, rg2))'
      BY <1>6, <1>10
    <2>6. (pc[u] = "replace" /\ at[u].near # NoNode =>
             /\ at[u].node \in Links(data[at[u].near]) /\ type[at[u].near] # "LEAF"
             /\ ~Deleted(at[u].near))'
      BY <1>1, <1>11
    <2>7. (pc[u] \in Building \/ Unlinked(u) =>
             \A m \in Node : Halves(u) \cap Links(data[m]) = {})'
      BY <1>1, <1>6, <1>12
    <2>8. (pc[u] \in Building => /\ parent[at[u].left] = NoNode
                                 /\ parent[at[u].right] = NoNode)'
      BY <1>1, <1>2, <1>12 DEF SplitAt
    <2>9. (Unlinked(u) => /\ parent[at[u].left] = Above(u)
                          /\ parent[at[u].right] = Above(u))'
      BY <1>1, <1>2, <1>6, <1>12, <1>13 DEF SplitAt
    <2> QED
      BY <2>1, <2>2, <2>3, <2>4, <2>5, <2>6, <2>7, <2>8, <2>9 DEF SplitAt
  <1> QED
    BY <1>7, <1>14

\* Steps that leave the tree and its making alone.
QuietTo(t) ==
  /\ UNCHANGED <<root, used, type, data, parent>>
  /\ \A n \in 1 .. used : Deleted(n)' <=> Deleted(n)
  /\ \A u \in Thread \ {t} :
       /\ at'[u] = at[u] /\ pc'[u] = pc[u]
       /\ S!Pending(u) => op(u)' = op(u)
  /\ pc'[t] \in Splits <=> pc[t] \in Splits
  /\ pc[t] \in Splits => at'[t].node = at[t].node
  /\ Unlinked(t)' <=> Unlinked(t)
  /\ Unlinked(t) => Halves(t)' = Halves(t)

\* Such a step keeps TreeInv with what it says of t.
LEMMA QuietTree ==
  ASSUME IInv, NEW rg, TreeInv(rg), NEW t \in Thread, QuietTo(t),
         PathAt(t, rg)', SplitAt(t, rg)'
  PROVE  TreeInv(rg)'
  <1>1. UNCHANGED <<root, used, type, data, parent>>
    BY DEF QuietTo
  <1>2. \A n \in 1 .. used : Deleted(n)' <=> Deleted(n)
    BY DEF QuietTo
  <1>3. \A u \in Thread \ {t} : at'[u] = at[u] /\ pc'[u] = pc[u]
    BY DEF QuietTo
  <1>4. Seen(t, rg, rg)
    <2>1. used \in Nat /\ used <= MaxNodes
      BY Facts
    <2> QED
      BY <1>1, <2>1 DEF Seen, QuietTo, First
  <1>5. \A u \in Thread : PathAt(u, rg)' /\ SplitAt(u, rg)'
    BY <1>4, OthersTree
  <1>6. \A n : Splitting(n)' <=> Splitting(n)
    BY <1>3 DEF Splitting, QuietTo
  <1>7. \A n : Loose(n)' <=> Loose(n)
    <2>1. \A u \in Thread \ {t} :
            (Unlinked(u)' <=> Unlinked(u)) /\ Halves(u)' = Halves(u)
      BY <1>1, <1>3 DEF Unlinked, AtParent, Halves
    <2>2. (Unlinked(t)' <=> Unlinked(t)) /\ (Unlinked(t) => Halves(t)' = Halves(t))
      BY DEF QuietTo
    <2> QED
      BY <2>1, <2>2 DEF Loose
  <1>8. ASSUME NEW n \in 1 .. used
        PROVE  Shaped(n, rg)' /\ UpAt(n)' /\ DownAt(n)'
    <2>1. Shaped(n, rg)'
      BY <1>1 DEF TreeInv, Shaped
    <2>2. UpAt(n)'
      <3> SUFFICES ASSUME parent[n] # NoNode, ~Deleted(n), ~Loose(n)
                   PROVE  /\ n \in Links(data[parent[n]]) /\ type[parent[n]] # "LEAF"
                          /\ ~Deleted(parent[n])' /\ ~Splitting(parent[n])'
        BY <1>1, <1>2, <1>7 DEF UpAt
      <3>1. /\ n \in Links(data[parent[n]]) /\ type[parent[n]] # "LEAF"
            /\ ~Deleted(parent[n]) /\ ~Splitting(parent[n])
        BY DEF TreeInv, UpAt
      <3>2. parent[n] \in 1 .. used
        <4>1. n \in Node /\ parent \in [Node -> 0 .. used]
          BY Facts DEF NodesInv
        <4> QED
          BY <4>1, Facts
      <3> QED
        BY <1>1, <1>2, <1>6, <3>1, <3>2 DEF Deleted, Splitting
    <2>3. DownAt(n)'
      BY <1>1, <1>2, <1>6 DEF TreeInv, DownAt
    <2> QED
      BY <2>1, <2>2, <2>3
  <1>9. TopInv'
    BY <1>1 DEF TreeInv, TopInv
  <1> QED
    BY <1>1, <1>5, <1>8, <1>9 DEF TreeInv

\* Steps of a thread that does not split a node.
LEMMA CalmTree ==
  ASSUME IInv, NEW rg, TreeInv(rg), NEW t \in Thread,
         UNCHANGED <<root, used, type, data, parent>>,
         \A n \in 1 .. used : Deleted(n)' <=> Deleted(n),
         \A u \in Thread \ {t} :
           /\ at'[u] = at[u] /\ pc'[u] = pc[u]
           /\ S!Pending(u) => op(u)' = op(u),
         pc[t] \notin Splits /\ ~AtParent(t), pc'[t] \notin Inserts \cup Splits,
         PathAt(t, rg)', pc'[t] = "act" /\ op(t)'.kind # "read" => ~Deleted(at[t].node)'
  PROVE  TreeInv(rg)'
  <1>1. ~Unlinked(t) /\ ~Unlinked(t)' /\ ~AtParent(t)' /\ pc'[t] \notin Building
    BY DEF Unlinked, AtParent, Inserts, Splits, Building
  <1>2. SplitAt(t, rg)'
    BY <1>1 DEF SplitAt, Inserts, Splits
  <1>3. QuietTo(t)
    BY <1>1 DEF QuietTo
  <1> QED
    BY <1>2, <1>3, QuietTree

\* The range of a node is shared out among those it links.
LEMMA ChildRange ==
  ASSUME IInv, NEW rg, TreeInv(rg), NEW n \in 1 .. used, type[n] # "LEAF",
         NEW k \in rg[n]
  PROVE  k \in rg[Child(n, k)]
  <1>1. PICK d \in Seq(Entries) : d = data[n] /\ d # << >> /\ DOMAIN d = 1 .. Len(d)
    BY EntriesOf
  <1>2. Covers(d, rg[n]) /\ Routes(d, rg[n], rg)
    BY <1>1 DEF TreeInv, Shaped
  <1>3. Locate(d, k) \in DOMAIN d
    BY <1>1, <1>2, LocateRange DEF Covers
  <1> QED
    BY <1>1, <1>2, <1>3 DEF Routes, Child

\* A descent goes on to the node its key belongs to, and starts again at the root.
LEMMA DescentTree ==
  ASSUME IInv, NEW rg, TreeInv(rg), NEW t \in Thread, Down(t) \/ LocateAgain(t)
  PROVE  TreeInv(rg)'
  <1> DEFINE n == at[t].node
  <1>1. /\ LocalsAt(t) /\ NodesInv /\ DomainsInv /\ at[t] \in Locals
        /\ root \in 1 .. used
        /\ pc[t] \notin {"idle", "root"} => n \in 1 .. used
    BY Facts
  <1>2. /\ Local(t)
        /\ pc[t] \in {"root", "stable", "leaf"} \cup Descending
    BY <1>1 DEF Down, LocateAgain, LoadRoot, RootVersion, Descend, ChildVersion,
                CheckSame, CheckChanged, Recheck, Resume, Goto, Local, Quiet,
                DomainsInv, Descending
  <1>3. \A u \in Thread \ {t} : at'[u] = at[u] /\ pc'[u] = pc[u]
    BY <1>1 DEF Down, LocateAgain, LoadRoot, RootVersion, Descend, ChildVersion,
                CheckSame, CheckChanged, Recheck, Resume, Goto, DomainsInv
  <1>4. \A u \in Thread : S!Pending(u) => S!Pending(u)' /\ op(u)' = op(u)
    BY <1>1, <1>2, CallsKept DEF Local
  <1>5. UNCHANGED <<root, used, ver, type, data, parent>>
    BY <1>2 DEF Local, tree
  <1>6. op(t)' = op(t) /\ op(t).key \in Keys0
    BY <1>1, <1>2, <1>4 DEF LocalsAt, Descending, Keys0
  <1>7. /\ pc[t] \in {"stable"} \cup Descending \cup AtLeaf => op(t).key \in rg[n]
        /\ pc[t] \in {"child", "check"} => op(t).key \in rg[at[t].child]
    BY DEF TreeInv, PathAt
  <1>8. /\ pc'[t] \in {"root", "stable", "leaf"} \cup Descending
        /\ pc'[t] # "root" => op(t).key \in rg[at'[t].node]
        /\ pc'[t] \in {"child", "check"} => op(t).key \in rg[at'[t].child]
    <2> USE DEF Goto, DomainsInv, Locals, NoLocals, Descending
    <2> USE <1>1, <1>7
    <2>1. CASE LoadRoot(t)
      <3>1. pc'[t] = "stable" /\ at'[t].node = root
        BY <2>1 DEF LoadRoot
      <3>2. rg[root] = Keys0
        BY DEF TreeInv, TopInv, Shaped
      <3> QED
        BY <1>6, <3>1, <3>2
    <2>2. CASE RootVersion(t)
      <3>1. pc'[t] \in {"leaf", "down"} /\ at'[t].node = n /\ pc[t] = "stable"
        BY <2>2 DEF RootVersion, Enter
      <3> QED
        BY <3>1
    <2>3. CASE Descend(t)
      <3>1. /\ pc[t] = "down" /\ pc'[t] = "child" /\ at'[t].node = n
            /\ at'[t].child = Child(n, op(t).key)
        BY <2>3 DEF Descend
      <3>2. type[n] # "LEAF" /\ op(t).key \in rg[n] /\ n \in 1 .. used
        BY <3>1 DEF LocalsAt
      <3> QED
        BY <3>1, <3>2, ChildRange
    <2>4. CASE ChildVersion(t)
      <3>1. /\ pc'[t] = "check" /\ pc[t] = "child" /\ at'[t].node = n
            /\ at'[t].child = at[t].child
        BY <2>4 DEF ChildVersion
      <3> QED
        BY <3>1
    <2>5. CASE CheckSame(t)
      <3>1. /\ pc'[t] \in {"leaf", "down"} /\ at'[t].node = at[t].child
            /\ pc[t] = "check"
        BY <2>5 DEF CheckSame, Enter
      <3> QED
        BY <3>1
    <2>6. CASE CheckChanged(t) \/ Recheck(t)
      <3>1. /\ pc[t] \in {"check", "recheck"} /\ pc'[t] \in {"root", "recheck", "down"}
            /\ pc'[t] # "root" => at'[t].node = n
        BY <2>6 DEF CheckChanged, Recheck, Resume
      <3> QED
        BY <3>1
    <2>7. CASE LocateAgain(t)
      BY <2>7 DEF LocateAgain
    <2> QED
      BY <2>1, <2>2, <2>3, <2>4, <2>5, <2>6, <2>7 DEF Down
  <1>9. PathAt(t, rg)'
    BY <1>6, <1>8 DEF PathAt, Descending, AtLeaf
  <1>10. \A m \in 1 .. used : Deleted(m)' <=> Deleted(m)
    BY <1>5 DEF Deleted
  <1>11. /\ pc[t] \notin Splits /\ ~AtParent(t) /\ pc'[t] \notin Inserts \cup Splits
         /\ pc'[t] # "act"
    BY <1>2, <1>8 DEF Descending, Inserts, Splits, AtParent
  <1> QED
    BY <1>3, <1>4, <1>5, <1>9, <1>10, <1>11, CalmTree

\* Steps that change the version of a node but do not delete it.
LEMMA NoneDeleted ==
  ASSUME IInv, NEW n \in 1 .. used,
         NEW w \in {Raise(ver[n], LOCK), Raise(ver[n], INSERT), Raise(ver[n], SPLIT),
                    Unlocked(ver[n]), DoneCreate(ver[n]), Unlocked(DoneInsert(ver[n])),
                    Unlocked(DoneCreate(ver[n]))},
         ver' = [ver EXCEPT ![n] = w]
  PROVE  \A m \in 1 .. used : Deleted(m)' <=> Deleted(m)
  <1>1. ver[n] \in Nat /\ n \in Node /\ ver \in [Node -> Nat]
    <2>1. PICK t \in Thread : t = Loader
      BY MasstreeAssumption
    <2> QED
      BY <2>1, Facts DEF NodesInv
  <1>2. /\ DoneInsert(ver[n]) \in Nat /\ DoneCreate(ver[n]) \in Nat
        /\ Has(DoneInsert(ver[n]), DELETED) <=> Has(ver[n], DELETED)
        /\ Has(DoneCreate(ver[n]), DELETED) <=> Has(ver[n], DELETED)
    BY <1>1, DeletedBits
  <1>3. Has(w, DELETED) <=> Has(ver[n], DELETED)
    BY ZenonT(30), <1>1, <1>2, DeletedBits
  <1> QED
    BY <1>1, <1>3 DEF Deleted

\* A leaf that locate_locked takes has not been deleted since the descent saw it.
LEMMA LockLeafTree ==
  ASSUME IInv, NEW rg, TreeInv(rg), NEW t \in Thread, LockToRead(t) \/ LockToWrite(t)
  PROVE  TreeInv(rg)'
  <1> DEFINE n == at[t].node
  <1>1. /\ UNCHANGED <<root, used, type, data, parent, at>> /\ Quiet(t)
        /\ pc[t] = "leaf" /\ ver' = [ver EXCEPT ![n] = Raise(@, LOCK)]
        /\ pc'[t] = "act" /\ \A u \in Thread \ {t} : pc'[u] = pc[u]
    BY Facts DEF LockToRead, LockToWrite, Lock, Goto, DomainsInv
  <1>2. n \in 1 .. used /\ at[t].v \in Nat
    BY <1>1, Facts DEF Locals
  <1>3. \A u \in Thread : S!Pending(u) => S!Pending(u)' /\ op(u)' = op(u)
    BY <1>1, Facts, CallsKept
  <1>4. \A m \in 1 .. used : Deleted(m)' <=> Deleted(m)
    BY <1>1, <1>2, NoneDeleted
  <1>5. op(t)' = op(t) /\ op(t).key \in rg[n]
    BY <1>1, <1>3, Facts DEF LocalsAt, TreeInv, PathAt, AtLeaf
  <1>6. PathAt(t, rg)'
    BY <1>1, <1>5 DEF PathAt
  <1>7. op(t).kind # "read" => ~Deleted(n)
    <2> SUFFICES ASSUME op(t).kind # "read"
                 PROVE  ~Deleted(n)
      OBVIOUS
    <2>1. ~Has(at[t].v, DELETED) /\ SameButLock(ver[n], at[t].v)
      BY DEF LockToRead, LockToWrite
    <2>2. ver[n] \in Nat
      BY <1>2, Facts
    <2> QED
      BY <1>2, <2>1, <2>2, DeletedBits DEF Deleted
  <1>8. pc[t] \notin Splits /\ ~AtParent(t) /\ pc'[t] \notin Inserts \cup Splits
    BY <1>1 DEF Splits, Inserts, AtParent
  <1> QED
    BY <1>1, <1>2, <1>3, <1>4, <1>5, <1>6, <1>7, <1>8, CalmTree

\* A call returns.
LEMMA ReturnTree ==
  ASSUME IInv, NEW rg, TreeInv(rg), NEW t \in Thread, NEW a, Return(t, a),
         UNCHANGED <<root, used, type, data, parent>>,
         \A m \in 1 .. used : Deleted(m)' <=> Deleted(m),
         pc[t] \notin Splits /\ ~AtParent(t)
  PROVE  TreeInv(rg)'
  <1>1. /\ pc'[t] = "idle"
        /\ \A u \in Thread \ {t} :
             /\ at'[u] = at[u] /\ pc'[u] = pc[u]
             /\ S!Pending(u) => S!Pending(u)' /\ op(u)' = op(u)
    BY Facts, Returned
  <1>2. PathAt(t, rg)' /\ pc'[t] \notin Inserts \cup Splits
    BY <1>1 DEF PathAt, Descending, AtLeaf, Inserts, Splits
  <1> QED
    BY <1>1, <1>2, CalmTree

\* Operations that leave their leaf leave the tree as it is.
LEMMA LeafReturnTree ==
  ASSUME IInv, NEW rg, TreeInv(rg), NEW t \in Thread,
         Read(t) \/ UpdateReturns(t) \/ InsertFinds(t) \/ EndInsert(t)
  PROVE  TreeInv(rg)'
  <1> DEFINE n == at[t].node
  <1>1. /\ UNCHANGED <<root, used, type, data, parent>>
        /\ pc[t] \in {"act", "updated", "inserted"} /\ \E a : Return(t, a)
        /\ \/ ver' = [ver EXCEPT ![n] = Unlocked(@)]
           \/ ver' = [ver EXCEPT ![n] = Unlocked(DoneInsert(@))]
    BY DEF Read, UpdateReturns, InsertFinds, EndInsert, Unlock
  <1>2. n \in 1 .. used
    BY <1>1, Facts
  <1>3. \A m \in 1 .. used : Deleted(m)' <=> Deleted(m)
    BY <1>1, <1>2, NoneDeleted
  <1>4. pc[t] \notin Splits /\ ~AtParent(t)
    BY <1>1 DEF Splits, AtParent
  <1> QED
    BY <1>1, <1>3, <1>4, ReturnTree

\* So does the exchange of a value ...
LEMMA UpdateTree ==
  ASSUME IInv, NEW rg, TreeInv(rg), NEW t \in Thread, Update(t)
  PROVE  TreeInv(rg)'
  <1>1. /\ UNCHANGED <<root, used, type, data, parent, ver>> /\ Observe(t)
        /\ pc[t] = "act" /\ pc'[t] = "updated"
        /\ \A u \in Thread \ {t} : at'[u] = at[u] /\ pc'[u] = pc[u]
    BY Facts DEF Update, Goto, DomainsInv
  <1>2. at'[t].node = at[t].node
    BY Facts DEF Update, DomainsInv, Locals
  <1>3. \A u \in Thread : S!Pending(u) => S!Pending(u)' /\ op(u)' = op(u)
    BY <1>1, Facts, CallsKept
  <1>4. op(t)' = op(t) /\ op(t).key \in rg[at[t].node]
    BY <1>1, <1>3, Facts DEF LocalsAt, TreeInv, PathAt, AtLeaf
  <1>5. PathAt(t, rg)'
    BY <1>1, <1>2, <1>4 DEF PathAt
  <1>6. \A m \in 1 .. used : Deleted(m)' <=> Deleted(m)
    BY <1>1 DEF Deleted
  <1>7. pc[t] \notin Splits /\ ~AtParent(t) /\ pc'[t] \notin Inserts \cup Splits
    BY <1>1 DEF Splits, Inserts, AtParent
  <1> QED
    BY <1>1, <1>3, <1>5, <1>6, <1>7, CalmTree

\* ... and a call that begins: it is at no node yet.
LEMMA StartTree ==
  ASSUME IInv, NEW rg, TreeInv(rg), NEW t \in Thread, Start(t)
  PROVE  TreeInv(rg)'
  <1>1. /\ UNCHANGED <<root, used, type, data, parent, ver, at>>
        /\ pc[t] = "idle" /\ pc'[t] = "root"
        /\ \A u \in Thread \ {t} : pc'[u] = pc[u] /\ call'[u] = call[u]
    BY Facts DEF Start, Goto, DomainsInv, tree
  <1>2. PathAt(t, rg)'
    BY <1>1 DEF PathAt, Descending, AtLeaf
  <1>3. \A u \in Thread \ {t} : op(u)' = op(u)
    BY <1>1 DEF op
  <1>4. \A m \in 1 .. used : Deleted(m)' <=> Deleted(m)
    BY <1>1 DEF Deleted
  <1>5. pc[t] \notin Splits /\ ~AtParent(t) /\ pc'[t] \notin Inserts \cup Splits
    BY <1>1 DEF Splits, Inserts, AtParent
  <1> QED
    BY <1>1, <1>2, <1>3, <1>4, <1>5, CalmTree

\* TreeInv depends on the tree and the threads' locals only.
LEMMA StutterTree ==
  ASSUME IInv, NEW rg, TreeInv(rg), UNCHANGED <<tree, pc, at, call>>
  PROVE  TreeInv(rg)'
  <1>1. UNCHANGED <<root, used, type, data, parent, ver, pc, at, call>>
    BY DEF tree
  <1>2. PICK t \in Thread : t = Loader
    BY MasstreeAssumption
  <1>3. PathAt(t, rg)' /\ SplitAt(t, rg)'
    <2>1. PathAt(t, rg) /\ SplitAt(t, rg)
      BY DEF TreeInv
    <2>2. PathAt(t, rg)'
      BY <1>1, <2>1 DEF PathAt, Roomy, Holds, op
    <2>3. SplitAt(t, rg)'
      BY <1>1, <2>1
      DEF SplitAt, AtParent, Unlinked, Above, Halves, Halved, Shares, Deleted, First, op
    <2> QED
      BY <2>2, <2>3
  <1>4. QuietTo(t)
    BY <1>1 DEF QuietTo, Deleted, Unlinked, AtParent, Halves, op
  <1> QED
    BY <1>3, <1>4, QuietTree

\* The insertion itself is yet to come.
LEMMA BeginInsertTree ==
  ASSUME IInv, NEW rg, TreeInv(rg), NEW t \in Thread, BeginInsert(t)
  PROVE  TreeInv(rg)'
  <1> DEFINE n == at[t].node
  <1>1. /\ UNCHANGED <<root, used, type, data, parent, at>> /\ Observe(t)
        /\ Inserting(t) /\ Roomy(n) /\ pc'[t] = "insert"
        /\ ver' = [ver EXCEPT ![n] = Raise(@, INSERT)]
        /\ \A u \in Thread \ {t} : pc'[u] = pc[u]
    BY Facts DEF BeginInsert, Goto, DomainsInv
  <1>2. /\ pc[t] \in {"act", "interior"} /\ n \in 1 .. used
        /\ type[n] # "LEAF" => pc[t] = "interior"
    BY <1>1, InsertingAt
  <1>3. \A u \in Thread : S!Pending(u) => S!Pending(u)' /\ op(u)' = op(u)
    BY <1>1, Facts, CallsKept
  <1>4. op(t)' = op(t)
    BY <1>2, <1>3, Facts DEF LocalsAt
  <1>5. \A m \in 1 .. used : Deleted(m)' <=> Deleted(m)
    BY <1>1, <1>2, NoneDeleted
  <1>6. PathAt(t, rg) /\ SplitAt(t, rg)
    BY DEF TreeInv
  <1>7. pc[t] = "interior" <=> type[n] # "LEAF"
    BY <1>2, <1>6 DEF SplitAt
  <1>8. PathAt(t, rg)'
    <2>1. type[n] = "LEAF" => op(t).key \in rg[n] /\ ~Holds(n, op(t).key)
      BY <1>1, <1>2, <1>6, <1>7 DEF Inserting, PathAt, AtLeaf
    <2>2. Roomy(n)' /\ (Holds(n, op(t).key)' <=> Holds(n, op(t).key))
      BY <1>1, <1>4 DEF Roomy, Holds
    <2> QED
      BY <1>1, <1>4, <2>1, <2>2 DEF PathAt, Descending, AtLeaf
  <1>9. AtParent(t)' <=> AtParent(t)
    BY <1>1, <1>2, <1>7 DEF AtParent
  <1>10. /\ Unlinked(t)' <=> Unlinked(t)
         /\ Unlinked(t) <=> AtParent(t)
         /\ Above(t)' = Above(t) /\ Halves(t)' = Halves(t)
    BY <1>1, <1>2, <1>9 DEF Unlinked, Above, Halves
  <1>11. SplitAt(t, rg)'
    <2>1. ~Deleted(n)'
      BY <1>1, <1>2, <1>5, <1>6 DEF SplitAt, Inserting, Inserts
    <2>2. (AtParent(t) => \E c \in Links(data[at[t].node]) :
             Deleted(c) /\ Halved(c, at[t].left, at[t].right, rg))'
      <3> SUFFICES ASSUME AtParent(t)
                   PROVE  \E c \in Links(data[n]) :
                            Deleted(c)' /\ Halved(c, at[t].left, at[t].right, rg)'
        BY <1>1, <1>9
      <3>1. PICK c \in Links(data[n]) :
              Deleted(c) /\ Halved(c, at[t].left, at[t].right, rg)
        BY <1>6 DEF SplitAt
      <3>2. c \in 1 .. used
        BY <1>2, <1>7, <3>1, LinkedNodes DEF AtParent
      <3>3. Halved(c, at[t].left, at[t].right, rg)'
        BY <1>1, <3>1 DEF Halved, Shares, First
      <3> QED
        BY <1>5, <3>1, <3>2, <3>3
    <2>3. (Unlinked(t) => /\ \A m \in Node : Halves(t) \cap Links(data[m]) = {}
                          /\ parent[at[t].left] = Above(t)
                          /\ parent[at[t].right] = Above(t))'
      BY <1>1, <1>6, <1>10 DEF SplitAt
    <2> QED
      BY <1>1, <2>1, <2>2, <2>3 DEF SplitAt, Splits, Building
  <1>12. QuietTo(t)
    <2>1. pc[t] \notin Splits /\ pc'[t] \notin Splits
      BY <1>1, <1>2 DEF Splits
    <2> QED
      BY <1>1, <1>3, <1>5, <1>10, <2>1 DEF QuietTo
  <1> QED
    BY <1>8, <1>11, <1>12, QuietTree

\* Steps of a thread between splitting a node and locking the one above.
LEMMA SplitStepTree ==
  ASSUME IInv, NEW rg, TreeInv(rg), NEW t \in Thread,
         UNCHANGED <<root, used, type, data, parent>>,
         \A n \in 1 .. used : Deleted(n)' <=> Deleted(n),
         \A u \in Thread \ {t} :
           /\ at'[u] = at[u] /\ pc'[u] = pc[u]
           /\ S!Pending(u) => op(u)' = op(u),
         pc[t] \in Splits \ {"replace"}, pc'[t] \in Splits \ {"newroot"},
         pc'[t] \in Building => pc[t] \in Building,
         pc'[t] = "replace" => at'[t].near = NoNode,
         at'[t].node = at[t].node, at'[t].left = at[t].left,
         at'[t].right = at[t].right
  PROVE  TreeInv(rg)'
  <1>1. SplitAt(t, rg) /\ at[t].node \in 1 .. used
    BY HalvesNodes DEF TreeInv
  <1>2. ~Unlinked(t) /\ ~Unlinked(t)' /\ ~AtParent(t)' /\ pc'[t] \notin Inserts
    BY DEF Unlinked, AtParent, Splits, Inserts
  <1>3. PathAt(t, rg)'
    BY DEF PathAt, Splits, Descending, AtLeaf
  <1>4. Halves(t)' = Halves(t)
    BY DEF Halves
  <1>5. Halved(at[t].node, at[t].left, at[t].right, rg)'
    BY <1>1 DEF SplitAt, Halved, Shares, First
  <1>6. ~Deleted(at[t].node)'
    BY <1>1 DEF SplitAt
  <1>7. SplitAt(t, rg)'
    BY <1>1, <1>2, <1>4, <1>5, <1>6 DEF SplitAt, Splits
  <1>8. QuietTo(t)
    BY <1>2 DEF QuietTo
  <1> QED
    BY <1>3, <1>7, <1>8, QuietTree

\* Linking the neighbours and looking for the parent change no range.
LEMMA LinkTree ==
  ASSUME IInv, NEW rg, TreeInv(rg), NEW t \in Thread,
         LinkNext(t) \/ LoadPrev(t) \/ LinkPrev(t) \/ PrevAgain(t)
           \/ LoadParent(t) \/ ParentAgain(t)
  PROVE  TreeInv(rg)'
  <1> DEFINE walk == {"next", "prev", "lockprev", "parent", "lockparent"}
  <1>1. /\ pc[t] \in walk /\ pc'[t] \in walk
        /\ \A u \in Thread \ {t} : at'[u] = at[u] /\ pc'[u] = pc[u]
    BY Facts DEF LinkNext, LoadPrev, LinkPrev, PrevAgain, LoadParent,
                 ParentAgain, Goto, DomainsInv
  <1>2. /\ UNCHANGED <<root, used, ver, type, data, parent>> /\ Quiet(t)
    BY DEF LinkNext, LoadPrev, LinkPrev, PrevAgain, LoadParent, ParentAgain,
           Local, tree
  <1>3. \A u \in Thread : S!Pending(u) => S!Pending(u)' /\ op(u)' = op(u)
    BY <1>2, Facts, CallsKept
  <1>4. /\ at'[t].node = at[t].node /\ at'[t].left = at[t].left
        /\ at'[t].right = at[t].right
    BY Facts DEF LinkNext, LoadPrev, LinkPrev, PrevAgain, LoadParent, ParentAgain,
                 DomainsInv, Locals
  <1>5. \A m \in 1 .. used : Deleted(m)' <=> Deleted(m)
    BY <1>2 DEF Deleted
  <1>6. /\ walk \subseteq Splits \ {"replace", "newroot"} /\ walk \subseteq Building
        /\ "replace" \notin walk
    BY DEF Splits, Building
  <1> QED
    BY <1>1, <1>2, <1>3, <1>4, <1>5, <1>6, SplitStepTree

\* Opening the new root leaves the halves linked below it.
LEMMA OpenRootTree ==
  ASSUME IInv, NEW rg, TreeInv(rg), NEW t \in Thread, OpenRoot(t)
  PROVE  TreeInv(rg)'
  <1> DEFINE p == parent[at[t].left]
  <1>1. /\ pc[t] = "swapped" /\ pc' = [pc EXCEPT ![t] = "replace"]
        /\ ver' = [ver EXCEPT ![p] = Unlocked(DoneCreate(ver[p]))]
        /\ at' = [at EXCEPT ![t] = [at[t] EXCEPT !.near = NoNode]] /\ Quiet(t)
        /\ UNCHANGED <<root, used, type, data, parent>>
    BY DEF OpenRoot, Goto
  <1>2. p \in 1 .. used
    BY <1>1, HeldNodes
  <1>3. \A m \in 1 .. used : Deleted(m)' <=> Deleted(m)
    BY <1>1, <1>2, NoneDeleted
  <1>4. \A u \in Thread : S!Pending(u) => S!Pending(u)' /\ op(u)' = op(u)
    BY <1>1, Facts, CallsKept
  <1>5. /\ \A u \in Thread \ {t} : at'[u] = at[u] /\ pc'[u] = pc[u]
        /\ pc'[t] = "replace" /\ at'[t].near = NoNode
        /\ at'[t].node = at[t].node /\ at'[t].left = at[t].left
        /\ at'[t].right = at[t].right
    BY <1>1, Facts DEF DomainsInv, Locals
  <1>6. /\ pc[t] \in Splits \ {"replace"} /\ pc'[t] \in Splits \ {"newroot"}
        /\ pc'[t] \notin Building
    BY <1>1, <1>5 DEF Splits, Building
  <1> QED
    BY <1>1, <1>3, <1>4, <1>5, <1>6, SplitStepTree

\* A node that has been split is deleted.
LEMMA ReplacedTree ==
  ASSUME IInv, NEW rg, TreeInv(rg), NEW t \in Thread, pc[t] = "replace",
         NEW old, old = at[t].node,
         UNCHANGED <<root, used, type, data, parent>>,
         Deleted(old)', \A n \in 1 .. used : n # old => (Deleted(n)' <=> Deleted(n)),
         \A u \in Thread \ {t} :
           /\ at'[u] = at[u] /\ pc'[u] = pc[u]
           /\ S!Pending(u) => op(u)' = op(u),
         pc'[t] \notin Splits, Unlinked(t)' <=> Unlinked(t),
         Unlinked(t) => Halves(t)' = Halves(t),
         PathAt(t, rg)', SplitAt(t, rg)'
  PROVE  TreeInv(rg)'
  <1>1. old \in 1 .. used /\ old \in Held(t) /\ Splitting(old) /\ ~Splitting(old)'
    <2>1. \A u \in Thread \ {t} : pc[u] \in Splits => at[u].node # old
      <3> SUFFICES ASSUME NEW u \in Thread \ {t}, pc[u] \in Splits, at[u].node = old
                   PROVE  FALSE
        OBVIOUS
      <3>1. old \in Held(u) /\ old \in Held(t)
        BY HalvesNodes DEF Splits
      <3> QED
        BY <3>1 DEF IInv, LocksOwned
    <2> QED
      BY <2>1, HalvesNodes DEF Splits, Splitting
  <1>2. Seen(t, rg, rg)
    <2>1. used \in Nat /\ used <= MaxNodes
      BY Facts
    <2>2. \A n \in 1 .. used : /\ Deleted(n) => Deleted(n)'
                               /\ n \notin Held(t) => (Deleted(n)' <=> Deleted(n))
      <3> SUFFICES ASSUME NEW n \in 1 .. used
                   PROVE  /\ Deleted(n) => Deleted(n)'
                          /\ n \notin Held(t) => (Deleted(n)' <=> Deleted(n))
        OBVIOUS
      <3>1. CASE n = old
        BY <1>1, <3>1
      <3>2. CASE n # old
        BY <3>2
      <3> QED
        BY <3>1, <3>2
    <2> QED
      BY <2>1, <2>2 DEF Seen, First
  <1>3. \A u \in Thread : PathAt(u, rg)' /\ SplitAt(u, rg)'
    BY <1>2, OthersTree
  <1>4. \A n : n # old => (Splitting(n)' <=> Splitting(n))
    BY DEF Splitting
  <1>5. \A n : Loose(n)' <=> Loose(n)
    <2>1. \A u \in Thread \ {t} :
            (Unlinked(u)' <=> Unlinked(u)) /\ Halves(u)' = Halves(u)
      BY DEF Unlinked, AtParent, Halves
    <2> QED
      BY <2>1 DEF Loose
  <1>6. ASSUME NEW n \in 1 .. used
        PROVE  Shaped(n, rg)' /\ UpAt(n)' /\ DownAt(n)'
    <2>1. Shaped(n, rg)'
      BY DEF TreeInv, Shaped
    <2>2. UpAt(n)'
      <3> SUFFICES ASSUME parent[n] # NoNode, ~Deleted(n), ~Loose(n)
                   PROVE  /\ n \in Links(data[parent[n]]) /\ type[parent[n]] # "LEAF"
                          /\ ~Deleted(parent[n])' /\ ~Splitting(parent[n])'
        <4>1. Deleted(n) => Deleted(n)'
          BY <1>1
        <4> QED
          BY <1>5, <4>1 DEF UpAt
      <3>1. /\ n \in Links(data[parent[n]]) /\ type[parent[n]] # "LEAF"
            /\ ~Deleted(parent[n]) /\ ~Splitting(parent[n])
        BY DEF TreeInv, UpAt
      <3>2. parent[n] \in 1 .. used
        <4>1. n \in Node /\ parent \in [Node -> 0 .. used]
          BY Facts DEF NodesInv
        <4> QED
          BY <4>1, Facts
      <3>3. parent[n] # old
        BY <1>1, <3>1
      <3> QED
        BY <1>4, <3>1, <3>2, <3>3 DEF Deleted, Splitting
    <2>3. DownAt(n)'
      <3> SUFFICES ASSUME type[n] # "LEAF", ~Deleted(n)', ~Splitting(n)'
                   PROVE  \A c \in Links(data[n]) : parent[c] = n
        BY DEF DownAt
      <3>1. n # old
        BY <1>1
      <3>2. ~Deleted(n) /\ ~Splitting(n)
        BY <1>4, <3>1
      <3> QED
        BY <3>2 DEF TreeInv, DownAt
    <2> QED
      BY <2>1, <2>2, <2>3
  <1>7. TopInv'
    BY DEF TreeInv, TopInv
  <1> QED
    BY <1>3, <1>6, <1>7 DEF TreeInv

\* done_split_and_delete deletes the node that was split, and no other one.
LEMMA ReplacedDeleted ==
  ASSUME IInv, NEW t \in Thread, pc[t] = "replace", ver' = Replaced(t),
         NEW old, old = at[t].node
  PROVE  /\ Deleted(old)'
         /\ \A n \in 1 .. used : n # old => (Deleted(n)' <=> Deleted(n))
  <1>1. \A n \in 1 .. used : n \in Node /\ ver[n] \in Nat
    BY Facts
  <1>2. old \in 1 .. used
    BY HalvesNodes DEF Splits
  <1>3. \A n \in 1 .. used :
          /\ DoneSplitAndDelete(ver[n]) \in Nat
          /\ Has(DoneSplitAndDelete(ver[n]), DELETED)
          /\ DoneCreate(ver[n]) \in Nat
          /\ Has(DoneCreate(ver[n]), DELETED) <=> Has(ver[n], DELETED)
    BY <1>1, DeletedBits
  <1>4. \A n \in 1 .. used :
          /\ Has(Unlocked(DoneSplitAndDelete(ver[n])), DELETED)
          /\ Has(Unlocked(DoneCreate(ver[n])), DELETED) <=> Has(ver[n], DELETED)
    BY <1>3, DeletedBits
  <1>5. ver'[old] = Unlocked(DoneSplitAndDelete(ver[old]))
    <2>1. old # at[t].left /\ old # at[t].right
      BY Facts DEF BitsAt, Splits
    <2> QED
      BY <1>1, <1>2, <2>1 DEF Replaced
  <1>6. \A n \in 1 .. used : n # old =>
          ver'[n] \in {ver[n], Unlocked(DoneCreate(ver[n]))}
    BY <1>1 DEF Replaced
  <1> QED
    BY <1>2, <1>4, <1>5, <1>6 DEF Deleted

\* A split that has made a new root ends, ...
LEMMA ReplaceRootTree ==
  ASSUME IInv, NEW rg, TreeInv(rg), NEW t \in Thread, ReplaceRoot(t)
  PROVE  TreeInv(rg)'
  <1>1. /\ pc[t] = "replace" /\ at[t].near = NoNode
        /\ ver' = Replaced(t) /\ Return(t, "new")
        /\ UNCHANGED <<root, used, type, data, parent>>
    BY DEF ReplaceRoot
  <1>2. /\ pc'[t] = "idle"
        /\ \A u \in Thread \ {t} :
             /\ at'[u] = at[u] /\ pc'[u] = pc[u]
             /\ S!Pending(u) => S!Pending(u)' /\ op(u)' = op(u)
    BY <1>1, Facts, Returned
  <1>3. /\ PathAt(t, rg)' /\ SplitAt(t, rg)' /\ ~Unlinked(t) /\ ~Unlinked(t)'
        /\ pc'[t] \notin Splits
    BY <1>1, <1>2
    DEF PathAt, SplitAt, Unlinked, AtParent, Descending, AtLeaf, Inserts, Splits, Building
  <1> QED
    <2>1. PICK old : old = at[t].node
      OBVIOUS
    <2>2. Deleted(old)' /\ \A n \in 1 .. used : n # old => (Deleted(n)' <=> Deleted(n))
      BY <1>1, <2>1, ReplacedDeleted
    <2> QED
      BY <1>1, <1>2, <1>3, <2>1, <2>2, ReplacedTree

\* ... another one goes on in the node above, which links the deleted node still.
LEMMA ReplaceTree ==
  ASSUME IInv, NEW rg, TreeInv(rg), NEW t \in Thread, Replace(t)
  PROVE  TreeInv(rg)'
  <1>a. PICK n : n = at[t].node
    OBVIOUS
  <1>b. PICK p : p = at[t].near
    OBVIOUS
  <1>1. /\ pc[t] = "replace" /\ p # NoNode /\ ver' = Replaced(t)
        /\ at' = [at EXCEPT ![t] = [at[t] EXCEPT !.node = at[t].near,
                                                 !.near = NoNode]]
        /\ pc' = [pc EXCEPT ![t] = "interior"] /\ Quiet(t)
        /\ UNCHANGED <<root, used, type, data, parent>>
    BY <1>b DEF Replace, Goto
  <1>2. /\ pc'[t] = "interior"
        /\ at'[t] = [at[t] EXCEPT !.node = at[t].near, !.near = NoNode]
        /\ \A u \in Thread \ {t} : at'[u] = at[u] /\ pc'[u] = pc[u]
    BY <1>1, Facts DEF DomainsInv
  <1>3. /\ n \in 1 .. used /\ p \in 1 .. used /\ p # n
    BY <1>a, <1>b, <1>1, HalvesNodes, Facts DEF BitsAt, Splits
  <1>4. /\ at'[t].node = p /\ at'[t].left = at[t].left /\ at'[t].right = at[t].right
    <2>1. /\ at[t] \in Locals /\ p \in 0 .. MaxNodes
          /\ NoNode \in 0 .. MaxNodes
      BY <1>3, Constants, Facts
    <2> DEFINE l == [at[t] EXCEPT !.node = p]
    <2>2. /\ l \in Locals /\ l.node = p
          /\ l.left = at[t].left /\ l.right = at[t].right
      BY <2>1 DEF Locals
    <2>3. at'[t] = [l EXCEPT !.near = NoNode]
      BY <1>2, <1>b
    <2> HIDE DEF l
    <2> QED
      BY <2>1, <2>2, <2>3 DEF Locals
  <1>5. \A u \in Thread : S!Pending(u) => S!Pending(u)' /\ op(u)' = op(u)
    BY <1>1, Facts, CallsKept
  <1>6. /\ Deleted(n)' /\ \A m \in 1 .. used : m # n => (Deleted(m)' <=> Deleted(m))
    BY <1>a, <1>1, ReplacedDeleted
  <1>7. SplitAt(t, rg)
    BY DEF TreeInv
  <1>8. /\ Unlinked(t) /\ Unlinked(t)' /\ Halves(t)' = Halves(t)
        /\ Above(t) = p /\ Above(t)' = p /\ AtParent(t)'
    BY <1>b, <1>1, <1>2, <1>4 DEF Unlinked, AtParent, Halves, Above
  <1>9. n \in Links(data[p]) /\ type[p] # "LEAF" /\ ~Deleted(p)'
    BY <1>a, <1>b, <1>1, <1>3, <1>6, <1>7 DEF SplitAt
  <1>10. Halved(n, at[t].left, at[t].right, rg)'
    <2>1. Halved(n, at[t].left, at[t].right, rg)
      BY <1>a, <1>1, <1>7 DEF SplitAt, Splits
    <2> QED
      BY <1>1, <1>4, <2>1 DEF Halved, Shares, First
  <1>11. SplitAt(t, rg)'
    <2>1. (\E c \in Links(data[at[t].node]) :
             Deleted(c) /\ Halved(c, at[t].left, at[t].right, rg))'
      <3>1. n \in Links(data'[at'[t].node])
        BY <1>1, <1>4, <1>9
      <3> QED
        BY <1>6, <1>10, <3>1
    <2>2. (/\ \A m \in Node : Halves(t) \cap Links(data[m]) = {}
           /\ parent[at[t].left] = Above(t) /\ parent[at[t].right] = Above(t))'
      BY <1>1, <1>4, <1>7, <1>8 DEF SplitAt
    <2>3. type'[at'[t].node] # "LEAF" /\ ~Deleted(at[t].node)'
      BY <1>1, <1>4, <1>9 DEF Deleted
    <2>4. pc'[t] \notin Splits /\ pc'[t] \notin Building
      BY <1>2 DEF Splits, Building
    <2> QED
      BY <1>2, <2>1, <2>2, <2>3, <2>4 DEF SplitAt
  <1>12. PathAt(t, rg)' /\ pc'[t] \notin Splits
    BY <1>2 DEF PathAt, Descending, AtLeaf, Splits
  <1> QED
    BY <1>a, <1>1, <1>2, <1>5, <1>6, <1>8, <1>11, <1>12, ReplacedTree

\* The parent pointer of a node tells the truth once the parent is locked.
LEMMA LockParentTree ==
  ASSUME IInv, NEW rg, TreeInv(rg), NEW t \in Thread, LockParent(t)
  PROVE  TreeInv(rg)'
  <1>a. PICK n : n = at[t].node
    OBVIOUS
  <1>b. PICK p : p = at[t].near
    OBVIOUS
  <1>c. PICK l : l = at[t].left
    OBVIOUS
  <1>d. PICK r : r = at[t].right
    OBVIOUS
  <1>1. /\ pc[t] = "lockparent" /\ p = parent[n] /\ ~Has(ver[p], LOCK)
        /\ ver' = [ver EXCEPT ![p] = Raise(@, LOCK)]
        /\ parent' = [parent EXCEPT ![l] = p, ![r] = p]
        /\ pc' = [pc EXCEPT ![t] = "replace"] /\ Quiet(t)
        /\ UNCHANGED <<root, used, type, data, at>>
    BY <1>a, <1>b, <1>c, <1>d DEF LockParent, Lock, Goto
  <1>2. pc'[t] = "replace" /\ \A u \in Thread \ {t} : pc'[u] = pc[u]
    BY <1>1, Facts DEF DomainsInv
  <1>3. /\ n \in 1 .. used /\ l \in 1 .. used /\ r \in 1 .. used
        /\ Halves(t) = {l, r} /\ p # NoNode /\ p \in 1 .. used
        /\ parent \in [Node -> 0 .. used] /\ l \in Node /\ r \in Node
    <2>1. p # NoNode /\ p \in 0 .. used /\ parent \in [Node -> 0 .. used]
      BY <1>a, <1>b, <1>c, <1>d, <1>1, Facts DEF LocalsAt, NodesInv
    <2> QED
      BY <1>a, <1>b, <1>c, <1>d, <1>1, <2>1, HalvesNodes, Facts DEF Splits
  <1>4. /\ SplitAt(t, rg) /\ Halved(n, l, r, rg) /\ ~Deleted(n)
        /\ \A m \in Node : Halves(t) \cap Links(data[m]) = {}
    BY <1>a, <1>b, <1>c, <1>d, <1>1 DEF TreeInv, SplitAt, Splits, Building
  <1>5. ~Loose(n)
    <2> SUFFICES ASSUME NEW u \in Thread, Unlinked(u), n \in Halves(u)
                 PROVE  FALSE
      BY DEF Loose
    <2>1. pc[u] \in Splits \/ AtParent(u)
      BY DEF Unlinked, Splits
    <2>2. Above(u) \in Held(u) /\ Halves(u) = {at[u].left, at[u].right}
      BY <2>1, HalvesNodes DEF Above, Unlinked, AtParent
    <2>3. parent[n] = Above(u)
      BY <2>2 DEF TreeInv, SplitAt
    <2> QED
      BY <1>1, <1>3, <2>2, <2>3 DEF IInv, LocksOwned
  <1>6. /\ n \in Links(data[p]) /\ type[p] # "LEAF" /\ ~Deleted(p)
    BY <1>1, <1>3, <1>4, <1>5 DEF TreeInv, UpAt
  <1>7. \A m \in 1 .. used : Deleted(m)' <=> Deleted(m)
    BY <1>1, <1>3, NoneDeleted
  <1>8. \A m \in Node : m \notin Halves(t) => parent'[m] = parent[m]
    BY <1>1, <1>3
  <1>9. parent'[l] = p /\ parent'[r] = p
    BY <1>1, <1>3
  <1>10. \A u \in Thread : S!Pending(u) => S!Pending(u)' /\ op(u)' = op(u)
    BY <1>1, Facts, CallsKept
  <1>11. Seen(t, rg, rg)
    <2>1. used \in Nat /\ used <= MaxNodes /\ 1 .. used \subseteq Node
      BY Facts
    <2>2. \A m \in 1 .. used : First(m)' = First(m)
      BY <1>1 DEF First
    <2>3. \A c \in 1 .. used : c \notin Halves(t) => parent'[c] = parent[c]
      BY <1>8, <2>1
    <2>4. \A u \in Thread \ {t} :
            /\ at'[u] = at[u] /\ pc'[u] = pc[u]
            /\ S!Pending(u) => op(u)' = op(u)
      BY <1>1, <1>2, <1>10
    <2>5. \A m \in 1 .. used :
            /\ type'[m] = type[m] /\ First(m)' = First(m) /\ data'[m] = data[m]
            /\ Deleted(m)' <=> Deleted(m)
      BY <1>1, <1>7, <2>2
    <2>6. used' = used /\ data' = data
      BY <1>1
    <2>7. \A c \in 1 .. used :
            c \notin Halves(t) /\ (\A m \in Node : c \notin Links(data[m]))
              => parent'[c] = parent[c] /\ (\A m \in Node : c \notin Links(data'[m]))
      BY <2>3, <2>6
    <2>8. used' \in Nat /\ used <= used' /\ used' <= MaxNodes
      BY <2>1, <2>6
    <2> QED
      BY <2>4, <2>5, <2>7, <2>8 DEF Seen
  <1>12. \A u \in Thread \ {t} : PathAt(u, rg)' /\ SplitAt(u, rg)'
    BY <1>11, OthersTree
  <1>13. PathAt(t, rg)' /\ SplitAt(t, rg)'
    <2>1. PathAt(t, rg)'
      BY <1>2 DEF PathAt, Descending, AtLeaf
    <2>2. Halved(n, l, r, rg)' /\ ~Deleted(n)' /\ ~Deleted(p)'
      BY <1>a, <1>b, <1>c, <1>d, <1>1, <1>3, <1>4, <1>6, <1>7 DEF Halved, Shares, First
    <2>3. ~AtParent(t)' /\ Above(t)' = p /\ Halves(t)' = Halves(t)
      BY <1>a, <1>b, <1>c, <1>d, <1>1, <1>2 DEF AtParent, Above, Halves
    <2>4. SplitAt(t, rg)'
      BY <1>a, <1>b, <1>c, <1>d, <1>1, <1>2, <1>4, <1>6, <1>9, <2>2, <2>3
      DEF SplitAt, Splits, Building
    <2> QED
      BY <2>1, <2>4
  <1>14. \A m : Splitting(m)' <=> Splitting(m)
    BY <1>1, <1>2 DEF Splitting, Splits
  <1>15. \A m : Loose(m) \/ m \in Halves(t) => Loose(m)'
    <2>1. \A u \in Thread : /\ Halves(u)' = Halves(u)
                            /\ u # t => (Unlinked(u)' <=> Unlinked(u))
      BY <1>1, <1>2 DEF Unlinked, AtParent, Halves
    <2>2. Unlinked(t)' /\ ~Unlinked(t)
      BY <1>a, <1>b, <1>c, <1>d, <1>1, <1>2, <1>3 DEF Unlinked, AtParent
    <2> QED
      BY <2>1, <2>2 DEF Loose
  <1>16. ASSUME NEW m \in 1 .. used
         PROVE  Shaped(m, rg)' /\ UpAt(m)' /\ DownAt(m)'
    <2>1. m \in Node
      BY Facts
    <2>2. Shaped(m, rg)'
      BY <1>1 DEF TreeInv, Shaped
    <2>3. UpAt(m)'
      <3> SUFFICES ASSUME parent'[m] # NoNode, ~Deleted(m), ~Loose(m)'
                   PROVE  /\ m \in Links(data'[parent'[m]])
                          /\ type'[parent'[m]] # "LEAF"
                          /\ ~Deleted(parent[m])' /\ ~Splitting(parent[m])'
        BY <1>7 DEF UpAt
      <3>1. ~Loose(m) /\ parent'[m] = parent[m]
        BY <1>8, <1>15, <2>1
      <3>2. /\ m \in Links(data[parent[m]]) /\ type[parent[m]] # "LEAF"
            /\ ~Deleted(parent[m]) /\ ~Splitting(parent[m])
        BY <3>1 DEF TreeInv, UpAt
      <3>3. parent[m] \in 1 .. used
        BY <1>3, <2>1, <3>1, Facts
      <3> QED
        BY <1>1, <1>7, <1>14, <3>1, <3>2, <3>3
    <2>4. DownAt(m)'
      <3> SUFFICES ASSUME type[m] # "LEAF", ~Deleted(m), ~Splitting(m),
                          NEW c \in Links(data[m])
                   PROVE  parent'[c] = m
        BY <1>1, <1>7, <1>14 DEF DownAt
      <3>1. parent[c] = m
        BY DEF TreeInv, DownAt
      <3>2. c \notin Halves(t) /\ c \in 1 .. used
        BY <1>4, <2>1, LinkedNodes
      <3> QED
        BY <1>8, <3>1, <3>2, Facts
    <2> QED
      BY <2>2, <2>3, <2>4
  <1>17. TopInv'
    BY <1>1, <1>3, <1>8 DEF TreeInv, TopInv
  <1> QED
    BY <1>1, <1>12, <1>13, <1>16, <1>17 DEF TreeInv

\* A node that a thread has locked is not being split by another one.
LEMMA NotSplitting ==
  ASSUME IInv, NEW t \in Thread, NEW n \in Held(t), Splitting(n)
  PROVE  pc[t] \in Splits /\ n = at[t].node
  <1>1. PICK u \in Thread : pc[u] \in Splits /\ n = at[u].node
    BY DEF Splitting
  <1>2. n \in Held(u)
    BY <1>1, HeldNodes
  <1>3. u = t
    BY <1>2 DEF IInv, LocksOwned
  <1> QED
    BY <1>1, <1>3

\* What insert makes of a node, or divides.
LEMMA GrowFacts ==
  ASSUME IInv, NEW rg, TreeInv(rg), NEW t \in Thread, pc[t] = "insert" \/ Inserting(t),
         NEW n, n = at[t].node, NEW d, d = data[n], NEW x, x = NewData(t)
  PROVE  /\ n \in 1 .. used /\ x \in Seq(Entries) /\ Len(x) = Len(d) + 1
         /\ Sorted(x) /\ Covers(x, rg[n]) /\ x[1].key = d[1].key
         /\ Links(x) \subseteq Links(d) \cup Halves(t) \cup {NoNode}
         /\ AtParent(t) <=> type[n] # "LEAF"
         /\ type[n] # "LEAF" =>
              /\ Routes(x, rg[n], rg) /\ Halves(t) \subseteq Links(x)
              /\ \E c \in Links(d) :
                   /\ Deleted(c) /\ c \notin Halves(t)
                   /\ Links(x) = (Links(d) \ {c}) \cup Halves(t)
  <1>1. /\ pc[t] \in {"act", "interior", "insert"} /\ n \in 1 .. used
        /\ S!Pending(t) /\ op(t).key \in Key
    <2>1. pc[t] \in {"act", "interior", "insert"}
      BY DEF Inserting
    <2> QED
      BY <2>1, Facts DEF LocalsAt
  <1>2. AtParent(t) <=> type[n] # "LEAF"
    <2>1. pc[t] = "interior" => type[n] # "LEAF"
      BY DEF TreeInv, SplitAt
    <2>2. pc[t] = "act" => type[n] = "LEAF"
      BY Facts DEF LocalsAt, AtLeaf
    <2> QED
      BY <1>1, <2>1, <2>2 DEF AtParent
  <1>3. type[n] # "LEAF" => /\ at[t].left \in 1 .. used /\ at[t].right \in 1 .. used
                            /\ Halves(t) = {at[t].left, at[t].right}
    BY <1>2, HalvesNodes
  <1>4. /\ x \in Seq(Entries) /\ Len(x) = Len(d) + 1
        /\ Links(x) \subseteq Links(d) \cup Halves(t) \cup {NoNode}
    BY <1>1, <1>3, NewDataFacts
  <1>5. /\ d \in Seq(Entries) /\ DOMAIN d = 1 .. Len(d) /\ d # << >>
        /\ \A j \in 1 .. Len(d) : d[j].key \in Nat
    <2>1. /\ d \in Seq(Entries) /\ DOMAIN d = 1 .. Len(d) /\ d # << >>
      BY <1>1, EntriesOf
    <2> QED
      BY <2>1, KeyTypes
  <1>6. /\ Sorted(d) /\ Covers(d, rg[n]) /\ rg[n] \in SUBSET Keys0
        /\ type[n] # "LEAF" => Routes(d, rg[n], rg)
    <2>1. n \in Node
      BY <1>1, Facts
    <2> QED
      BY <1>1, <2>1 DEF TreeInv, Shaped
  <1>7. CASE type[n] = "LEAF"
    <2>1. PICK k \in Keys0 : k = op(t).key
      BY <1>1 DEF Keys0
    <2>2. k \in rg[n] /\ ~Holds(n, k) /\ k \in Nat
      BY <1>1, <1>2, <1>7, <2>1, KeyTypes
      DEF TreeInv, PathAt, Inserting, AtLeaf, AtParent
    <2>3. PICK i : i = Locate(d, k)
      OBVIOUS
    <2>4. i \in 1 .. Len(d)
      BY <1>5, <1>6, <2>2, <2>3, LocateRange DEF Covers
    <2>5. d[i].key < k
      <3>1. \A j \in DOMAIN d : d[j].key <= k <=> j <= Locate(d, k)
        BY <1>5, <1>6, <2>2, LocateSplits
      <3>2. d[i].key <= k /\ d[i].key \in Nat
        BY <1>5, <2>3, <2>4, <3>1
      <3>3. d[i].key # k
        BY <2>2, <2>3, <2>4 DEF Holds
      <3> QED
        BY <2>2, <3>2, <3>3
    <2>6. x = Extended(d, i, Entry(k, NoNode), NoNode)
      BY <1>7, <2>1, <2>3 DEF NewData
    <2>7. NoNode \in 0 .. MaxNodes
      BY Constants
    <2>8. Sorted(x) /\ Covers(x, rg[n]) /\ x[1].key = d[1].key
      <3>1. SortedWith(x, d, k, rg[n])
        BY <1>5, <1>6, <2>2, <2>3, <2>4, <2>5, <2>6, <2>7, Inserted
      <3> QED
        BY <3>1 DEF SortedWith
    <2> QED
      BY <1>1, <1>2, <1>4, <1>7, <2>8
  <1>8. CASE type[n] # "LEAF"
    <2>1. PICK k \in Keys0 : k = First(at[t].right) /\ k \in rg[n]
      <3>1. First(at[t].right) \in rg[n]
        BY <1>2, <1>8, AboveFacts
      <3> QED
        BY <1>6, <3>1
    <2>2. PICK i \in 1 .. Len(d) :
            /\ i = Locate(d, k) /\ i = Locate(d, SplitKey(t))
            /\ d[i].key < k /\ Deleted(d[i].link)
            /\ Halved(d[i].link, at[t].left, at[t].right, rg)
      BY <1>2, <1>8, <2>1, AboveFacts
    <2>3. PICK l \in 0 .. MaxNodes : l = at[t].left /\ l # NoNode
      BY <1>3, <1>8, Facts
    <2>4. PICK r \in 0 .. MaxNodes : r = at[t].right /\ r # NoNode
      BY <1>3, <1>8, Facts
    <2>5. x = Extended(d, i, Entry(k, r), l)
      BY <1>8, <2>1, <2>2, <2>3, <2>4 DEF NewData
    <2>6. Shares(d[i].link, l, r, k, rg)
      BY <2>1, <2>2, <2>3, <2>4 DEF Halved
    <2>7. NoNode \in 0 .. MaxNodes
      BY Constants
    <2>8. Sorted(x) /\ Covers(x, rg[n]) /\ x[1].key = d[1].key
      <3>1. SortedWith(x, d, k, rg[n])
        BY <1>5, <1>6, <2>1, <2>2, <2>5, Inserted
      <3> QED
        BY <3>1 DEF SortedWith
    <2>9. Routes(d, rg[n], rg)
      BY <1>6, <1>8
    <2>10. /\ Routes(x, rg[n], rg)
           /\ \A c \in Links(x) : \/ c \in {l, r}
                                  \/ c \in Links(d) /\ c # d[i].link
           /\ {l, r} \subseteq Links(x)
           /\ \A c \in Links(d) : c \in Links(x) \/ c = d[i].link
      <3>1. RoutesWith(x, d, i, l, r, rg[n], rg)
        BY ZenonT(30), <1>5, <1>6, <2>1, <2>2, <2>3, <2>5, <2>6, <2>9, RoutesInserted
      <3> QED
        BY <3>1 DEF RoutesWith
    <2>11. Halves(t) = {l, r}
      BY <1>3, <1>8, <2>3, <2>4
    <2>12. d[i].link \in Links(d)
      BY <1>5 DEF Links
    <2>13. d[i].link \notin Halves(t)
      <3>1. Halves(t) \cap Links(data[n]) = {}
        <4>1. SplitAt(t, rg) /\ n \in Node /\ Unlinked(t)
          BY <1>1, <1>2, <1>8, Facts DEF TreeInv, Unlinked
        <4> QED
          BY <4>1 DEF SplitAt
      <3> QED
        BY <2>12, <3>1
    <2>14. Links(x) = (Links(d) \ {d[i].link}) \cup Halves(t)
      BY <2>10, <2>11, <2>13
    <2> QED
      BY <1>1, <1>2, <1>4, <1>8, <2>2, <2>8, <2>10, <2>11, <2>12, <2>13, <2>14
  <1> QED
    BY <1>7, <1>8

\* reref of a node's data: the leaf gets its key, or the node above gets the halves
\* instead of the node that was split, which nothing links any more.
LEMMA InsertTree ==
  ASSUME IInv, NEW rg, TreeInv(rg), NEW t \in Thread, Insert(t)
  PROVE  TreeInv(rg)'
  <1>a. PICK n : n = at[t].node
    OBVIOUS
  <1>b. PICK d : d = data[n]
    OBVIOUS
  <1>c. PICK x : x = NewData(t)
    OBVIOUS
  <1>1. /\ pc[t] = "insert" /\ data' = [data EXCEPT ![n] = x]
        /\ pc' = [pc EXCEPT ![t] = "inserted"]
        /\ Promise(t) \/ Observe(t)
        /\ UNCHANGED <<root, used, ver, type, parent, at>>
    BY <1>a, <1>b, <1>c DEF Insert, Goto
  <1>2. pc'[t] = "inserted" /\ \A u \in Thread \ {t} : pc'[u] = pc[u]
    BY <1>a, <1>b, <1>c, <1>1, Facts DEF DomainsInv
  <1>3. /\ n \in 1 .. used /\ n \in Node /\ n \in Held(t)
        /\ data \in [Node -> Seq(Entries)] /\ data \in [Node -> Seq(Entries)]
    <2>1. n \in 1 .. used /\ n \in Held(t)
      BY <1>a, <1>b, <1>c, <1>1, Facts, HeldNodes DEF Inserts
    <2> QED
      BY <1>a, <1>b, <1>c, <2>1, Facts DEF NodesInv
  <1>4. /\ x \in Seq(Entries) /\ Len(x) = Len(d) + 1
        /\ Sorted(x) /\ Covers(x, rg[n]) /\ x[1].key = d[1].key
        /\ Links(x) \subseteq Links(d) \cup Halves(t) \cup {NoNode}
        /\ AtParent(t) <=> type[n] # "LEAF"
    BY <1>a, <1>b, <1>c, <1>1, GrowFacts
  <1>5. type[n] # "LEAF" =>
          /\ Routes(x, rg[n], rg) /\ Halves(t) \subseteq Links(x)
          /\ \E c \in Links(d) : /\ Deleted(c) /\ c \notin Halves(t)
                                 /\ Links(x) = (Links(d) \ {c}) \cup Halves(t)
    BY <1>a, <1>b, <1>c, <1>1, GrowFacts
  <1>6. /\ data'[n] = x /\ \A m \in Node : m # n => data'[m] = data[m]
    BY <1>a, <1>b, <1>c, <1>1, <1>3
  <1>7. /\ SplitAt(t, rg) /\ Roomy(n) /\ ~Deleted(n) /\ ~Splitting(n)
    <2>1. SplitAt(t, rg) /\ Roomy(n) /\ ~Deleted(n)
      BY <1>a, <1>b, <1>c, <1>1 DEF TreeInv, PathAt, SplitAt, Inserts
    <2>2. ~Splitting(n)
      BY <1>a, <1>b, <1>c, <1>1, <1>3, NotSplitting DEF Splits
    <2> QED
      BY <1>a, <1>b, <1>c, <2>1, <2>2
  <1>8. \A u \in Thread : S!Pending(u) => S!Pending(u)' /\ op(u)' = op(u)
    BY <1>a, <1>b, <1>c, <1>1, Facts, CallsKept
  <1>9. \A m \in 1 .. used : Deleted(m)' <=> Deleted(m)
    BY <1>a, <1>b, <1>c, <1>1 DEF Deleted
  <1>10. Seen(t, rg, rg)
    <2>1. used \in Nat /\ used <= MaxNodes /\ 1 .. used \subseteq Node
      BY <1>a, <1>b, <1>c, Facts
    <2>2. \A m \in 1 .. used : First(m)' = First(m)
      BY <1>a, <1>b, <1>c, <1>4, <1>6, <2>1 DEF First
    <2>3. \A c \in 1 .. used : c # NoNode
      BY <1>a, <1>b, <1>c, Facts
    <2>4. ASSUME NEW c \in 1 .. used, c \notin Halves(t),
                 \A m \in Node : c \notin Links(data[m])
          PROVE  \A m \in Node : c \notin Links(data'[m])
      BY <1>a, <1>b, <1>c, <1>3, <1>4, <1>6, <2>3, <2>4 
    <2>5. \A m \in 1 .. used : m \notin Held(t) => data'[m] = data[m]
      BY <1>a, <1>b, <1>c, <1>3, <1>6, <2>1
    <2> QED
      BY <1>a, <1>b, <1>c, <1>1, <1>2, <1>8, <1>9, <2>1, <2>2, <2>4, <2>5 DEF Seen
  <1>11. \A u \in Thread \ {t} : PathAt(u, rg)' /\ SplitAt(u, rg)'
    BY <1>a, <1>b, <1>c, <1>10, OthersTree
  <1>12. PathAt(t, rg)' /\ SplitAt(t, rg)'
    <2>1. PathAt(t, rg)'
      BY <1>a, <1>b, <1>c, <1>2 DEF PathAt, Descending, AtLeaf
    <2>2. ~AtParent(t)' /\ ~Unlinked(t)'
      BY <1>a, <1>b, <1>c, <1>2 DEF AtParent, Unlinked
    <2>3. ~Deleted(n)'
      BY <1>a, <1>b, <1>c, <1>3, <1>7, <1>9
    <2>4. SplitAt(t, rg)'
      BY <1>a, <1>b, <1>c, <1>1, <1>2, <2>2, <2>3 DEF SplitAt, Splits, Building
    <2> QED
      BY <1>a, <1>b, <1>c, <2>1, <2>4
  <1>13. \A m : Splitting(m)' <=> Splitting(m)
    BY <1>a, <1>b, <1>c, <1>1, <1>2 DEF Splitting, Splits
  <1>14. \A m : Loose(m) => Loose(m)' \/ (AtParent(t) /\ m \in Halves(t))
    <2>1. \A u \in Thread \ {t} :
            (Unlinked(u) <=> Unlinked(u)') /\ Halves(u)' = Halves(u)
      BY <1>a, <1>b, <1>c, <1>1, <1>2 DEF Unlinked, AtParent, Halves
    <2>2. Unlinked(t) => AtParent(t)
      BY <1>a, <1>b, <1>c, <1>1 DEF Unlinked
    <2> QED
      BY <1>a, <1>b, <1>c, <2>1, <2>2 DEF Loose
  <1>15. ASSUME NEW m \in 1 .. used
         PROVE  Shaped(m, rg)' /\ UpAt(m)' /\ DownAt(m)'
    <2>1. m \in Node
      BY <1>a, <1>b, <1>c, Facts
    <2>2. Shaped(m, rg)'
      <3>1. CASE m = n
        <4>1. Len(d) \in Nat /\ Len(d) < Fanout /\ Fanout \in Nat
          BY <1>a, <1>b, <1>c, <1>3, <1>7, EntriesOf, Constants DEF Roomy
        <4>2. Len(x) <= Fanout
          BY <1>a, <1>b, <1>c, <1>4, <4>1
        <4>3. type[n] = "ROOT" => rg[n] = Keys0
          BY <1>a, <1>b, <1>c, <1>3 DEF TreeInv, Shaped
        <4> QED
          BY <1>a, <1>b, <1>c, <1>1, <1>4, <1>5, <1>6, <3>1, <4>2, <4>3 DEF Shaped
      <3>2. CASE m # n
        BY <1>a, <1>b, <1>c, <1>1, <1>6, <2>1, <3>2 DEF TreeInv, Shaped
      <3> QED
        BY <1>a, <1>b, <1>c, <3>1, <3>2
    <2>3. UpAt(m)'
      <3> SUFFICES ASSUME parent[m] # NoNode, ~Deleted(m), ~Loose(m)'
                   PROVE  /\ m \in Links(data'[parent[m]])
                          /\ type[parent[m]] # "LEAF"
                          /\ ~Deleted(parent[m]) /\ ~Splitting(parent[m])
        BY <1>a, <1>b, <1>c, <1>1, <1>13 DEF UpAt, Deleted
      <3>1. CASE AtParent(t) /\ m \in Halves(t)
        <4>1. /\ parent[at[t].left] = n /\ parent[at[t].right] = n
              /\ Halves(t) = {at[t].left, at[t].right}
          BY <1>a, <1>b, <1>c, <1>1, <1>7, <3>1, HalvesNodes DEF SplitAt, Unlinked, Above
        <4>2. parent[m] = n
          BY <1>a, <1>b, <1>c, <3>1, <4>1
        <4> QED
          BY <1>a, <1>b, <1>c, <1>4, <1>5, <1>6, <1>7, <3>1, <4>2
      <3>2. CASE ~(AtParent(t) /\ m \in Halves(t))
        <4>1. ~Loose(m)
          BY <1>a, <1>b, <1>c, <1>14, <3>2
        <4>2. /\ m \in Links(data[parent[m]]) /\ type[parent[m]] # "LEAF"
              /\ ~Deleted(parent[m]) /\ ~Splitting(parent[m])
          BY <1>a, <1>b, <1>c, <4>1 DEF TreeInv, UpAt
        <4>3. CASE parent[m] = n
          BY <1>a, <1>b, <1>c, <1>5, <1>6, <4>2, <4>3 
        <4>4. CASE parent[m] # n
          <5>1. parent[m] \in Node
            <6>1. parent[m] \in 0 .. used
              BY <1>a, <1>b, <1>c, <2>1, Facts DEF NodesInv
            <6> QED
              BY <1>a, <1>b, <1>c, <6>1, Facts
          <5> QED
            BY <1>a, <1>b, <1>c, <1>6, <4>2, <4>4, <5>1
        <4> QED
          BY <1>a, <1>b, <1>c, <4>3, <4>4
      <3> QED
        BY <1>a, <1>b, <1>c, <3>1, <3>2
    <2>4. DownAt(m)'
      <3> SUFFICES ASSUME type[m] # "LEAF", ~Deleted(m), ~Splitting(m),
                          NEW c \in Links(data'[m])
                   PROVE  parent[c] = m
        BY <1>a, <1>b, <1>c, <1>1, <1>13 DEF DownAt, Deleted
      <3>1. CASE m = n /\ c \in Halves(t)
        <4>1. AtParent(t)
          BY <1>a, <1>b, <1>c, <1>4, <3>1
        <4>2. /\ parent[at[t].left] = n /\ parent[at[t].right] = n
              /\ Halves(t) = {at[t].left, at[t].right}
          BY <1>a, <1>b, <1>c, <1>1, <1>7, <4>1, HalvesNodes DEF SplitAt, Unlinked, Above
        <4> QED
          BY <1>a, <1>b, <1>c, <3>1, <4>2
      <3>2. CASE ~(m = n /\ c \in Halves(t))
        <4>1. c \in Links(data[m])
          BY <1>a, <1>b, <1>c, <1>5, <1>6, <2>1, <3>2 
        <4> QED
          BY <1>a, <1>b, <1>c, <4>1 DEF TreeInv, DownAt
      <3> QED
        BY <1>a, <1>b, <1>c, <3>1, <3>2
    <2> QED
      BY <1>a, <1>b, <1>c, <2>2, <2>3, <2>4
  <1>16. TopInv'
    BY <1>a, <1>b, <1>c, <1>1 DEF TreeInv, TopInv
  <1> QED
    BY <1>a, <1>b, <1>c, <1>1, <1>11, <1>12, <1>15, <1>16 DEF TreeInv

\* The two new nodes share out the range of the node that is split.
SplitShaped(n, l, r, x, kind, rg, rg2) ==
  /\ rg2 \in [Node -> SUBSET Keys0]
  /\ \A m \in 1 .. used : rg2[m] = rg[m]
  /\ Halved(n, l, r, rg2)'
  /\ \A m \in 1 .. used' : Shaped(m, rg2)'
  /\ Links(data'[l]) \cup Links(data'[r]) \subseteq Links(x)
  /\ kind # "LEAF" => /\ Links(x) = Links(data'[l]) \cup Links(data'[r])
                      /\ Links(data'[l]) \cap Links(data'[r]) = {}

\* They do after a split, a half for each part.
LEMMA SplitShapes ==
  ASSUME IInv, NEW rg, TreeInv(rg), NEW t \in Thread, NEW kind \in {"INTERIOR", "LEAF"},
         Inserting(t), ~Roomy(at[t].node), Split(t, kind),
         kind = "LEAF" <=> type[at[t].node] = "LEAF"
  PROVE  \E n, l, r, x, rg2 :
           /\ n = at[t].node /\ l = used + 1 /\ r = used + 2 /\ x = NewData(t)
           /\ SplitShaped(n, l, r, x, kind, rg, rg2)
  <1>a. PICK n : n = at[t].node
    OBVIOUS
  <1>b. PICK l : l = used + 1
    OBVIOUS
  <1>c. PICK r : r = used + 2
    OBVIOUS
  <1>d. PICK x : x = NewData(t)
    OBVIOUS
  <1>e. PICK f : f = RightHalf(x)[1].key
    OBVIOUS
  <1>f. PICK rg2 : rg2 = [rg EXCEPT ![l] = {k \in rg[n] : k < f},
                                    ![r] = {k \in rg[n] : k >= f}]
    OBVIOUS
  <1>1. /\ l \in Node /\ r \in Node /\ l # r /\ l \notin 0 .. used
        /\ r \notin 0 .. used /\ used' = r
        /\ \A m \in 1 .. r : m \in 1 .. used \/ m = l \/ m = r
        /\ type'[l] = kind /\ type'[r] = kind
        /\ \A m \in 1 .. used : type'[m] = type[m]
        /\ \A m \in Node \ {l, r} : data'[m] = data[m]
    BY <1>b, <1>c, SplitFacts
  <1>2. PICK lx : lx = LeftHalf(x)
    OBVIOUS
  <1>3. PICK rx : rx = RightHalf(x)
    OBVIOUS
  <1>4. data'[l] = lx /\ data'[r] = rx
    <2>1. data \in [Node -> Seq(Entries)]
      BY Facts DEF NodesInv
    <2>2. data' = [data EXCEPT ![l] = lx, ![r] = rx]
      BY <1>b, <1>c, <1>d, <1>2, <1>3 DEF Split
    <2> QED
      BY <1>1, <2>1, <2>2
  <1>5. /\ n \in 1 .. used /\ x \in Seq(Entries) /\ Len(x) = Len(data[n]) + 1
        /\ Sorted(x) /\ Covers(x, rg[n])
        /\ type[n] # "LEAF" => Routes(x, rg[n], rg)
    BY <1>a, <1>d, GrowFacts
  <1>6. \A m \in 1 .. used : m \in Node /\ m # l /\ m # r
    BY <1>1, Facts
  <1>7. rg \in [Node -> SUBSET Keys0] /\ Shaped(n, rg)
    BY <1>5 DEF TreeInv
  <1>8. Len(x) = 2 * Half
    <2>1. Len(data[n]) \in Nat /\ Len(data[n]) <= Fanout /\ ~(Len(data[n]) < Fanout)
      BY <1>5, <1>7, <1>a, EntriesOf DEF Shaped, Roomy
    <2> QED
      <3>1. PICK m : m = Len(data[n])
        OBVIOUS
      <3>2. m \in Nat /\ m = Fanout /\ Len(x) = m + 1
        BY <1>5, <2>1, <3>1, Constants
      <3> QED
        BY <3>2, Constants
  <1>9. PICK R \in SUBSET Keys0 : R = rg[n]
    BY <1>5, <1>6, <1>7
  <1>10. /\ Sorted(lx) /\ Covers(lx, {k \in R : k < f})
         /\ Sorted(rx) /\ Covers(rx, {k \in R : k >= f})
    <2>1. CoverHalves(x, R, lx, rx, f)
      BY <1>e, <1>2, <1>3, <1>5, <1>8, <1>9, HalvesCover
    <2> QED
      BY <2>1 DEF CoverHalves
  <1>11. ASSUME kind # "LEAF"
         PROVE  /\ Routes(lx, {k \in R : k < f}, rg) /\ Routes(rx, {k \in R : k >= f}, rg)
                /\ Links(lx) \cap Links(rx) = {} /\ Links(x) = Links(lx) \cup Links(rx)
    <2>1. Sorted(x) /\ Covers(x, R) /\ Routes(x, R, rg)
      BY <1>a, <1>5, <1>9, <1>11
    <2>2. RouteHalves(x, R, rg, lx, rx, f)
      BY <1>e, <1>2, <1>3, <1>5, <1>8, <2>1, HalvesRoute
    <2> QED
      BY <2>2 DEF RouteHalves
  <1>12. /\ lx \in Seq(Entries) /\ DOMAIN lx = 1 .. Half
         /\ \A j \in 1 .. Half : lx[j] = x[j]
         /\ rx \in Seq(Entries) /\ DOMAIN rx = 1 .. Half
         /\ \A j \in 1 .. Half : rx[j] = x[Half + j]
    BY <1>2, <1>3, <1>5, <1>8, HalvesAt
  <1>13. Len(lx) <= Fanout /\ Len(rx) <= Fanout
    <2>1. Half <= Fanout
      BY Constants, MasstreeAssumption
    <2>2. Len(lx) = Half /\ Len(rx) = Half
      BY <1>12, Constants
    <2> QED
      BY <2>1, <2>2
  <1>14. Links(lx) \cup Links(rx) \subseteq Links(x)
    <2>1. DOMAIN x = 1 .. 2 * Half
      BY <1>5, <1>8
    <2>2. \A j \in 1 .. Half : j \in 1 .. 2 * Half /\ Half + j \in 1 .. 2 * Half
      BY Constants
    <2> QED
      BY <1>12, <2>1, <2>2 DEF Links
  <1>15. /\ rg2 \in [Node -> SUBSET Keys0]
         /\ rg2[l] = {k \in R : k < f} /\ rg2[r] = {k \in R : k >= f}
         /\ \A m \in Node \ {l, r} : rg2[m] = rg[m]
    <2>1. rg2 = [rg EXCEPT ![l] = {k \in R : k < f}, ![r] = {k \in R : k >= f}]
      BY <1>9, <1>f
    <2>2. {k \in R : k < f} \in SUBSET Keys0 /\ {k \in R : k >= f} \in SUBSET Keys0
      OBVIOUS
    <2> QED
      BY <1>1, <1>7, <2>1, <2>2
  <1>16. \A m \in 1 .. used : rg2[m] = rg[m]
    BY <1>6, <1>15
  <1>17. Halved(n, l, r, rg2)'
    <2>1. First(r)' = f
      BY <1>e, <1>3, <1>4 DEF First
    <2>2. rg2[n] = R
      BY <1>5, <1>9, <1>16
    <2>3. Shares(n, l, r, f, rg2)
      BY <1>15, <2>2 DEF Shares
    <2> QED
      BY <2>1, <2>3 DEF Halved
  <1>18. \A d, S0 : (\A c \in Links(d) : rg2[c] = rg[c]) /\ Routes(d, S0, rg)
                      => Routes(d, S0, rg2)
    BY DEF Routes, Links
  <1>19. ASSUME NEW m \in 1 .. used
         PROVE  Shaped(m, rg2)'
    <2>1. /\ data'[m] = data[m] /\ type'[m] = type[m] /\ rg2[m] = rg[m]
      BY <1>1, <1>6, <1>16
    <2>2. Shaped(m, rg)
      BY DEF TreeInv
    <2>3. type[m] # "LEAF" => Routes(data[m], rg[m], rg2)
      BY <1>16, <1>18, <2>2, LinkedNodes DEF Shaped
    <2> QED
      BY <2>1, <2>2, <2>3 DEF Shaped
  <1>20. kind # "LEAF" => \A c \in Links(lx) \cup Links(rx) : rg2[c] = rg[c]
    <2> SUFFICES ASSUME kind # "LEAF", NEW c \in Links(x)
                 PROVE  rg2[c] = rg[c]
      BY <1>14
    <2>1. Links(x) \subseteq Links(data[n]) \cup Halves(t) /\ AtParent(t)
      <3>1. PICK d : d = data[n]
        OBVIOUS
      <3>2. /\ AtParent(t) <=> type[n] # "LEAF"
            /\ type[n] # "LEAF" =>
                 \E b \in Links(d) :
                   /\ Deleted(b) /\ b \notin Halves(t)
                   /\ Links(x) = (Links(d) \ {b}) \cup Halves(t)
        BY <1>a, <1>d, <3>1, GrowFacts
      <3> QED
        BY <1>a, <3>1, <3>2
    <2>2. Halves(t) \subseteq 1 .. used
      BY <2>1, HalvesNodes
    <2>3. Links(data[n]) \subseteq 1 .. used
      BY <1>a, <1>5, LinkedNodes
    <2> QED
      BY <1>16, <2>1, <2>2, <2>3
  <1>21. Shaped(l, rg2)' /\ Shaped(r, rg2)'
    <2>1. kind # "LEAF" => /\ Routes(lx, {k \in R : k < f}, rg2)
                           /\ Routes(rx, {k \in R : k >= f}, rg2)
      BY <1>11, <1>18, <1>20
    <2> QED
      BY <1>1, <1>4, <1>10, <1>13, <1>15, <2>1 DEF Shaped
  <1>22. \A m \in 1 .. used' : Shaped(m, rg2)'
    BY <1>1, <1>19, <1>21
  <1>23. SplitShaped(n, l, r, x, kind, rg, rg2)
    BY <1>4, <1>11, <1>14, <1>15, <1>16, <1>17, <1>22 DEF SplitShaped
  <1> QED
    BY <1>a, <1>b, <1>c, <1>d, <1>23

\* What the other threads, and the one that splits, see of a split.
LEMMA SplitSeen ==
  ASSUME IInv, NEW rg, TreeInv(rg), NEW t \in Thread, NEW kind \in {"INTERIOR", "LEAF"},
         Inserting(t), ~Roomy(at[t].node), Split(t, kind),
         kind = "LEAF" <=> type[at[t].node] = "LEAF", Observe(t),
         NEW n, n = at[t].node, NEW l, l = used + 1, NEW r, r = used + 2,
         NEW rg2, \A m \in 1 .. used : rg2[m] = rg[m], Halved(n, l, r, rg2)',
         Links(data'[l]) \cup Links(data'[r]) \subseteq Links(NewData(t)),
         \A m \in Node : m \notin Links(NewData(t)) => parent'[m] = parent[m],
         pc'[t] \in {"next", "prev", "parent", "newroot"},
         pc'[t] = "newroot" => type[n] = "ROOT",
         \A u \in Thread \ {t} : pc'[u] = pc[u]
  PROVE  /\ \A m \in 1 .. used : Deleted(m)' <=> Deleted(m)
         /\ ~Deleted(l)' /\ ~Deleted(r)'
         /\ ~Unlinked(t)' /\ \A m : m # n => (Splitting(m)' <=> Splitting(m))
         /\ \A u \in Thread \ {t} : Unlinked(u) <=> Unlinked(u)'
         /\ \A u \in Thread : PathAt(u, rg2)' /\ SplitAt(u, rg2)'
  <1>1. /\ l \in Node /\ r \in Node /\ l # r /\ l \notin 0 .. used
        /\ r \notin 0 .. used /\ used' = r /\ l \in 1 .. r /\ r \in 1 .. r
        /\ n \in 1 .. used /\ n \in Node /\ Held(t) = {n}
        /\ type'[l] = kind /\ type'[r] = kind
        /\ \A m \in 1 .. used : type'[m] = type[m]
        /\ \A m \in Node \ {l, r} : data'[m] = data[m]
        /\ \A m \in {l, r} : Links(data'[m]) \subseteq 0 .. used
    <2>1. n \in 1 .. used /\ n \in Node /\ Held(t) = {n}
      BY InsertingAt, Facts
    <2> QED
      BY <2>1, SplitFacts
  <1>2. /\ at'[t].left = l /\ at'[t].right = r /\ at'[t].node = n
        /\ \A u \in Thread \ {t} : at'[u] = at[u]
    BY SplitFacts
  <1>3. /\ used \in Nat /\ used <= r /\ r <= MaxNodes /\ r \in Nat
        /\ \A m \in 1 .. used : m \in Node /\ m # l /\ m # r /\ m # NoNode
    BY <1>1, Facts, Constants
  <1>4. ver' = [ver EXCEPT ![n] = Raise(@, SPLIT), ![l] = LOCK + SPLIT,
                           ![r] = LOCK + SPLIT]
    BY DEF Split
  <1>5. ver \in [Node -> Nat]
    BY Facts DEF NodesInv
  <1>6. /\ ver'[l] = LOCK + SPLIT /\ ver'[r] = LOCK + SPLIT
        /\ ver'[n] = Raise(ver[n], SPLIT)
        /\ \A m \in 1 .. used : m # n => ver'[m] = ver[m]
    BY <1>1, <1>3, <1>4, <1>5
  <1>7. \A m \in 1 .. used : Deleted(m)' <=> Deleted(m)
    BY <1>1, <1>5, <1>6, DeletedBits DEF Deleted
  <1>8. ~Deleted(l)' /\ ~Deleted(r)'
    <2>1. ~Has(LOCK + SPLIT, DELETED)
      BY DEF Has, LOCK, SPLIT, DELETED
    <2> QED
      BY <1>6, <2>1 DEF Deleted
  <1>9. /\ ~AtParent(t)' /\ ~Unlinked(t)' /\ pc'[t] \in Building /\ pc'[t] \in Splits
    BY DEF AtParent, Unlinked, Building, Splits
  <1>10. \A m : m # n => (Splitting(m)' <=> Splitting(m))
    <2>1. pc[t] \notin Splits
      BY InsertingAt DEF Splits
    <2> QED
      BY <1>2, <2>1 DEF Splitting
  <1>11. \A u \in Thread : S!Pending(u) => S!Pending(u)' /\ op(u)' = op(u)
    BY Facts, CallsKept
  <1>12. Links(NewData(t)) \subseteq Links(data[n]) \cup Halves(t) \cup {NoNode}
    BY GrowFacts
  <1>13. Seen(t, rg, rg2)
    <2>1. \A m \in 1 .. used : data'[m] = data[m] /\ First(m)' = First(m)
      BY <1>1, <1>3 DEF First
    <2>2. ASSUME NEW c \in 1 .. used, c \notin Halves(t),
                 \A m \in Node : c \notin Links(data[m])
          PROVE  /\ parent'[c] = parent[c]
                 /\ \A m \in Node : c \notin Links(data'[m])
      <3>1. c \notin Links(NewData(t)) /\ c \in Node
        BY <1>1, <1>3, <1>12, <2>2
      <3> QED
        BY <1>1, <2>2, <3>1
    <2> QED
      BY <1>1, <1>2, <1>3, <1>7, <1>11, <2>1, <2>2 DEF Seen
  <1>14. \A u \in Thread \ {t} : PathAt(u, rg2)' /\ SplitAt(u, rg2)'
    BY <1>13, OthersTree
  <1>15. \A u \in Thread \ {t} : Unlinked(u) <=> Unlinked(u)'
    <2> SUFFICES ASSUME NEW u \in Thread \ {t}
                 PROVE  Unlinked(u) <=> Unlinked(u)'
      OBVIOUS
    <2>1. pc[u] = "insert" => at[u].node \in 1 .. used
      BY Facts
    <2> QED
      BY <1>1, <1>2, <2>1 DEF Unlinked, AtParent
  <1>16. PathAt(t, rg2)'
    BY DEF PathAt, Descending, AtLeaf
  <1>17. SplitAt(t, rg2)'
    <2>1. ~Deleted(n)'
      <3>1. ~Deleted(n)
        BY DEF TreeInv, SplitAt, Inserting, Inserts
      <3> QED
        BY <1>1, <1>7, <3>1
    <2>2. (\A m \in Node : Halves(t) \cap Links(data[m]) = {})'
      <3>1. \A m \in Node : Links(data[m]) \subseteq 0 .. used
        BY Facts DEF NodesInv
      <3>2. \A m \in Node : Links(data'[m]) \subseteq 0 .. used
        BY <1>1, <3>1
      <3>3. Halves(t)' \subseteq {l, r}
        BY <1>2 DEF Halves
      <3> QED
        BY <1>1, <3>2, <3>3
    <2>3. parent'[l] = NoNode /\ parent'[r] = NoNode
      <3>1. parent[l] = NoNode /\ parent[r] = NoNode
        BY <1>1 DEF TreeInv, TopInv
      <3>2. Links(NewData(t)) \subseteq 0 .. used
        <4>1. NoNode \in 0 .. used /\ Halves(t) \subseteq 0 .. used
          BY <1>3, Constants, Facts DEF Halves, LocalsAt
        <4>2. Links(data[n]) \subseteq 0 .. used
          BY <1>1, Facts DEF NodesInv
        <4> QED
          BY <1>12, <4>1, <4>2
      <3> QED
        BY <1>1, <3>1, <3>2
    <2>4. pc'[t] # "replace" /\ pc'[t] # "interior" /\ pc'[t] # "act"
      OBVIOUS
    <2> QED
      BY <1>1, <1>2, <1>9, <2>1, <2>2, <2>3, <2>4 DEF SplitAt
  <1> QED
    BY <1>7, <1>8, <1>9, <1>10, <1>14, <1>15, <1>16, <1>17

\* The halves of a leaf are part of no node above yet.
LEMMA SplitLeafTree ==
  ASSUME IInv, NEW rg, TreeInv(rg), NEW t \in Thread, SplitLeaf(t)
  PROVE  \E rg2 : TreeInv(rg2)'
  <1>0. /\ Inserting(t) /\ ~Roomy(at[t].node) /\ Split(t, "LEAF")
        /\ type[at[t].node] = "LEAF"
    BY DEF SplitLeaf
  <1>1. PICK n, l, r, x, rg2 :
          /\ n = at[t].node /\ l = used + 1 /\ r = used + 2 /\ x = NewData(t)
          /\ SplitShaped(n, l, r, x, "LEAF", rg, rg2)
    BY <1>0, SplitShapes
  <1>7. /\ Inserting(t) /\ ~Roomy(n) /\ Split(t, "LEAF") /\ type[n] = "LEAF"
        /\ Observe(t) /\ UNCHANGED <<root, parent>>
        /\ pc'[t] \in {"next", "prev"} /\ \A u \in Thread \ {t} : pc'[u] = pc[u]
    BY <1>1, Facts DEF SplitLeaf, Goto, DomainsInv
  <1>8. /\ rg2 \in [Node -> SUBSET Keys0]
        /\ \A m \in 1 .. used : rg2[m] = rg[m]
        /\ Halved(n, l, r, rg2)'
        /\ \A m \in 1 .. used' : Shaped(m, rg2)'
        /\ Links(data'[l]) \cup Links(data'[r]) \subseteq Links(x)
    BY <1>1 DEF SplitShaped
  <1>9. /\ \A m \in 1 .. used : Deleted(m)' <=> Deleted(m)
        /\ ~Deleted(l)' /\ ~Deleted(r)'
        /\ ~Unlinked(t)' /\ \A m : m # n => (Splitting(m)' <=> Splitting(m))
        /\ \A u \in Thread \ {t} : Unlinked(u) <=> Unlinked(u)'
        /\ \A u \in Thread : PathAt(u, rg2)' /\ SplitAt(u, rg2)'
    BY <1>1, <1>7, <1>8, SplitSeen
  <1>10. /\ l \in Node /\ r \in Node /\ l # r /\ l \notin 0 .. used
         /\ r \notin 0 .. used /\ used' = r /\ 0 .. used \subseteq 0 .. r
         /\ \A m \in 1 .. r : m \in 1 .. used \/ m = l \/ m = r
         /\ type'[l] = "LEAF" /\ type'[r] = "LEAF"
         /\ \A m \in 1 .. used : type'[m] = type[m]
         /\ \A m \in Node \ {l, r} : data'[m] = data[m]
         /\ \A u \in Thread \ {t} : at'[u] = at[u]
    BY <1>1, <1>7, SplitFacts
  <1>11. \A m \in 1 .. used : m \in Node /\ m # l /\ m # r
    BY <1>10, Facts
  <1>12. ~Unlinked(t) /\ \A m : Loose(m)' <=> Loose(m)
    <2>1. ~Unlinked(t)
      <3>1. ~AtParent(t) /\ pc[t] # "replace"
        BY <1>1, <1>7, GrowFacts DEF Inserting
      <3> QED
        BY <3>1 DEF Unlinked
    <2>2. \A u \in Thread \ {t} : Halves(u)' = Halves(u)
      BY <1>10 DEF Halves
    <2> QED
      BY <1>9, <2>1, <2>2 DEF Loose
  <1>13. ASSUME NEW m \in 1 .. used
         PROVE  UpAt(m)' /\ DownAt(m)'
    <2>1. UpAt(m)'
      <3> SUFFICES ASSUME parent[m] # NoNode, ~Deleted(m), ~Loose(m)
                   PROVE  /\ m \in Links(data'[parent[m]])
                          /\ type'[parent[m]] # "LEAF"
                          /\ ~Deleted(parent[m])' /\ ~Splitting(parent[m])'
        BY <1>7, <1>9, <1>12 DEF UpAt
      <3>1. /\ m \in Links(data[parent[m]]) /\ type[parent[m]] # "LEAF"
            /\ ~Deleted(parent[m]) /\ ~Splitting(parent[m])
        BY DEF TreeInv, UpAt
      <3>2. parent[m] \in 1 .. used
        <4>1. parent[m] \in 0 .. used
          BY <1>11, Facts DEF NodesInv
        <4> QED
          BY <4>1, Facts
      <3>3. parent[m] # n
        BY <1>7, <3>1
      <3> QED
        BY <1>7, <1>9, <1>10, <1>11, <3>1, <3>2, <3>3 DEF Deleted, Splitting
    <2>2. DownAt(m)'
      <3> SUFFICES ASSUME type[m] # "LEAF", ~Deleted(m), ~Splitting(m)',
                          NEW c \in Links(data[m])
                   PROVE  parent[c] = m
        BY <1>7, <1>9, <1>10, <1>11 DEF DownAt
      <3>1. ~Splitting(m)
        BY <1>7, <1>9
      <3> QED
        BY <3>1 DEF TreeInv, DownAt
    <2> QED
      BY <2>1, <2>2
  <1>14. UpAt(l)' /\ UpAt(r)' /\ DownAt(l)' /\ DownAt(r)'
    <2>1. parent'[l] = NoNode /\ parent'[r] = NoNode
      <3>1. l \notin 1 .. used /\ r \notin 1 .. used
        BY <1>11
      <3> QED
        BY <1>7, <1>10, <3>1 DEF TreeInv, TopInv
    <2> QED
      BY <1>10, <2>1 DEF UpAt, DownAt
  <1>15. TopInv'
    <2>1. root \in 1 .. used
      BY Facts
    <2>2. \A m \in Node \ (1 .. r) : m \in Node \ (1 .. used)
      BY <1>1, <1>10, Facts
    <2> QED
      BY <1>7, <1>10, <2>1, <2>2 DEF TreeInv, TopInv
  <1>16. TreeInv(rg2)'
    BY <1>8, <1>9, <1>10, <1>13, <1>14, <1>15 DEF TreeInv
  <1> QED
    BY <1>16

\* The halves of an interior node are told to its children, those that are linked
\* by this step included.
LEMMA SplitInteriorTree ==
  ASSUME IInv, NEW rg, TreeInv(rg), NEW t \in Thread, SplitInterior(t)
  PROVE  \E rg2 : TreeInv(rg2)'
  <1>0. /\ Inserting(t) /\ ~Roomy(at[t].node) /\ Split(t, "INTERIOR")
        /\ type[at[t].node] # "LEAF"
    BY DEF SplitInterior
  <1>1. PICK n, l, r, x, rg2 :
          /\ n = at[t].node /\ l = used + 1 /\ r = used + 2 /\ x = NewData(t)
          /\ SplitShaped(n, l, r, x, "INTERIOR", rg, rg2)
    BY <1>0, SplitShapes
  <1>7. /\ Inserting(t) /\ ~Roomy(n) /\ Split(t, "INTERIOR") /\ type[n] # "LEAF"
        /\ Observe(t) /\ UNCHANGED root
        /\ pc'[t] \in {"newroot", "parent"} /\ \A u \in Thread \ {t} : pc'[u] = pc[u]
        /\ pc'[t] = "newroot" => type[n] = "ROOT"
        /\ parent' = [m \in Node |-> CASE m \in Links(data'[l]) -> l
                                       [] m \in Links(data'[r]) -> r
                                       [] OTHER -> parent[m]]
    BY <1>1, Facts DEF SplitInterior, Goto, DomainsInv
  <1>8. /\ rg2 \in [Node -> SUBSET Keys0]
        /\ \A m \in 1 .. used : rg2[m] = rg[m]
        /\ Halved(n, l, r, rg2)'
        /\ \A m \in 1 .. used' : Shaped(m, rg2)'
        /\ Links(x) = Links(data'[l]) \cup Links(data'[r])
        /\ Links(data'[l]) \cap Links(data'[r]) = {}
    BY <1>1 DEF SplitShaped
  <1>9. /\ \A m \in Node : m \notin Links(x) => parent'[m] = parent[m]
        /\ \A m \in Node : m \in Links(data'[l]) => parent'[m] = l
        /\ \A m \in Node : m \in Links(data'[r]) => parent'[m] = r
    BY <1>7, <1>8
  <1>10. /\ \A m \in 1 .. used : Deleted(m)' <=> Deleted(m)
         /\ ~Deleted(l)' /\ ~Deleted(r)'
         /\ ~Unlinked(t)' /\ \A m : m # n => (Splitting(m)' <=> Splitting(m))
         /\ \A u \in Thread \ {t} : Unlinked(u) <=> Unlinked(u)'
         /\ \A u \in Thread : PathAt(u, rg2)' /\ SplitAt(u, rg2)'
    BY <1>1, <1>7, <1>8, <1>9, SplitSeen
  <1>11. /\ l \in Node /\ r \in Node /\ l # r /\ l \notin 0 .. used
         /\ r \notin 0 .. used /\ used' = r /\ 0 .. used \subseteq 0 .. r
         /\ \A m \in 1 .. r : m \in 1 .. used \/ m = l \/ m = r
         /\ type'[l] = "INTERIOR" /\ type'[r] = "INTERIOR"
         /\ \A m \in 1 .. used : type'[m] = type[m]
         /\ \A m \in Node \ {l, r} : data'[m] = data[m]
         /\ at'[t].node = n /\ \A u \in Thread \ {t} : at'[u] = at[u]
    BY <1>1, <1>7, SplitFacts
  <1>12. \A m \in 1 .. used : m \in Node /\ m # l /\ m # r
    BY <1>11, Facts
  <1>13. /\ n \in 1 .. used /\ AtParent(t) /\ SplitAt(t, rg) /\ Unlinked(t)
         /\ ~Deleted(n) /\ ~Splitting(n) /\ DownAt(n)
    <2>1. n \in 1 .. used /\ AtParent(t) /\ SplitAt(t, rg)
      BY <1>1, <1>7, GrowFacts DEF TreeInv
    <2>2. pc[t] \in {"act", "interior"} /\ n \in Held(t)
      BY <1>1, <1>7, InsertingAt, HeldNodes DEF Inserting
    <2>3. pc[t] = "interior"
      BY <2>1, <2>2 DEF AtParent
    <2>4. ~Deleted(n)
      BY <1>1, <2>1, <2>3 DEF SplitAt, Inserts
    <2>5. ~Splitting(n)
      BY <2>2, NotSplitting DEF Splits
    <2> QED
      BY <2>1, <2>4, <2>5 DEF TreeInv, Unlinked
  <1>14. PICK c0 \in Links(data[n]) :
           /\ Deleted(c0) /\ c0 \notin Halves(t)
           /\ Links(x) = (Links(data[n]) \ {c0}) \cup Halves(t)
    BY <1>1, <1>7, GrowFacts
  <1>15. Links(x) \subseteq 1 .. used
    BY <1>7, <1>13, <1>14, LinkedNodes, HalvesNodes
  <1>16. \A m : Loose(m) => Loose(m)' \/ m \in Halves(t)
    <2>1. \A u \in Thread \ {t} : Halves(u)' = Halves(u)
      BY <1>11 DEF Halves
    <2> QED
      BY <1>10, <2>1 DEF Loose
  <1>17. ~Splitting(l)' /\ ~Splitting(r)'
    <2>1. \A u \in Thread : pc[u] \in Splits => at[u].node \in 1 .. used
      BY HalvesNodes
    <2>2. ~Splitting(l) /\ ~Splitting(r)
      BY <1>12, <2>1 DEF Splitting
    <2> QED
      BY <1>10, <1>12, <1>13, <2>2
  <1>18. ASSUME NEW m \in 1 .. used
         PROVE  UpAt(m)'
    <2> SUFFICES ASSUME parent'[m] # NoNode, ~Deleted(m), ~Loose(m)'
                 PROVE  /\ m \in Links(data'[parent'[m]])
                        /\ type'[parent'[m]] # "LEAF"
                        /\ ~Deleted(parent[m])' /\ ~Splitting(parent[m])'
      BY <1>10 DEF UpAt
    <2>1. CASE m \in Links(data'[l])
      <3>1. parent'[m] = l
        BY <1>9, <1>12, <2>1
      <3> QED
        BY <1>10, <1>11, <1>17, <2>1, <3>1
    <2>2. CASE m \in Links(data'[r])
      <3>1. parent'[m] = r
        BY <1>9, <1>12, <2>2
      <3> QED
        BY <1>10, <1>11, <1>17, <2>2, <3>1
    <2>3. CASE m \notin Links(x)
      <3>1. parent'[m] = parent[m] /\ ~Loose(m)
        BY <1>9, <1>12, <1>14, <1>16, <2>3
      <3>2. /\ m \in Links(data[parent[m]]) /\ type[parent[m]] # "LEAF"
            /\ ~Deleted(parent[m]) /\ ~Splitting(parent[m])
        BY <3>1 DEF TreeInv, UpAt
      <3>3. parent[m] \in 1 .. used
        <4>1. parent[m] \in 0 .. used
          BY <1>12, Facts DEF NodesInv
        <4> QED
          BY <3>1, <4>1, Facts
      <3>4. parent[m] # n
        BY <1>14, <2>3, <3>2
      <3> QED
        BY <1>10, <1>11, <1>12, <3>1, <3>2, <3>3, <3>4
    <2> QED
      BY <1>8, <2>1, <2>2, <2>3
  <1>19. ASSUME NEW m \in 1 .. used
         PROVE  DownAt(m)'
    <2> SUFFICES ASSUME type[m] # "LEAF", ~Deleted(m), ~Splitting(m)',
                        NEW c \in Links(data[m])
                 PROVE  parent'[c] = m
      BY <1>10, <1>11, <1>12 DEF DownAt
    <2>1. m # n
      BY <1>7, <1>11 DEF Splitting, Splits
    <2>2. parent[c] = m
      BY <1>10, <2>1 DEF TreeInv, DownAt
    <2>3. c \notin Halves(t)
      BY <1>12, <1>13 DEF SplitAt
    <2>4. c \notin Links(data[n])
      BY <1>7, <1>13, <2>1, <2>2 DEF DownAt
    <2>5. c \in Node
      BY <1>12, LinkedNodes
    <2> QED
      BY <1>9, <1>14, <2>2, <2>3, <2>4, <2>5
  <1>20. UpAt(l)' /\ UpAt(r)' /\ DownAt(l)' /\ DownAt(r)'
    <2>1. parent'[l] = NoNode /\ parent'[r] = NoNode
      <3>1. l \notin 1 .. used /\ r \notin 1 .. used
        BY <1>12
      <3> QED
        BY <1>9, <1>11, <1>15, <3>1 DEF TreeInv, TopInv
    <2>2. \A c \in Links(x) : c \in Node
      BY <1>12, <1>15
    <2> QED
      BY <1>8, <1>9, <2>1, <2>2 DEF UpAt, DownAt
  <1>21. TopInv'
    <2>1. root \in 1 .. used
      BY Facts
    <2>2. \A m \in Node \ (1 .. r) : m \in Node \ (1 .. used)
      BY <1>1, <1>11, Facts
    <2>3. \A m \in Node \ (1 .. r) : parent'[m] = NoNode
      BY <1>9, <1>15, <2>2 DEF TreeInv, TopInv
    <2> QED
      BY <1>7, <1>11, <2>1, <2>3 DEF TreeInv, TopInv
  <1>22. TreeInv(rg2)'
    BY <1>8, <1>10, <1>11, <1>18, <1>19, <1>20, <1>21 DEF TreeInv
  <1> QED
    BY <1>22

\* Two entries over the halves of a root lead to every key.
LEMMA RootEntries ==
  ASSUME NEW e \in Entries, NEW f \in Entries, e.key < f.key, NEW d, d = <<e, f>>,
         \A k \in Keys0 : e.key <= k,
         NEW rg, rg[e.link] = {k \in Keys0 : k < f.key},
         rg[f.link] = {k \in Keys0 : k >= f.key}
  PROVE  /\ d \in Seq(Entries) /\ Len(d) = 2 /\ d[1].key = e.key
         /\ Sorted(d) /\ Covers(d, Keys0) /\ Routes(d, Keys0, rg)
         /\ Links(d) = {e.link, f.link}
  <1>1. /\ d \in Seq(Entries) /\ Len(d) = 2 /\ DOMAIN d = {1, 2} /\ DOMAIN d = 1 .. 2
        /\ d[1] = e /\ d[2] = f
    OBVIOUS
  <1> DEFINE j == e.key
  <1> DEFINE k == f.key
  <1>2. j \in Keys0 /\ k \in Keys0 /\ j \in Nat /\ k \in Nat /\ Keys0 \subseteq Nat
    BY KeyTypes DEF Entries, Keys0
  <1>3. d[1].key = j /\ d[2].key = k /\ j < k
    BY <1>1
  <1> HIDE DEF j, k
  <1>4. Sorted(d)
    BY <1>1, <1>2, <1>3 DEF Sorted
  <1>5. Covers(d, Keys0)
    BY <1>1, <1>2, <1>3 DEF Covers, j
  <1>6. ASSUME NEW m \in Keys0
        PROVE  Locate(d, m) = IF m < k THEN 1 ELSE 2
    <2>1. m \in Nat /\ j <= m
      BY <1>2 DEF j
    <2>2. CASE m < k
      <3>1. \A q \in DOMAIN d : d[q].key <= m <=> q <= 1
        BY <1>1, <1>2, <1>3, <2>1, <2>2
      <3>2. 1 \in 0 .. Len(d)
        BY <1>1
      <3> QED
        BY <1>1, <1>4, <2>1, <2>2, <3>1, <3>2, LocateIs
    <2>3. CASE ~(m < k)
      <3>1. \A q \in DOMAIN d : d[q].key <= m <=> q <= 2
        BY <1>1, <1>2, <1>3, <2>1, <2>3
      <3>2. 2 \in 0 .. Len(d)
        BY <1>1
      <3> QED
        BY <1>1, <1>4, <2>1, <2>3, <3>1, <3>2, LocateIs
    <2> QED
      BY <2>2, <2>3
  <1>7. Routes(d, Keys0, rg)
    <2>1. rg[d[1].link] = {m \in Keys0 : Locate(d, m) = 1}
      <3>1. rg[d[1].link] = {m \in Keys0 : m < k}
        BY <1>1 DEF k
      <3> QED
        BY <1>6, <3>1
    <2>2. rg[d[2].link] = {m \in Keys0 : Locate(d, m) = 2}
      <3>1. rg[d[2].link] = {m \in Keys0 : m >= k}
        BY <1>1 DEF k
      <3>2. \A m \in Keys0 : m >= k <=> ~(m < k)
        <4>1. \A m \in Nat : m >= k <=> ~(m < k)
          BY <1>2
        <4> QED
          BY <1>2, <4>1
      <3>3. \A m \in Keys0 : Locate(d, m) = 2 <=> ~(m < k)
        BY <1>6
      <3> QED
        BY <3>1, <3>2, <3>3
    <2> QED
      BY <1>1, <2>1, <2>2 DEF Routes
  <1> QED
    BY <1>1, <1>4, <1>5, <1>7 DEF Links

\* The new root leads to all keys, for the old one did.
LEMMA NewRootTree ==
  ASSUME IInv, NEW rg, TreeInv(rg), NEW t \in Thread, NewRoot(t)
  PROVE  \E rg2 : TreeInv(rg2)'
  <1>1. PICK n : n = at[t].node
    OBVIOUS
  <1>2. PICK l : l = at[t].left
    OBVIOUS
  <1>3. PICK r : r = at[t].right
    OBVIOUS
  <1>4. PICK new : new = used + 1
    OBVIOUS
  <1>5. PICK e : e = Entry(First(l), l)
    OBVIOUS
  <1>6. PICK f : f = Entry(First(r), r)
    OBVIOUS
  <1>7. PICK d : d = <<e, f>>
    OBVIOUS
  <1>8. PICK rg2 : rg2 = [rg EXCEPT ![new] = Keys0]
    OBVIOUS
  <1>9. /\ pc[t] = "newroot" /\ new <= MaxNodes /\ used' = new /\ root' = new
        /\ ver' = [ver EXCEPT ![new] = LOCK + SPLIT]
        /\ type' = [type EXCEPT ![new] = "ROOT"]
        /\ data' = [data EXCEPT ![new] = d]
        /\ parent' = [parent EXCEPT ![l] = new, ![r] = new]
        /\ pc' = [pc EXCEPT ![t] = "swapped"] /\ at' = at /\ Observe(t)
    BY <1>2, <1>3, <1>4, <1>5, <1>6, <1>7 DEF NewRoot, Goto
  <1>10. /\ used \in Nat /\ new \in Nat /\ new \in Node /\ used <= new
         /\ new \notin 0 .. used /\ new # NoNode
         /\ \A m \in 1 .. new : m \in 1 .. used \/ m = new
         /\ \A m \in 1 .. used : m \in Node /\ m # new
    BY SMTT(30), <1>4, <1>9, Constants, Facts
  <1>11. /\ n \in 1 .. used /\ l \in 1 .. used /\ r \in 1 .. used
         /\ Halves(t) = {l, r} /\ l # r /\ n # l /\ n # r
    <2>1. pc[t] \in Splits
      BY <1>9 DEF Splits
    <2>2. at[t].node # at[t].left /\ at[t].node # at[t].right
          /\ at[t].left # at[t].right
      BY <2>1, Facts DEF BitsAt
    <2> QED
      BY <1>1, <1>2, <1>3, <2>1, <2>2, HalvesNodes
  <1>12. SplitAt(t, rg) /\ rg \in [Node -> SUBSET Keys0] /\ TopInv
    BY DEF TreeInv
  <1>13. Halved(n, l, r, rg) /\ rg[n] = Keys0 /\ ~Deleted(n)
    <2>1. type[n] = "ROOT"
      BY <1>1, <1>9, <1>12 DEF SplitAt
    <2>2. pc[t] \in Splits
      BY <1>9 DEF Splits
    <2> QED
      BY <1>1, <1>2, <1>3, <1>11, <1>12, <2>1, <2>2 DEF TreeInv, Shaped, SplitAt
  <1>14. /\ e \in Entries /\ e.key = First(l) /\ e.link = l
         /\ f \in Entries /\ f.key = First(r) /\ f.link = r
    <2>1. ASSUME NEW m \in 1 .. used
          PROVE  Entry(First(m), m) \in Entries
      <3>1. m \in 0 .. MaxNodes
        BY Facts
      <3> QED
        BY <3>1, EntriesOf DEF Entry, Entries, Keys0
    <2> QED
      BY <1>5, <1>6, <1>11, <2>1 DEF Entry
  <1>15. /\ First(l) < First(r) /\ \A k \in Keys0 : First(l) <= k
    <2>1. First(l) \in Nat /\ First(r) \in Nat /\ Keys0 \subseteq Nat
      BY <1>11, EntriesOf, KeyTypes
    <2>2. rg[l] = {k \in Keys0 : k < First(r)}
      BY <1>13 DEF Halved, Shares
    <2>3. Covers(data[l], rg[l])
      BY <1>11 DEF TreeInv, Shaped
    <2>4. First(l) \in rg[l] /\ \A k \in rg[l] : First(l) <= k
      <3>1. 1 \in DOMAIN data[l]
        BY <1>11, EntriesOf
      <3> QED
        BY <2>3, <3>1 DEF Covers, First
    <2>5. First(l) < First(r)
      BY <2>2, <2>4
    <2>6. \A k \in Keys0 : First(l) <= k
      BY <2>1, <2>2, <2>4, <2>5
    <2> QED
      BY <2>5, <2>6
  <1>16. /\ rg2 \in [Node -> SUBSET Keys0] /\ rg2[new] = Keys0
         /\ \A m \in Node : m # new => rg2[m] = rg[m]
    BY <1>8, <1>10, <1>12
  <1>17. /\ d \in Seq(Entries) /\ Len(d) = 2 /\ Sorted(d) /\ Covers(d, Keys0)
         /\ Routes(d, Keys0, rg2) /\ Links(d) = {l, r}
    <2>1. rg2[l] = {k \in Keys0 : k < First(r)} /\ rg2[r] = {k \in Keys0 : k >= First(r)}
      <3>1. rg2[l] = rg[l] /\ rg2[r] = rg[r]
        BY <1>10, <1>11, <1>16
      <3> QED
        BY <1>13, <3>1 DEF Halved, Shares
    <2> QED
      BY <1>7, <1>14, <1>15, <2>1, RootEntries
  <1>18. /\ ver'[new] = LOCK + SPLIT /\ type'[new] = "ROOT" /\ data'[new] = d
         /\ \A m \in 1 .. used : ver'[m] = ver[m] /\ type'[m] = type[m]
         /\ \A m \in Node : m # new => data'[m] = data[m]
    <2>1. /\ ver \in [Node -> Nat] /\ data \in [Node -> Seq(Entries)]
          /\ type \in [Node -> {"ROOT", "INTERIOR", "LEAF"}]
      BY Facts DEF NodesInv
    <2> QED
      BY <1>9, <1>10, <2>1
  <1>19. /\ parent'[l] = new /\ parent'[r] = new
         /\ \A m \in Node \ {l, r} : parent'[m] = parent[m]
    <2>1. parent \in [Node -> 0 .. used] /\ l \in Node /\ r \in Node
      BY <1>10, <1>11, Facts DEF NodesInv
    <2> QED
      BY <1>9, <1>11, <2>1
  <1>20. pc'[t] = "swapped" /\ \A u \in Thread \ {t} : pc'[u] = pc[u]
    BY <1>9, Facts DEF DomainsInv
  <1>21. /\ \A m \in 1 .. used : Deleted(m)' <=> Deleted(m)
         /\ ~Deleted(new)'
    <2>1. ~Has(LOCK + SPLIT, DELETED)
      BY DEF Has, LOCK, SPLIT, DELETED
    <2> QED
      BY <1>18, <2>1 DEF Deleted
  <1>22. \A m \in 1 .. used : First(m)' = First(m) /\ data'[m] = data[m] /\ rg2[m] = rg[m]
    BY <1>10, <1>16, <1>18 DEF First
  <1>23. Seen(t, rg, rg2)
    <2>1. \A u \in Thread : S!Pending(u) => S!Pending(u)' /\ op(u)' = op(u)
      BY <1>9, Facts, CallsKept
    <2>2. ASSUME NEW c \in 1 .. used, c \notin Halves(t),
                 \A m \in Node : c \notin Links(data[m])
          PROVE  parent'[c] = parent[c] /\ \A m \in Node : c \notin Links(data'[m])
      BY <1>10, <1>11, <1>17, <1>18, <1>19, <2>2
    <2> QED
      BY <1>9, <1>10, <1>18, <1>20, <1>21, <1>22, <2>1, <2>2 DEF Seen
  <1>24. \A u \in Thread \ {t} : PathAt(u, rg2)' /\ SplitAt(u, rg2)'
    BY <1>23, OthersTree
  <1>25. PathAt(t, rg2)' /\ SplitAt(t, rg2)'
    <2>1. PathAt(t, rg2)'
      BY <1>20 DEF PathAt, Descending, AtLeaf
    <2>2. ~AtParent(t)' /\ ~Unlinked(t)'
      BY <1>20 DEF AtParent, Unlinked
    <2>3. ~Deleted(n)' /\ Halved(n, l, r, rg2)'
      BY <1>11, <1>13, <1>21, <1>22 DEF Halved, Shares
    <2>4. at'[t].node = n /\ at'[t].left = l /\ at'[t].right = r
      BY <1>1, <1>2, <1>3, <1>9
    <2> QED
      BY <1>20, <2>1, <2>2, <2>3, <2>4 DEF SplitAt, Splits, Building
  <1>26. \A m : Splitting(m)' <=> Splitting(m)
    BY <1>9, <1>20 DEF Splitting, Splits
  <1>27. \A m : Loose(m)' <=> Loose(m)
    <2>1. ~Unlinked(t) /\ ~Unlinked(t)'
      BY <1>9, <1>20 DEF Unlinked, AtParent
    <2>2. \A u \in Thread \ {t} :
            (Unlinked(u) <=> Unlinked(u)') /\ Halves(u)' = Halves(u)
      <3> SUFFICES ASSUME NEW u \in Thread \ {t}
                   PROVE  (Unlinked(u) <=> Unlinked(u)') /\ Halves(u)' = Halves(u)
        OBVIOUS
      <3>1. pc[u] = "insert" => at[u].node \in 1 .. used
        BY Facts
      <3> QED
        BY <1>9, <1>18, <1>20, <3>1 DEF Unlinked, AtParent, Halves
    <2> QED
      BY <2>1, <2>2 DEF Loose
  <1>28. ASSUME NEW m \in 1 .. used
         PROVE  Shaped(m, rg2)' /\ UpAt(m)' /\ DownAt(m)'
    <2>1. Shaped(m, rg2)'
      <3>1. data'[m] = data[m] /\ type'[m] = type[m] /\ rg2[m] = rg[m] /\ Shaped(m, rg)
        BY <1>18, <1>22 DEF TreeInv
      <3>2. type[m] # "LEAF" => Routes(data[m], rg[m], rg2)
        <4> SUFFICES ASSUME type[m] # "LEAF"
                     PROVE  Routes(data[m], rg[m], rg2)
          OBVIOUS
        <4>1. \A i \in DOMAIN data[m] : data[m][i].link \in 1 .. used
          BY LinkedNodes DEF Links
        <4> QED
          BY <1>22, <3>1, <4>1 DEF Shaped, Routes
      <3> QED
        BY <3>1, <3>2 DEF Shaped
    <2>2. UpAt(m)'
      <3>1. CASE m \in {l, r}
        <4>1. ~Splitting(new)
          <5>1. \A u \in Thread : pc[u] \in Splits => at[u].node \in 1 .. used
            BY HalvesNodes
          <5> QED
            BY <1>10, <5>1 DEF Splitting
        <4>2. parent'[m] = new
          BY <1>19, <3>1
        <4> QED
          BY <1>17, <1>18, <1>21, <1>26, <3>1, <4>1, <4>2 DEF UpAt
      <3>2. CASE m \notin {l, r}
        <4>1. parent'[m] = parent[m] /\ UpAt(m)
          BY <1>10, <1>19, <3>2 DEF TreeInv
        <4>2. parent[m] # NoNode => parent[m] \in 1 .. used
          <5>1. parent[m] \in 0 .. used
            BY <1>10, Facts DEF NodesInv
          <5> QED
            BY <5>1, Facts
        <4> QED
          BY <1>18, <1>21, <1>22, <1>26, <1>27, <4>1, <4>2 DEF UpAt
      <3> QED
        BY <3>1, <3>2
    <2>3. DownAt(m)'
      <3> SUFFICES ASSUME type[m] # "LEAF", ~Deleted(m), ~Splitting(m),
                          NEW c \in Links(data[m])
                   PROVE  parent'[c] = m
        BY <1>18, <1>21, <1>22, <1>26 DEF DownAt
      <3>1. parent[c] = m
        BY DEF TreeInv, DownAt
      <3>2. c \notin {l, r}
        BY <1>9, <1>10, <1>11, <1>12 DEF SplitAt, Building
      <3>3. c \in Node
        BY <1>10, LinkedNodes
      <3> QED
        BY <1>19, <3>1, <3>2, <3>3
    <2> QED
      BY <2>1, <2>2, <2>3
  <1>29. Shaped(new, rg2)' /\ UpAt(new)' /\ DownAt(new)'
    <2>1. Shaped(new, rg2)'
      <3>1. 2 <= Fanout
        BY MasstreeAssumption
      <3> QED
        BY <1>16, <1>17, <1>18, <3>1 DEF Shaped
    <2>2. parent'[new] = NoNode
      <3>1. new \notin 1 .. used /\ new # l /\ new # r
        BY <1>10, <1>11
      <3> QED
        BY <1>10, <1>12, <1>19, <3>1 DEF TopInv
    <2> QED
      BY <1>17, <1>18, <1>19, <2>1, <2>2 DEF UpAt, DownAt
  <1>30. TopInv'
    <2>1. \A m \in Node \ (1 .. new) : m \in Node \ (1 .. used)
      BY <1>10
    <2>2. l \in 1 .. used /\ r \in 1 .. used
      BY <1>11
    <2> QED
      BY ZenonT(30), <1>9, <1>12, <1>18, <1>19, <2>1, <2>2 DEF TopInv
  <1>31. TreeInv(rg2)'
    BY <1>9, <1>10, <1>16, <1>24, <1>25, <1>28, <1>29, <1>30 DEF TreeInv
  <1> QED
    BY <1>31

\* A single entry, for key 0, leads to every key.
LEMMA FirstEntry ==
  ASSUME NEW m \in 0 .. MaxNodes, NEW d, d = <<Entry(0, m)>>, NEW rg, rg[m] = Keys0
  PROVE  Sorted(d) /\ Covers(d, Keys0) /\ Len(d) = 1 /\ Routes(d, Keys0, rg)
  <1>1. PICK e : e = Entry(0, m)
    OBVIOUS
  <1>2. e \in Entries /\ e.key = 0 /\ e.link = m
    BY <1>1 DEF Entry, Entries
  <1>3. d \in Seq(Entries) /\ Len(d) = 1 /\ DOMAIN d = {1} /\ d[1] = e
    BY <1>1, <1>2
  <1>4. Sorted(d)
    BY <1>3 DEF Sorted
  <1>5. Covers(d, Keys0)
    BY <1>2, <1>3, KeyTypes DEF Covers, Keys0
  <1>6. ASSUME NEW k \in Keys0
        PROVE  Locate(d, k) = 1
    <2>1. k \in Nat /\ \A j \in DOMAIN d : d[j].key <= k <=> j <= 1
      BY <1>2, <1>3, KeyTypes
    <2>2. 1 \in 0 .. Len(d)
      BY <1>3
    <2> QED
      BY <1>3, <1>4, <2>1, <2>2, LocateIs
  <1>7. Routes(d, Keys0, rg)
    BY <1>2, <1>3, <1>6 DEF Routes
  <1> QED
    BY <1>3, <1>4, <1>5, <1>7

\* The tree that build_tree makes.
LEMMA InitTree == Init => \E rg : TreeInv(rg)
  <1> SUFFICES ASSUME Init PROVE \E rg : TreeInv(rg)
    OBVIOUS
  <1>1. PICK rg : rg = [n \in Node |-> IF n \in {1, 2} THEN Keys0 ELSE {}]
    OBVIOUS
  <1>2. /\ 1 \in Node /\ 2 \in Node /\ used = 2 /\ root = 2 /\ NoNode = 0
        /\ 0 \in 0 .. MaxNodes /\ 1 \in 0 .. MaxNodes /\ Fanout \in Nat /\ 1 <= Fanout
        /\ \A n : n \in 1 .. used <=> n \in {1, 2}
    BY Constants, MasstreeAssumption DEF Init
  <1>3. rg[1] = Keys0 /\ rg[2] = Keys0 /\ rg \in [Node -> SUBSET Keys0]
    BY <1>1, <1>2
  <1>4. /\ data[1] = <<Entry(0, NoNode)>> /\ data[2] = <<Entry(0, 1)>>
        /\ type[1] = "LEAF" /\ type[2] = "ROOT"
        /\ parent[1] = 2 /\ \A n \in Node \ {1} : parent[n] = NoNode
        /\ \A n \in Node : ver[n] = 0
        /\ \A t \in Thread : pc[t] = "idle"
    BY <1>2 DEF Init
  <1>5. Shaped(1, rg)
    <2>1. Sorted(data[1]) /\ Covers(data[1], Keys0) /\ Len(data[1]) = 1
      <3>1. PICK r : r = [n \in 0 .. MaxNodes |-> Keys0]
        OBVIOUS
      <3>2. r[0] = Keys0
        BY <1>2, <3>1
      <3> QED
        BY <1>2, <1>4, <3>2, FirstEntry
    <2> QED
      BY <1>2, <1>3, <1>4, <2>1 DEF Shaped
  <1>6. Shaped(2, rg)
    <2>1. /\ Sorted(data[2]) /\ Covers(data[2], Keys0) /\ Len(data[2]) = 1
          /\ Routes(data[2], Keys0, rg)
      BY <1>2, <1>3, <1>4, FirstEntry
    <2> QED
      BY <1>2, <1>3, <1>4, <2>1 DEF Shaped
  <1>7. UpAt(1) /\ UpAt(2) /\ DownAt(1) /\ DownAt(2)
    <2>1. ~Deleted(2)
      BY <1>2, <1>4 DEF Deleted, Has, DELETED
    <2>2. ~Splitting(2)
      BY <1>4 DEF Splitting, Splits
    <2>3. Links(data[2]) = {1}
      <3>1. PICK e : e = Entry(0, 1)
        OBVIOUS
      <3>2. e.link = 1 /\ DOMAIN data[2] = {1} /\ data[2][1] = e
        BY <1>4, <3>1 DEF Entry
      <3> QED
        BY <3>2 DEF Links
    <2> QED
      BY <1>2, <1>4, <2>1, <2>2, <2>3 DEF UpAt, DownAt
  <1>8. TopInv
    BY <1>2, <1>4 DEF TopInv
  <1>9. \A t \in Thread : PathAt(t, rg) /\ SplitAt(t, rg)
    BY <1>4 DEF PathAt, SplitAt, Descending, AtLeaf, Inserts, Splits, Building,
                AtParent, Unlinked
  <1>10. TreeInv(rg)
    BY <1>2, <1>3, <1>5, <1>6, <1>7, <1>8, <1>9 DEF TreeInv
  <1> QED
    BY <1>10

\* Every step keeps the tree in order; a split adds the ranges of the new nodes.
LEMMA NextTree ==
  ASSUME IInv, NEW rg, TreeInv(rg), [Next]_vars
  PROVE  \E rg2 : TreeInv(rg2)'
  <1>1. ASSUME NEW t \in Thread, Down(t) \/ Leaf(t)
        PROVE  TreeInv(rg)'
    BY <1>1, DescentTree, LockLeafTree, LeafReturnTree, UpdateTree DEF Leaf
  <1>2. ASSUME NEW t \in Thread, Grow(t)
        PROVE  \E rg2 : TreeInv(rg2)'
    <2>1. CASE BeginInsert(t) \/ Insert(t) \/ EndInsert(t)
      <3>1. TreeInv(rg)'
        BY <2>1, BeginInsertTree, InsertTree, LeafReturnTree
      <3> QED
        BY <3>1
    <2>2. CASE SplitLeaf(t) \/ SplitInterior(t)
      BY <2>2, SplitLeafTree, SplitInteriorTree
    <2>3. CASE LinkNext(t) \/ LoadPrev(t) \/ LinkPrev(t) \/ PrevAgain(t)
                 \/ LoadParent(t) \/ ParentAgain(t) \/ LockParent(t)
      <3>1. TreeInv(rg)'
        BY <2>3, LinkTree, LockParentTree
      <3> QED
        BY <3>1
    <2>4. CASE NewRoot(t)
      BY <2>4, NewRootTree
    <2>5. CASE OpenRoot(t) \/ Replace(t) \/ ReplaceRoot(t)
      <3>1. TreeInv(rg)'
        BY <2>5, OpenRootTree, ReplaceTree, ReplaceRootTree
      <3> QED
        BY <3>1
    <2> QED
      BY <1>2, <2>1, <2>2, <2>3, <2>4, <2>5 DEF Grow
  <1>3. ASSUME NEW t \in Thread, Start(t) \/ Replay(t)
        PROVE  TreeInv(rg)'
    <2>1. CASE Replay(t)
      <3>1. UNCHANGED <<tree, pc, at, call>>
        BY <2>1 DEF Replay
      <3> QED
        BY <3>1, StutterTree
    <2> QED
      BY <1>3, <2>1, StartTree
  <1>4. CASE UNCHANGED vars
    <2>1. UNCHANGED <<tree, pc, at, call>>
      BY <1>4 DEF vars
    <2>2. TreeInv(rg)'
      BY <2>1, StutterTree
    <2> QED
      BY <2>2
  <1> QED
    BY <1>1, <1>2, <1>3, <1>4 DEF Next, Act, Stopped

-----------------------------------------------------------------------------

\* The inductive invariant: nodes and locks are in order, and so is the tree.
OrderInv == IInv /\ \E rg : TreeInv(rg)

\* A thread's key belongs to the node it is at, so the node has an entry for it.
LEMMA OrderInvLocates == OrderInv => LocateFinds
  BY TreeLocates DEF OrderInv

\* Every step keeps both parts.
LEMMA NextOrderInv == OrderInv /\ [Next]_vars => OrderInv'
  <1> SUFFICES ASSUME OrderInv, [Next]_vars PROVE OrderInv'
    OBVIOUS
  <1>1. IInv'
    BY OrderInvLocates, NextIInv DEF OrderInv
  <1>2. \E rg2 : TreeInv(rg2)'
    BY NextTree DEF OrderInv
  <1> QED
    BY <1>1, <1>2 DEF OrderInv

\* So the invariant always holds.
LEMMA AlwaysOrderInv == Spec => []OrderInv
  <1>1. Init => OrderInv
    BY InitIInv, InitTree DEF OrderInv
  <1> QED
    BY <1>1, NextOrderInv, PTL DEF Spec

\* Every variable has its type.
THEOREM TypeCorrect == Spec => []TypeOK
  <1>1. OrderInv => TypeOK
    BY IInvTypes DEF OrderInv
  <1> QED
    BY <1>1, AlwaysOrderInv, PTL

\* The lock bits tell who works on a node: no thread enters a node that another
\* one has locked, whichever node it has followed a link to, and each one has
\* unlocked, with no bit of the version left over, what it had locked.
THEOREM LocksStayOwned == Spec => []LocksOwned
  <1>1. OrderInv => LocksOwned
    BY DEF OrderInv, IInv
  <1> QED
    BY <1>1, AlwaysOrderInv, PTL

\* Node::Data::locate never aborts: whatever node is split meanwhile, a descent
\* and an operation at its leaf only come to nodes that their key belongs to.
THEOREM LocateNeverFails == Spec => []LocateFinds
  BY OrderInvLocates, AlwaysOrderInv, PTL
=============================================================================
