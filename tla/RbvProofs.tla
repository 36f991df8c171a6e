----------------------------- MODULE RbvProofs -----------------------------
(***************************************************************************)
(* Proofs about Rbv, for any threads, work, keys and buckets: the types,   *)
(* the framing of the connections, and that the records forwarded tell     *)
(* what the primary did.                                                   *)
(*                                                                         *)
(* The invariant has four layers.  ControlInv: who is in a bucket holds    *)
(* its mutex.  DataInv: chains hold a key once, with a value that was set  *)
(* for it by an operation that has taken effect, and a thread stamps its   *)
(* record once when it enters a bucket and once when it leaves.  FrameInv: *)
(* the lines on a connection cycle.  LogInv(L, A): the log L[b] of the     *)
(* operations of a bucket and their outcomes A[b].  The code keeps no such *)
(* log, so the invariant says that there is one; each operation on a       *)
(* bucket extends it (LogOperate), every other step keeps it (LogQuiet).   *)
(* The records of the bucket are the operations of its log, stamped with   *)
(* their positions (StampInv), and replaying them can only give A[b],      *)
(* because a function that runs the log is A[b] as far as it goes (RunInv).*)
(***************************************************************************)
EXTENDS Rbv, FiniteSetTheorems, SequenceTheorems, TLAPS

-----------------------------------------------------------------------------
(* Types. *)

Packet == [kind : {"get", "set", "del", "other"}, key : Key]
Entry == [key : Key, val : Value]
Hash == Seq(Key \cup Value)
Record == [info : Seq([hash : Hash, time : Nat]), latest : Hash]
Answers == ({"value"} \X Value)
             \cup {<<w>> : w \in {"notfound", "stored", "created", "deleted",
                                  "error", "garbage"}}
Outcomes == [hash : Hash, result : Answers, chain : Seq(Entry), freed : SUBSET Value]
Wired == [kind : {"record", "packet", "empty"}, record : Record, op : Value]
Logged == [op : Packet, id : Value]
Labels == {"read", "body", "leave", "reply", "send", "answer"}

\* Variables have their types; who is in a bucket holds its mutex, and has a
\* packet to work on.
ControlInv ==
  /\ mutex \in [Bucket -> Group \cup {Free}] /\ order \in [Bucket -> Nat]
  /\ pc \in [Group -> Labels] /\ done \in [Group -> Nat]
  /\ \A g \in Group : /\ done[g] <= Len(Work[g])
                      /\ pc[g] # "read" => done[g] < Len(Work[g])
                      /\ pc[g] \in {"body", "leave", "reply"} => Op(g).kind # "other"
                      /\ pc[g] \in {"body", "leave"} => mutex[BucketOf(g)] = g
  /\ \A b \in Bucket : mutex[b] # Free =>
       /\ pc[mutex[b]] \in {"body", "leave"} /\ BucketOf(mutex[b]) = b

\* The lines on a connection, in the order the replica expects them, begin with
\* the one it is to read next.
Phase(g) == IF line[g] = "read" THEN 2 ELSE IF validation[g] THEN 1 ELSE 0
Kind(n) == CASE n % 3 = 0 -> "record" [] n % 3 = 1 -> "packet" [] n % 3 = 2 -> "empty"
FrameInv ==
  /\ wire \in [Group -> Seq(Wired)] /\ record \in [Group -> Record]
  /\ validation \in [Group -> BOOLEAN] /\ line \in [Group -> {"none", "read"}]
  /\ executed = {}
  /\ \A g \in Group :
       /\ line[g] = "read" => validation[g]
       /\ (Phase(g) + Len(wire[g])) % 3 = 0
       /\ \A i \in DOMAIN wire[g] : wire[g][i].kind = Kind(Phase(g) + i - 1)

-----------------------------------------------------------------------------
(* What was done: L[b] are the operations on bucket b, in the order in which *)
(* they took effect, and A[b] what each of them did.                         *)

Nothing == Did(<<>>, <<>>, <<>>, {})
Runs(f, log, k) ==
  /\ f[0] = Nothing
  /\ \A n \in 1 .. k : f[n] = Outcome(f[n - 1].chain, log[n].op, log[n].id)

OpOf(v) == Work[v[1]][v[2]]
Vals(c) == {c[i].val : i \in DOMAIN c}

\* A chain of bucket b holds a key once, with a value that was set for it.
Proper(c, b) ==
  /\ c \in Seq(Entry)
  /\ \A i \in DOMAIN c : /\ HashOf[c[i].key] = b
                         /\ OpOf(c[i].val) = [kind |-> "set", key |-> c[i].key]
  /\ \A i, j \in DOMAIN c : c[i].key = c[j].key => i = j

\* What the proofs need of what an operation does.
Does(c, b, op, v, out) ==
  /\ out \in Outcomes
  /\ Proper(out.chain, b)
  /\ Vals(out.chain) \subseteq Vals(c) \cup {v}
  /\ out.freed \subseteq Vals(c)
  /\ out.freed \cap Vals(out.chain) = {}
  /\ \A u \in out.freed : op.kind = "set" /\ OpOf(u).key = op.key
  /\ out.result[1] = "value" =>
       /\ out.chain = c
       /\ out.result[2] \in Vals(c) /\ OpOf(out.result[2]).key = op.key

\* The operation with this value has taken effect.
Past(v) == \/ v[2] <= done[v[1]]
           \/ v[2] = done[v[1]] + 1 /\ pc[v[1]] \in {"leave", "reply", "send", "answer"}

\* How often the record of a thread is stamped by now.
Stampings(g) ==
  IF pc[g] \in {"body", "leave"} THEN 1
  ELSE IF pc[g] = "reply" \/ (pc[g] = "send" /\ Op(g).kind # "other") THEN 2 ELSE 0

DataInv ==
  /\ chain \in [Bucket -> Seq(Entry)] /\ freed \subseteq Value
  /\ hasher \in [Group -> Record] /\ result \in [Group -> Answers]
  /\ reply \in [Group -> Answers]
  /\ answered \in [Group -> Seq(Answers)]
  /\ sent \in [Group -> Seq(Record)]
  /\ \A b \in Bucket : Proper(chain[b], b) /\ \A v \in Vals(chain[b]) : Past(v)
  /\ \A g \in Group :
       /\ Len(answered[g]) = done[g]
       /\ Len(sent[g]) = done[g] + (IF pc[g] = "answer" THEN 1 ELSE 0)
       /\ Len(hasher[g].info) = Stampings(g)
       /\ pc[g] \notin {"body", "leave", "reply", "send"} => hasher[g] = Fresh

RunInv(b, L, A) ==
  /\ Runs(A, L, Len(L))
  /\ \A f : \A k \in 0 .. Len(L) : Runs(f, L, k) => f[k] = A[k]
  /\ \A n \in 1 .. Len(L) :
       /\ L[n].op = OpOf(L[n].id) /\ HashOf[L[n].op.key] = b
       /\ L[n].op.kind # "other"
       /\ Does(A[n - 1].chain, b, L[n].op, L[n].id, A[n])
  /\ \A m \in 1 .. Len(L) : \A n \in m .. Len(L) :
       A[m].freed \cap Vals(A[n].chain) = {}

\* What has been done is what the bucket shows.
StateInv(b, L, A) ==
  /\ chain[b] = A[Len(L)].chain
  /\ \A n \in 1 .. Len(L) : Past(L[n].id)
  /\ \A n \in 0 .. Len(L) : \A v \in Vals(A[n].chain) : Past(v)

\* All of them but one that is still in the bucket have stamped it twice.
Closed(b, L) ==
  IF mutex[b] # Free /\ pc[mutex[b]] = "leave" THEN Len(L) - 1 ELSE Len(L)

Stamps(n, hash) == <<[hash |-> <<>>, time |-> 2 * n - 2], [hash |-> hash, time |-> 2 * n - 1]>>
Stamped(n, L, A) == [op |-> L[n].op, id |-> L[n].id, info |-> Stamps(n, A[n].hash)]

StampInv(b, L, A) ==
  /\ order[b] = 2 * Closed(b, L) + (IF mutex[b] = Free THEN 0 ELSE 1)
  /\ Records(b) = {Stamped(n, L, A) : n \in 1 .. Closed(b, L)}

InBucket(g, L, A) ==
  LET n == Len(L) IN
  /\ pc[g] = "body" => hasher[g] = [info |-> <<[hash |-> <<>>, time |-> 2 * n]>>, latest |-> <<>>]
  /\ pc[g] = "leave" =>
       /\ n > 0 /\ L[n] = [op |-> Op(g), id |-> Id(g)]
       /\ hasher[g] = [info |-> <<[hash |-> <<>>, time |-> 2 * n - 2]>>, latest |-> A[n].hash]

\* The answer to operation n is right, but for a value that was set again since.
Good(n, a, L, A) ==
  \/ a = A[n].result
  \/ /\ a = <<"garbage">> /\ A[n].result[1] = "value"
     /\ \E m \in n + 1 .. Len(L) : L[m].op = [kind |-> "set", key |-> L[n].op.key]

AnswerAt(n, g, i, L, A) ==
  /\ i <= done[g] => Good(n, answered[g][i], L, A)
  /\ i = done[g] + 1 /\ pc[g] \in {"leave", "reply"} => result[g] = A[n].result
  /\ i = done[g] + 1 /\ pc[g] \in {"send", "answer"} => Good(n, reply[g], L, A)
AnswerInv(L, A) == \A n \in 1 .. Len(L) : AnswerAt(n, L[n].id[1], L[n].id[2], L, A)

LogInv(L, A) ==
  /\ L \in [Bucket -> Seq(Logged)]
  /\ \A b \in Bucket : /\ RunInv(b, L[b], A[b]) /\ StateInv(b, L[b], A[b])
                       /\ StampInv(b, L[b], A[b]) /\ AnswerInv(L[b], A[b])
  /\ \A g \in Group : pc[g] \in {"body", "leave"} =>
       InBucket(g, L[BucketOf(g)], A[BucketOf(g)])
  /\ \A v \in freed : \E b \in Bucket : \E m \in 1 .. Len(L[b]) : v \in A[b][m].freed

-----------------------------------------------------------------------------
(* What an operation on a chain does. *)

\* A key that is there is at its position.
LEMMA AtPosition ==
  ASSUME NEW c \in Seq(Entry), NEW k \in Key, Holds(c, k)
  PROVE  /\ Position(c, k) \in 1 .. Len(c)
         /\ c[Position(c, k)].key = k
         /\ c[Position(c, k)].val \in Value
         /\ c[Position(c, k)].val \in Vals(c)
<1>1. \E i \in DOMAIN c : c[i].key = k  BY DEF Holds
<1>2. Position(c, k) \in DOMAIN c /\ c[Position(c, k)].key = k  BY <1>1 DEF Position
<1>3. Position(c, k) \in 1 .. Len(c)  BY <1>2
<1>4. c[Position(c, k)] \in Entry  BY <1>3
<1> QED  BY <1>2, <1>3, <1>4 DEF Entry, Vals

\* What hasher_t records of a walk along a chain.
LEMMA WalkIsHash ==
  ASSUME NEW c \in Seq(Entry), NEW k \in Key
  PROVE  Walk(c, k) \in Seq(Key \cup Value)
<1> DEFINE n == IF Holds(c, k) THEN Position(c, k) ELSE Len(c)
<1>1. n \in 0 .. Len(c)  BY AtPosition
<1>2. \A i \in 1 .. Len(c) : c[i] \in Entry  OBVIOUS
<1>4. Len(c) \in Nat  OBVIOUS
<1>3. Walk(c, k) = [i \in 1 .. n |-> c[i].key]  BY DEF Walk
<1> HIDE DEF n
<1>5. \A i \in 1 .. n : c[i].key \in Key \cup Value  BY <1>1, <1>2, <1>4 DEF Entry
<1> QED  BY <1>1, <1>3, <1>4, <1>5

\* Removing an entry from a chain, entry by entry.
LEMMA Removed ==
  ASSUME NEW c \in Seq(Entry), NEW p \in 1 .. Len(c)
  PROVE  LET r == SubSeq(c, 1, p - 1) \o SubSeq(c, p + 1, Len(c)) IN
         /\ r \in Seq(Entry) /\ Len(r) = Len(c) - 1
         /\ \A i \in 1 .. Len(c) - 1 : r[i] = IF i < p THEN c[i] ELSE c[i + 1]
<1> DEFINE x == SubSeq(c, 1, p - 1)
           y == SubSeq(c, p + 1, Len(c))
<1>1. x \in Seq(Entry) /\ Len(x) = p - 1 /\ \A i \in 1 .. p - 1 : x[i] = c[i]
  OBVIOUS
<1>2. y \in Seq(Entry) /\ Len(y) = Len(c) - p /\ \A i \in 1 .. Len(c) - p : y[i] = c[p + i]
  OBVIOUS
<1> HIDE DEF x, y
<1>3. x \o y \in Seq(Entry) /\ Len(x \o y) = Len(c) - 1  BY <1>1, <1>2
<1>4. ASSUME NEW i \in 1 .. Len(c) - 1
      PROVE  (x \o y)[i] = IF i < p THEN c[i] ELSE c[i + 1]
  <2>1. CASE i < p  BY <1>1, <1>2, <2>1
  <2>2. CASE i >= p
    <3>1. (x \o y)[i] = y[i - (p - 1)]  BY <1>1, <1>2, <2>2
    <3>2. i - (p - 1) \in 1 .. Len(c) - p /\ p + (i - (p - 1)) = i + 1  BY <2>2
    <3> QED  BY <1>2, <2>2, <3>1, <3>2
  <2>3. i < p \/ i >= p  OBVIOUS
  <2> QED  BY <2>1, <2>2, <2>3
<1> QED  BY <1>3, <1>4 DEF x, y

\* Adding an entry in front of a chain, entry by entry.
LEMMA Added ==
  ASSUME NEW c \in Seq(Entry), NEW e \in Entry
  PROVE  LET r == <<e>> \o c IN
         /\ r \in Seq(Entry) /\ Len(r) = Len(c) + 1
         /\ r[1] = e /\ \A i \in 2 .. Len(c) + 1 : r[i] = c[i - 1]
<1>1. <<e>> \in Seq(Entry) /\ Len(<<e>>) = 1 /\ <<e>>[1] = e  OBVIOUS
<1> QED  BY <1>1

\* The values of a chain are values.
LEMMA ValsTyped ==
  ASSUME NEW c \in Seq(Entry) PROVE Vals(c) \subseteq Value
<1>1. \A i \in DOMAIN c : c[i] \in Entry  OBVIOUS
<1> QED  BY <1>1 DEF Vals, Entry

\* hashmap_t::get: the chain stays, and a value is found only for its key.
LEMMA GetDoes ==
  ASSUME NEW b \in Bucket, NEW c, Proper(c, b), NEW op \in Packet, NEW v \in Value
  PROVE  Does(c, b, op, v, Get(c, op.key))
<1> DEFINE k == op.key
           p == Position(c, k)
<1>1. c \in Seq(Entry) /\ k \in Key  BY DEF Proper, Packet
<1>2. Walk(c, k) \in Seq(Key \cup Value)  BY <1>1, WalkIsHash
<1>3. CASE Holds(c, k)
  <2>1. /\ p \in 1 .. Len(c) /\ c[p].key = k /\ c[p].val \in Value
        /\ c[p].val \in Vals(c)
    BY <1>1, <1>3, AtPosition
  <2> DEFINE out == Did(Append(Walk(c, k), c[p].val), <<"value", c[p].val>>, c, {})
  <2>2. Get(c, op.key) = out  BY <1>3 DEF Get
  <2>3. out.result = <<"value", c[p].val>> /\ out.chain = c /\ out.freed = {}  BY DEF Did
  <2>4. Append(Walk(c, k), c[p].val) \in Seq(Key \cup Value)  BY <1>2, <2>1
  <2>5. <<"value", c[p].val>> \in Answers  BY <2>1 DEF Answers
  <2>6. out \in Outcomes  BY <1>1, <2>4, <2>5 DEF Did, Outcomes, Hash
  <2> HIDE DEF out, p, k
  <2>8. p \in DOMAIN c  BY <1>1, <2>1
  <2>9. OpOf(c[p].val) = [kind |-> "set", key |-> c[p].key]  BY <2>8 DEF Proper
  <2>10. [kind |-> "set", key |-> c[p].key].key = c[p].key  OBVIOUS
  <2>7. OpOf(c[p].val).key = k  BY <2>1, <2>9, <2>10
  <2> QED  BY <2>1, <2>2, <2>3, <2>6, <2>7 DEF Does, k
<1>4. CASE ~Holds(c, k)
  <2> DEFINE out == Did(Walk(c, k), <<"notfound">>, c, {})
  <2>1. Get(c, op.key) = out  BY <1>4 DEF Get
  <2>2. out.result = <<"notfound">> /\ out.chain = c /\ out.freed = {}  BY DEF Did
  <2>3. <<"notfound">> \in Answers  BY DEF Answers
  <2>4. out \in Outcomes  BY <1>1, <1>2, <2>3 DEF Did, Outcomes, Hash
  <2>5. out.result[1] # "value"  BY <2>2
  <2> HIDE DEF out
  <2> QED  BY <2>1, <2>2, <2>4, <2>5 DEF Does
<1> QED  BY <1>3, <1>4
\* hashmap_t::set: the value replaces that of the key, which is freed, or is added.
LEMMA SetDoes ==
  ASSUME NEW b \in Bucket, NEW c, Proper(c, b), NEW op \in Packet, NEW v \in Value,
         op.kind = "set", HashOf[op.key] = b, OpOf(v) = op, v \notin Vals(c)
  PROVE  Does(c, b, op, v, Set(c, op.key, v))
<1> DEFINE k == op.key
           p == Position(c, k)
<1>1. c \in Seq(Entry) /\ k \in Key /\ Len(c) \in Nat  BY DEF Proper, Packet
<1>2. Walk(c, k) \in Seq(Key \cup Value)  BY <1>1, WalkIsHash
<1>3. op = [kind |-> "set", key |-> k]  BY DEF Packet
<1>a. \A i \in 1 .. Len(c) : c[i] \in Entry /\ c[i].val \in Vals(c)  BY <1>1 DEF Vals
<1>4. CASE Holds(c, k)
  <2>1. /\ p \in 1 .. Len(c) /\ c[p].key = k /\ c[p].val \in Value
        /\ c[p].val \in Vals(c)
    BY <1>1, <1>4, AtPosition
  <2> DEFINE new == [c EXCEPT ![p].val = v]
             out == Did(Append(Walk(c, k), c[p].val), <<"stored">>, new, {c[p].val})
  <2>2. Set(c, op.key, v) = out  BY <1>4 DEF Set
  <2>3. out.result = <<"stored">> /\ out.chain = new /\ out.freed = {c[p].val}  BY DEF Did
  <2>4. Append(Walk(c, k), c[p].val) \in Seq(Key \cup Value)  BY <1>2, <2>1
  <2>5. <<"stored">> \in Answers  BY DEF Answers
  <2>6. /\ new \in Seq(Entry) /\ DOMAIN new = 1 .. Len(c)
        /\ \A i \in 1 .. Len(c) : /\ new[i].key = c[i].key
                                  /\ i # p => new[i].val = c[i].val
        /\ new[p].val = v
    <3>1. [c[p] EXCEPT !.val = v] \in Entry /\ [c[p] EXCEPT !.val = v].key = c[p].key
          /\ [c[p] EXCEPT !.val = v].val = v
      BY <1>a, <2>1 DEF Entry
    <3>2. new = [c EXCEPT ![p] = [c[p] EXCEPT !.val = v]]  OBVIOUS
    <3> DEFINE e == [c[p] EXCEPT !.val = v]
    <3> HIDE DEF e, new, p
    <3>3. new \in Seq(Entry) /\ DOMAIN new = 1 .. Len(c)  BY <1>1, <2>1, <3>1, <3>2 DEF e
    <3>4. new[p] = e /\ \A i \in 1 .. Len(c) : i # p => new[i] = c[i]
      BY <1>1, <2>1, <3>2 DEF e
    <3> QED  BY <3>1, <3>3, <3>4 DEF e
  <2>7. out \in Outcomes  BY <2>1, <2>4, <2>5, <2>6 DEF Did, Outcomes, Hash
  <2> HIDE DEF out, p, k, new
  <2>a. p \in DOMAIN c  BY <1>1, <2>1
  <2>b. OpOf(c[p].val) = [kind |-> "set", key |-> c[p].key]  BY <2>a DEF Proper
  <2>c. [kind |-> "set", key |-> c[p].key].key = c[p].key  OBVIOUS
  <2>8. OpOf(c[p].val).key = k  BY <2>1, <2>b, <2>c
  <2>9. Proper(new, b)
    <3>1. ASSUME NEW i \in DOMAIN new
          PROVE  /\ HashOf[new[i].key] = b
                 /\ OpOf(new[i].val) = [kind |-> "set", key |-> new[i].key]
      <4>1. i \in DOMAIN c  BY <1>1, <2>6
      <4>2. CASE i = p  BY <1>3, <2>1, <2>6, <4>1, <4>2 DEF Proper, k
      <4>3. CASE i # p  BY <2>6, <4>1, <4>3 DEF Proper
      <4> QED  BY <4>2, <4>3
    <3>2. ASSUME NEW i \in DOMAIN new, NEW j \in DOMAIN new, new[i].key = new[j].key
          PROVE  i = j
      <4>1. i \in DOMAIN c /\ j \in DOMAIN c  BY <1>1, <2>6
      <4> QED  BY <2>6, <3>2, <4>1 DEF Proper
    <3> QED  BY <2>6, <3>1, <3>2 DEF Proper
  <2>10. Vals(new) \subseteq Vals(c) \cup {v}
    <3>1. ASSUME NEW i \in DOMAIN new PROVE new[i].val \in Vals(c) \cup {v}
      <4>1. CASE i = p  BY <2>6, <4>1
      <4>2. CASE i # p  BY <1>a, <2>6, <4>2
      <4> QED  BY <4>1, <4>2
    <3> QED  BY <3>1 DEF Vals
  <2>11. c[p].val \notin Vals(new)
    <3>1. ASSUME NEW i \in DOMAIN new, new[i].val = c[p].val PROVE FALSE
      <4>1. CASE i = p  BY <2>1, <2>6, <3>1, <4>1
      <4>2. CASE i # p
        <5>1. i \in DOMAIN c /\ p \in DOMAIN c  BY <1>1, <2>1, <2>6
        <5>2. new[i].val = c[i].val  BY <2>6, <4>2
        <5>3. OpOf(c[i].val) = [kind |-> "set", key |-> c[i].key]  BY <5>1 DEF Proper
        <5>4. c[i].key = c[p].key  BY <2>b, <3>1, <5>2, <5>3
        <5> QED  BY <4>2, <5>1, <5>4 DEF Proper
      <4> QED  BY <4>1, <4>2
    <3> QED  BY <3>1 DEF Vals
  <2>12. out.result[1] # "value"  BY <2>3
  <2> QED  BY <2>1, <2>2, <2>3, <2>7, <2>8, <2>9, <2>10, <2>11, <2>12 DEF Does, k
<1>5. CASE ~Holds(c, k)
  <2> DEFINE e == [key |-> k, val |-> v]
             new == <<e>> \o c
             out == Did(Walk(c, k) \o <<k, v, k>>, <<"created">>, new, {})
  <2>1. Set(c, op.key, v) = out  BY <1>5 DEF Set
  <2>2. out.result = <<"created">> /\ out.chain = new /\ out.freed = {}  BY DEF Did
  <2>3. Walk(c, k) \o <<k, v, k>> \in Seq(Key \cup Value)
    <3>1. <<k, v, k>> \in Seq(Key \cup Value)  BY <1>1
    <3> QED  BY <1>2, <3>1
  <2>4. <<"created">> \in Answers  BY DEF Answers
  <2>5. e \in Entry /\ e.key = k /\ e.val = v  BY <1>1 DEF Entry
  <2> HIDE DEF e, k
  <2>6. /\ new \in Seq(Entry) /\ Len(new) = Len(c) + 1
        /\ new[1] = e /\ \A i \in 2 .. Len(c) + 1 : new[i] = c[i - 1]
    BY <1>1, <2>5, Added
  <2>7. out \in Outcomes  BY <2>3, <2>4, <2>6 DEF Did, Outcomes, Hash
  <2> HIDE DEF out, new
  <2>8. \A i \in DOMAIN new : i \in 1 .. Len(c) + 1 /\ (i # 1 => i - 1 \in DOMAIN c /\ new[i] = c[i - 1])
    BY <1>1, <2>6
  <2>b. \A i \in DOMAIN c : c[i].key # k  BY <1>5 DEF Holds
  <2>9. Proper(new, b)
    <3>1. ASSUME NEW i \in DOMAIN new
          PROVE  /\ HashOf[new[i].key] = b
                 /\ OpOf(new[i].val) = [kind |-> "set", key |-> new[i].key]
      <4>1. CASE i = 1  BY <1>3, <2>5, <2>6, <4>1 DEF k
      <4>2. CASE i # 1  BY <2>8, <4>2 DEF Proper
      <4> QED  BY <4>1, <4>2
    <3>2. ASSUME NEW i \in DOMAIN new, NEW j \in DOMAIN new, new[i].key = new[j].key
          PROVE  i = j
      <4>1. CASE i = 1 /\ j = 1  BY <4>1
      <4>2. CASE i = 1 /\ j # 1  BY <2>5, <2>6, <2>8, <2>b, <3>2, <4>2
      <4>3. CASE i # 1 /\ j = 1  BY <2>5, <2>6, <2>8, <2>b, <3>2, <4>3
      <4>4. CASE i # 1 /\ j # 1
        <5>1. i - 1 = j - 1  BY <2>8, <3>2, <4>4 DEF Proper
        <5> QED  BY <2>8, <5>1
      <4> QED  BY <4>1, <4>2, <4>3, <4>4
    <3> QED  BY <2>6, <3>1, <3>2 DEF Proper
  <2>10. Vals(new) \subseteq Vals(c) \cup {v}
    <3>1. ASSUME NEW i \in DOMAIN new PROVE new[i].val \in Vals(c) \cup {v}
      <4>1. CASE i = 1  BY <2>5, <2>6, <4>1
      <4>2. CASE i # 1  BY <2>8, <4>2 DEF Vals
      <4> QED  BY <4>1, <4>2
    <3> QED  BY <3>1 DEF Vals
  <2>11. out.result[1] # "value"  BY <2>2
  <2> QED  BY <2>1, <2>2, <2>7, <2>9, <2>10, <2>11 DEF Does
<1> QED  BY <1>4, <1>5

\* hashmap_t::del: the entry of the key goes and nothing is freed.
LEMMA DelDoes ==
  ASSUME NEW b \in Bucket, NEW c, Proper(c, b), NEW op \in Packet, NEW v \in Value
  PROVE  Does(c, b, op, v, Del(c, op.key))
<1> DEFINE k == op.key
           p == Position(c, k)
<1>1. c \in Seq(Entry) /\ k \in Key /\ Len(c) \in Nat  BY DEF Proper, Packet
<1>2. Walk(c, k) \in Seq(Key \cup Value)  BY <1>1, WalkIsHash
<1>3. CASE Holds(c, k)
  <2>1. /\ p \in 1 .. Len(c) /\ c[p].key = k /\ c[p].val \in Value
    BY <1>1, <1>3, AtPosition
  <2> DEFINE new == SubSeq(c, 1, p - 1) \o SubSeq(c, p + 1, Len(c))
             out == Did(Append(Walk(c, k), c[p].val), <<"deleted">>, new, {})
  <2>2. Del(c, op.key) = out  BY <1>3 DEF Del
  <2>3. out.result = <<"deleted">> /\ out.chain = new /\ out.freed = {}  BY DEF Did
  <2>4. Append(Walk(c, k), c[p].val) \in Seq(Key \cup Value)  BY <1>2, <2>1
  <2>5. <<"deleted">> \in Answers  BY DEF Answers
  <2> HIDE DEF p, k
  <2>6. /\ new \in Seq(Entry) /\ Len(new) = Len(c) - 1
        /\ \A i \in 1 .. Len(c) - 1 : new[i] = IF i < p THEN c[i] ELSE c[i + 1]
    BY <1>1, <2>1, Removed
  <2>7. out \in Outcomes  BY <2>4, <2>5, <2>6 DEF Did, Outcomes, Hash
  <2> DEFINE at(i) == IF i < p THEN i ELSE i + 1
  <2> HIDE DEF out, new
  <2>8. \A i \in DOMAIN new : i \in Nat /\ at(i) \in DOMAIN c /\ new[i] = c[at(i)]
    BY <1>1, <2>1, <2>6
  <2>9. \A i, j \in DOMAIN new : at(i) = at(j) => i = j  BY <2>1, <2>8
  <2> HIDE DEF at
  <2>10. Proper(new, b)  BY <2>6, <2>8, <2>9 DEF Proper
  <2>11. Vals(new) \subseteq Vals(c)  BY <2>8 DEF Vals
  <2>12. out.result[1] # "value"  BY <2>3
  <2> QED  BY <2>2, <2>3, <2>7, <2>10, <2>11, <2>12 DEF Does
<1>4. CASE ~Holds(c, k)
  <2> DEFINE out == Did(Walk(c, k), <<"notfound">>, c, {})
  <2>1. Del(c, op.key) = out  BY <1>4 DEF Del
  <2>2. out.result = <<"notfound">> /\ out.chain = c /\ out.freed = {}  BY DEF Did
  <2>3. <<"notfound">> \in Answers  BY DEF Answers
  <2>4. out \in Outcomes  BY <1>1, <1>2, <2>3 DEF Did, Outcomes, Hash
  <2>5. out.result[1] # "value"  BY <2>2
  <2> HIDE DEF out
  <2> QED  BY <2>1, <2>2, <2>4, <2>5 DEF Does
<1> QED  BY <1>3, <1>4

\* The three together.
LEMMA OutcomeDoes ==
  ASSUME NEW b \in Bucket, NEW c, Proper(c, b), NEW op \in Packet, NEW v \in Value,
         op.kind # "other", HashOf[op.key] = b, OpOf(v) = op, v \notin Vals(c)
  PROVE  Does(c, b, op, v, Outcome(c, op, v))
<1>1. op.kind \in {"get", "set", "del"}  BY DEF Packet
<1>2. CASE op.kind = "get"  BY <1>2, GetDoes DEF Outcome
<1>3. CASE op.kind = "set"  BY <1>3, SetDoes DEF Outcome
<1>4. CASE op.kind = "del"  BY <1>4, DelDoes DEF Outcome
<1> QED  BY <1>1, <1>2, <1>3, <1>4

-----------------------------------------------------------------------------
(* Threads, packets and mutexes. *)

\* A thread that is not done has an operation, named by its place.
LEMMA Working ==
  ASSUME NEW g \in Group, done \in [Group -> Nat], done[g] < Len(Work[g])
  PROVE  /\ Op(g) \in Packet /\ BucketOf(g) \in Bucket
         /\ Id(g) \in Value /\ OpOf(Id(g)) = Op(g)
         /\ Id(g)[1] = g /\ Id(g)[2] = done[g] + 1
<1>a. Work[g] \in Seq(Packet)  BY RbvAssumption DEF Packet
<1>1. done[g] + 1 \in 1 .. Len(Work[g])  BY <1>a
<1>2. Op(g) \in Packet  BY <1>1, <1>a DEF Op
<1>3. BucketOf(g) \in Bucket  BY <1>2, RbvAssumption DEF BucketOf, Packet
<1>4. Id(g) \in {g} \X (1 .. Len(Work[g]))  BY <1>1 DEF Id
<1>5. Id(g) \in Value  BY <1>4 DEF Value
<1> QED  BY <1>2, <1>3, <1>5 DEF OpOf, Op, Id

\* At the start no mutex is held and no thread has begun.
LEMMA ControlInit == Init => ControlInv
<1> SUFFICES ASSUME Init PROVE ControlInv  OBVIOUS
<1>1. \A g \in Group : Work[g] \in Seq(Packet)  BY RbvAssumption DEF Packet
<1>2. \A g \in Group : 0 <= Len(Work[g])  BY <1>1
<1> QED  BY <1>2 DEF Init, ControlInv, Labels

\* Only the thread that is in a bucket lets it go, and none enters one that
\* another is in.
LEMMA ControlNext == ControlInv /\ [Next]_vars => ControlInv'
<1> SUFFICES ASSUME ControlInv, [Next]_vars PROVE ControlInv'  OBVIOUS
<1> USE DEF ControlInv
<1>1. ASSUME NEW g \in Group, NoOperation(g) PROVE ControlInv'
  BY <1>1 DEF NoOperation, Go, Labels, Op, BucketOf
<1>2. ASSUME NEW g \in Group, Enter(g) PROVE ControlInv'
  <2>1. BucketOf(g) \in Bucket  BY <1>2, Working DEF Enter
  <2>2. \A h \in Group : Op(h)' = Op(h) /\ BucketOf(h)' = BucketOf(h)
    BY <1>2 DEF Enter, Op, BucketOf
  <2>3. pc[g] = "read" /\ mutex[BucketOf(g)] = Free /\ Op(g).kind # "other"
        /\ pc' = [pc EXCEPT ![g] = "body"] /\ mutex' = [mutex EXCEPT ![BucketOf(g)] = g]
        /\ done' = done /\ done[g] < Len(Work[g])
    BY <1>2 DEF Enter, Go
  <2>4. order' \in [Bucket -> Nat]  BY <1>2, <2>1 DEF Enter, Stamp
  <2>5. ASSUME NEW h \in Group
        PROVE  (/\ done[h] <= Len(Work[h])
                /\ pc[h] # "read" => done[h] < Len(Work[h])
                /\ pc[h] \in {"body", "leave", "reply"} => Op(h).kind # "other"
                /\ pc[h] \in {"body", "leave"} => mutex[BucketOf(h)] = h)'
    BY <2>1, <2>2, <2>3, RbvAssumption DEF Labels
  <2>6. ASSUME NEW b \in Bucket, mutex'[b] # Free
        PROVE  (pc[mutex[b]] \in {"body", "leave"} /\ BucketOf(mutex[b]) = b)'
    <3>1. CASE b = BucketOf(g)
      <4>1. mutex'[b] = g /\ pc'[g] = "body" /\ BucketOf(g)' = b  BY <2>1, <2>2, <2>3, <3>1
      <4> QED  BY <4>1 DEF BucketOf, Op
    <3>2. CASE b # BucketOf(g)
      <4>1. mutex'[b] = mutex[b] /\ mutex[b] \in Group /\ mutex[b] # g  BY <2>1, <2>3, <2>6, <3>2
      <4>2. PICK h \in Group : h = mutex[b]  BY <4>1
      <4>3. pc'[h] \in {"body", "leave"} /\ BucketOf(h)' = b  BY <2>2, <2>3, <2>6, <4>1, <4>2
      <4> QED  BY <4>1, <4>2, <4>3 DEF BucketOf, Op
    <3> QED  BY <3>1, <3>2
  <2>7. mutex' \in [Bucket -> Group \cup {Free}] /\ pc' \in [Group -> Labels]
    BY <2>1, <2>3 DEF Labels
  <2> QED  BY <2>3, <2>4, <2>5, <2>6, <2>7
<1>3. ASSUME NEW g \in Group, Operate(g) PROVE ControlInv'
  <2>1. /\ pc[g] = "body" /\ pc' = [pc EXCEPT ![g] = "leave"]
        /\ mutex' = mutex /\ order' = order /\ done' = done
    BY <1>3 DEF Operate, Go
  <2> QED  BY <2>1 DEF Labels, Op, BucketOf
<1>4. ASSUME NEW g \in Group, Leave(g) PROVE ControlInv'
  <2>3. pc[g] = "leave" /\ mutex[BucketOf(g)] = g
        /\ pc' = [pc EXCEPT ![g] = "reply"] /\ mutex' = [mutex EXCEPT ![BucketOf(g)] = Free]
        /\ done' = done /\ done[g] < Len(Work[g])
    BY <1>4 DEF Leave, Go
  <2>1. BucketOf(g) \in Bucket  BY <2>3, Working
  <2>2. \A h \in Group : Op(h)' = Op(h) /\ BucketOf(h)' = BucketOf(h)
    BY <2>3 DEF Op, BucketOf
  <2>4. order' \in [Bucket -> Nat]  BY <1>4, <2>1 DEF Leave, Stamp
  <2>5. ASSUME NEW h \in Group
        PROVE  (/\ done[h] <= Len(Work[h])
                /\ pc[h] # "read" => done[h] < Len(Work[h])
                /\ pc[h] \in {"body", "leave", "reply"} => Op(h).kind # "other"
                /\ pc[h] \in {"body", "leave"} => mutex[BucketOf(h)] = h)'
    BY <2>1, <2>2, <2>3, RbvAssumption DEF Labels
  <2>6. ASSUME NEW b \in Bucket, mutex'[b] # Free
        PROVE  (pc[mutex[b]] \in {"body", "leave"} /\ BucketOf(mutex[b]) = b)'
    <3>1. b # BucketOf(g) /\ mutex'[b] = mutex[b]  BY <2>1, <2>3, <2>6
    <3>2. mutex[b] \in Group /\ mutex[b] # g  BY <2>3, <2>6, <3>1
    <3>3. PICK h \in Group : h = mutex[b]  BY <3>2
    <3>4. pc'[h] \in {"body", "leave"} /\ BucketOf(h)' = b  BY <2>2, <2>3, <2>6, <3>1, <3>2, <3>3
    <3> QED  BY <3>1, <3>3, <3>4 DEF BucketOf, Op
  <2>7. mutex' \in [Bucket -> Group \cup {Free}] /\ pc' \in [Group -> Labels]
    BY <2>1, <2>3 DEF Labels
  <2> QED  BY <2>3, <2>4, <2>5, <2>6, <2>7
<1>5. ASSUME NEW g \in Group, Reply(g) PROVE ControlInv'
  BY <1>5 DEF Reply, Go, Labels, Op, BucketOf
<1>6. ASSUME NEW g \in Group, Send(g) PROVE ControlInv'
  BY <1>6 DEF Send, Go, Labels, Op, BucketOf
<1>7. ASSUME NEW g \in Group, Answer(g) PROVE ControlInv'
  <2>1. /\ pc[g] = "answer" /\ pc' = [pc EXCEPT ![g] = "read"]
        /\ done' = [done EXCEPT ![g] = @ + 1]
        /\ mutex' = mutex /\ order' = order
    BY <1>7 DEF Answer, Go
  <2>2. /\ pc' \in [Group -> Labels] /\ done' \in [Group -> Nat]
        /\ pc'[g] = "read" /\ done'[g] = done[g] + 1
        /\ \A h \in Group : h # g => pc'[h] = pc[h] /\ done'[h] = done[h]
    BY <2>1 DEF Labels
  <2>3. \A h \in Group : h # g => Op(h)' = Op(h) /\ BucketOf(h)' = BucketOf(h)
    BY <2>2 DEF Op, BucketOf
  <2>4. ASSUME NEW h \in Group
        PROVE  (/\ done[h] <= Len(Work[h])
                /\ pc[h] # "read" => done[h] < Len(Work[h])
                /\ pc[h] \in {"body", "leave", "reply"} => Op(h).kind # "other"
                /\ pc[h] \in {"body", "leave"} => mutex[BucketOf(h)] = h)'
    <3>1. CASE h = g
      <4>1. Work[g] \in Seq(Packet)  BY RbvAssumption DEF Packet
      <4>2. done[g] \in Nat /\ done[g] < Len(Work[g]) /\ Len(Work[g]) \in Nat
        BY <2>1, <4>1
      <4>3. done[g] + 1 <= Len(Work[g])  BY <4>2
      <4> QED  BY <2>2, <3>1, <4>3
    <3>2. CASE h # g  BY <2>1, <2>2, <2>3, <3>2
    <3> QED  BY <3>1, <3>2
  <2>5. ASSUME NEW b \in Bucket, mutex'[b] # Free
        PROVE  (pc[mutex[b]] \in {"body", "leave"} /\ BucketOf(mutex[b]) = b)'
    <3>1. PICK h \in Group : h = mutex[b] /\ pc[h] \in {"body", "leave"} /\ BucketOf(h) = b
      BY <2>1, <2>5
    <3>2. h # g  BY <2>1, <3>1
    <3>3. mutex'[b] = h /\ pc'[h] \in {"body", "leave"} /\ BucketOf(h)' = b
      BY <2>1, <2>2, <2>3, <3>1, <3>2
    <3> QED  BY <3>3 DEF BucketOf, Op
  <2> QED  BY <2>1, <2>2, <2>4, <2>5
<1>8. ASSUME NEW g \in Group, Replica(g) PROVE ControlInv'
  <2>1. UNCHANGED <<mutex, order, pc, done>>
    BY <1>8 DEF Replica, ReadRecord, ReadLine, Validate, primary
  <2> QED  BY <2>1 DEF Op, BucketOf
<1>9. CASE UNCHANGED vars
  BY <1>9 DEF vars, primary, Op, BucketOf
<1> QED
  BY <1>1, <1>2, <1>3, <1>4, <1>5, <1>6, <1>7, <1>8, <1>9 DEF Next, Primary, Stopped

-----------------------------------------------------------------------------
(* What the primary's variables hold. *)

\* What has taken effect stays so.
LEMMA PastGrows ==
  ASSUME ControlInv, [Next]_vars, NEW v \in Value, Past(v) PROVE Past(v)'
<1> USE DEF ControlInv
<1>1. v[1] \in Group /\ v[2] \in Nat  BY DEF Value
<1>2. PICK x, n : x = v[1] /\ n = v[2]  OBVIOUS
<1>3. \/ n <= done[x]
      \/ n = done[x] + 1 /\ pc[x] \in {"leave", "reply", "send", "answer"}
  BY <1>2 DEF Past
<1>4. SUFFICES \/ n <= done'[x]
               \/ n = done'[x] + 1 /\ pc'[x] \in {"leave", "reply", "send", "answer"}
  BY <1>2 DEF Past
<1>5. x \in Group /\ n \in Nat /\ done[x] \in Nat  BY <1>1, <1>2
<1>6. CASE \E g \in Group : Answer(g)
  BY <1>3, <1>5, <1>6 DEF Answer, Go
<1>7. ASSUME NEW g \in Group, NoOperation(g) \/ Enter(g) \/ Operate(g) \/ Leave(g)
                               \/ Reply(g) \/ Send(g)
      PROVE  \/ n <= done'[x]
             \/ n = done'[x] + 1 /\ pc'[x] \in {"leave", "reply", "send", "answer"}
  <2>1. /\ done' = done
        /\ \E to \in Labels : /\ pc' = [pc EXCEPT ![g] = to]
                              /\ pc[g] \in {"leave", "reply", "send", "answer"} =>
                                    to \in {"leave", "reply", "send", "answer"}
    BY <1>7 DEF NoOperation, Enter, Operate, Leave, Reply, Send, Go, Labels
  <2> QED  BY <1>3, <1>5, <2>1
<1>8. CASE (\E g \in Group : Replica(g)) \/ UNCHANGED vars
  BY <1>3, <1>8 DEF Replica, ReadRecord, ReadLine, Validate, vars, primary
<1> QED  BY <1>6, <1>7, <1>8 DEF Next, Primary, Stopped

\* A fresh hasher holds a record without stamps.
LEMMA FreshIsRecord == Fresh \in Record /\ Len(Fresh.info) = 0
BY DEF Fresh, Record, Hash

\* At the start the buckets are empty and nothing is sent or answered.
LEMMA DataInit == Init => DataInv
<1> SUFFICES ASSUME Init PROVE DataInv  OBVIOUS
<1>1. <<"error">> \in Answers  BY DEF Answers
<1>2. \A b \in Bucket : Proper(<<>>, b) /\ Vals(<<>>) = {}  BY DEF Proper, Vals
<1>3. \A b \in Bucket : Proper(chain[b], b) /\ \A v \in Vals(chain[b]) : Past(v)
  BY <1>2 DEF Init
<1>4. \A g \in Group : Len(hasher[g].info) = Stampings(g) /\ hasher[g] = Fresh
  BY FreshIsRecord DEF Init, Stampings
<1>5. \A g \in Group : Len(answered[g]) = done[g] /\ Len(sent[g]) = done[g] /\ pc[g] = "read"
  BY DEF Init
<1> QED  BY <1>1, <1>3, <1>4, <1>5, FreshIsRecord DEF Init, DataInv

\* A stamp closes a hash.
LEMMA Checks ==
  ASSUME NEW h \in Record, NEW t \in Nat
  PROVE  /\ Checkorder(h, t) \in Record /\ Checkorder(h, t).latest = <<>>
         /\ Len(Checkorder(h, t).info) = Len(h.info) + 1
<1>1. h.info \in Seq([hash : Hash, time : Nat]) /\ h.latest \in Hash  BY DEF Record
<1>2. [hash |-> h.latest, time |-> t] \in [hash : Hash, time : Nat]  BY <1>1
<1>3. PICK i : i = Append(h.info, [hash |-> h.latest, time |-> t])  OBVIOUS
<1>4. i \in Seq([hash : Hash, time : Nat]) /\ Len(i) = Len(h.info) + 1  BY <1>1, <1>2, <1>3
<1>5. Checkorder(h, t) = [info |-> i, latest |-> <<>>]  BY <1>3 DEF Checkorder
<1>6. <<>> \in Hash  BY DEF Hash
<1> QED  BY <1>4, <1>5, <1>6 DEF Record

\* Every step keeps types, the chains, and how often records are stamped.
LEMMA DataNext == ControlInv /\ DataInv /\ [Next]_vars => DataInv'
<1> SUFFICES ASSUME ControlInv, DataInv, [Next]_vars PROVE DataInv'  OBVIOUS
<1>p. ASSUME chain' = chain
      PROVE  (\A b \in Bucket : Proper(chain[b], b) /\ \A v \in Vals(chain[b]) : Past(v))'
  <2>1. ASSUME NEW b \in Bucket, NEW v \in Vals(chain[b]) PROVE Past(v)'
    <3>1. v \in Value  BY <2>1, ValsTyped DEF DataInv
    <3> QED  BY <2>1, <3>1, PastGrows DEF DataInv
  <2> QED  BY <1>p, <2>1 DEF DataInv, Proper, Vals, OpOf
<1>1. ASSUME NEW g \in Group, NoOperation(g) PROVE DataInv'
  <2>1. <<"error">> \in Answers  BY DEF Answers
  <2>2. \A h \in Group : Op(h)' = Op(h)  BY <1>1 DEF NoOperation, Op
  <2>3. hasher[g] = Fresh  BY <1>1 DEF DataInv, NoOperation, Go
  <2>4. /\ pc[g] = "read" /\ pc' = [pc EXCEPT ![g] = "send"] /\ Op(g).kind = "other"
        /\ reply' = [reply EXCEPT ![g] = <<"error">>]
        /\ UNCHANGED <<chain, freed, hasher, result, done, answered, sent>>
    BY <1>1 DEF NoOperation, Go
  <2>5. \A h \in Group : Stampings(h)' = Stampings(h)
    BY <2>2, <2>4 DEF Stampings, ControlInv
  <2> QED  BY <1>p, <2>1, <2>3, <2>4, <2>5 DEF DataInv, ControlInv
<1>2. ASSUME NEW g \in Group, Enter(g) PROVE DataInv'
  <2>1. /\ pc[g] = "read" /\ pc' = [pc EXCEPT ![g] = "body"] /\ done[g] < Len(Work[g])
        /\ hasher' = [hasher EXCEPT ![g] = Checkorder(hasher[g], order[BucketOf(g)])]
        /\ UNCHANGED <<chain, freed, result, reply, done, answered, sent>>
    BY <1>2 DEF Enter, Go, Stamp
  <2>2. BucketOf(g) \in Bucket /\ order[BucketOf(g)] \in Nat  BY <2>1, Working DEF ControlInv
  <2>3. hasher[g] = Fresh  BY <2>1 DEF DataInv
  <2>7. hasher'[g] = Checkorder(Fresh, order[BucketOf(g)])  BY <2>1, <2>3 DEF DataInv
  <2>8. \A h \in Group : h # g => hasher'[h] = hasher[h]  BY <2>1 DEF DataInv
  <2>a. PICK t \in Nat : t = order[BucketOf(g)]  BY <2>2
  <2>b. /\ Checkorder(Fresh, t) \in Record
        /\ Len(Checkorder(Fresh, t).info) = Len(Fresh.info) + 1
    BY Checks, FreshIsRecord
  <2>c. Len(Checkorder(Fresh, t).info) = 1  BY <2>b, FreshIsRecord
  <2>4. hasher'[g] \in Record /\ Len(hasher'[g].info) = 1
    BY <2>7, <2>a, <2>b, <2>c
  <2>9. hasher' \in [Group -> Record]  BY <2>1, <2>4, <2>8 DEF DataInv
  <2>5. \A h \in Group : Op(h)' = Op(h)  BY <2>1 DEF Op
  <2>6. \A h \in Group : Stampings(h)' = IF h = g THEN 1 ELSE Stampings(h)
    BY <2>1, <2>5 DEF Stampings, ControlInv
  <2>d. ASSUME NEW h \in Group
        PROVE  /\ Len(hasher'[h].info) = Stampings(h)'
               /\ pc'[h] \notin {"body", "leave", "reply", "send"} => hasher'[h] = Fresh
               /\ Len(answered'[h]) = done'[h]
               /\ Len(sent'[h]) = done'[h] + (IF pc'[h] = "answer" THEN 1 ELSE 0)
    <3>1. /\ Len(answered[h]) = done[h]
          /\ Len(sent[h]) = done[h] + (IF pc[h] = "answer" THEN 1 ELSE 0)
          /\ Len(hasher[h].info) = Stampings(h)
          /\ pc[h] \notin {"body", "leave", "reply", "send"} => hasher[h] = Fresh
      BY DEF DataInv
    <3>2. CASE h = g  BY <2>1, <2>4, <2>6, <3>1, <3>2 DEF ControlInv
    <3>3. CASE h # g  BY <2>1, <2>6, <2>8, <3>1, <3>3 DEF ControlInv
    <3> QED  BY <3>2, <3>3
  <2> QED  BY <1>p, <2>1, <2>9, <2>d DEF DataInv
<1>3. ASSUME NEW g \in Group, Operate(g) PROVE DataInv'
  <2> DEFINE b == BucketOf(g)
             out == Outcome(chain[b], Op(g), Id(g))
  <2>1. /\ pc[g] = "body" /\ pc' = [pc EXCEPT ![g] = "leave"]
        /\ done[g] < Len(Work[g]) /\ Op(g).kind # "other"
        /\ chain' = [chain EXCEPT ![b] = out.chain]
        /\ hasher' = [hasher EXCEPT ![g].latest = hasher[g].latest \o out.hash]
        /\ result' = [result EXCEPT ![g] = out.result]
        /\ freed' = freed \cup out.freed
        /\ UNCHANGED <<reply, done, answered, sent>>
    BY <1>3 DEF Operate, Go, ControlInv
  <2>2. /\ b \in Bucket /\ Op(g) \in Packet /\ Id(g) \in Value
        /\ OpOf(Id(g)) = Op(g) /\ HashOf[Op(g).key] = b
    BY <2>1, Working DEF ControlInv, BucketOf
  <2>3. ~Past(Id(g))  BY <2>1 DEF Past, Id, ControlInv
  <2>4. Proper(chain[b], b) /\ Id(g) \notin Vals(chain[b])  BY <2>2, <2>3 DEF DataInv
  <2> HIDE DEF b, out
  <2>5. Does(chain[b], b, Op(g), Id(g), out)  BY <2>1, <2>2, <2>4, OutcomeDoes DEF out
  <2>6. out \in Outcomes /\ Proper(out.chain, b) /\ Vals(out.chain) \subseteq Vals(chain[b]) \cup {Id(g)}
    BY <2>5 DEF Does
  <2>7. /\ out.hash \in Hash /\ out.result \in Answers /\ out.chain \in Seq(Entry)
        /\ out.freed \subseteq Value
    BY <2>6 DEF Outcomes
  <2>8. hasher'[g] \in Record /\ hasher'[g].info = hasher[g].info
    <3>1. hasher[g] \in Record  BY DEF DataInv
    <3>2. hasher[g].latest \o out.hash \in Hash  BY <2>7, <3>1 DEF Record, Hash
    <3>3. hasher'[g] = [hasher[g] EXCEPT !.latest = hasher[g].latest \o out.hash]
      BY <2>1 DEF DataInv
    <3> QED  BY <3>1, <3>2, <3>3 DEF Record
  <2>9. hasher' \in [Group -> Record] /\ \A h \in Group : h # g => hasher'[h] = hasher[h]
    BY <2>1, <2>8 DEF DataInv
  <2>10. \A h \in Group : Op(h)' = Op(h)  BY <2>1 DEF Op
  <2>11. \A h \in Group : Stampings(h)' = Stampings(h)
    BY <2>1, <2>10 DEF Stampings, ControlInv
  <2>12. Past(Id(g))'
    BY <2>1 DEF Past, Id, ControlInv
  <2>13. ASSUME NEW c \in Bucket
         PROVE  (Proper(chain[c], c) /\ \A v \in Vals(chain[c]) : Past(v))'
    <3>1. ASSUME NEW v \in Vals(chain[c]) PROVE Past(v)'
      <4>1. v \in Value  BY <3>1, ValsTyped DEF DataInv
      <4> QED  BY <3>1, <4>1, PastGrows DEF DataInv
    <3>2. CASE c = b
      <4>1. chain'[c] = out.chain  BY <2>1, <2>2, <3>2 DEF DataInv
      <4>2. \A v \in Vals(out.chain) : Past(v)'
        <5>1. PICK d : d = Id(g)  OBVIOUS
        <5>2. Past(d)'  BY <2>1, <5>1 DEF Past, Id, ControlInv
        <5> QED  BY <2>6, <3>1, <3>2, <5>1, <5>2
      <4>3. PICK x : x = out.chain  OBVIOUS
      <4>4. Proper(x, c)' /\ \A v \in Vals(x)' : Past(v)'
        BY <2>6, <3>2, <4>2, <4>3 DEF Proper, Vals, OpOf
      <4> QED  BY <4>1, <4>3, <4>4
    <3>3. CASE c # b
      <4>1. chain'[c] = chain[c]  BY <2>1, <3>3 DEF DataInv
      <4> QED  BY <3>1, <4>1 DEF DataInv, Proper, Vals, OpOf
    <3> QED  BY <3>2, <3>3
  <2>14. chain' \in [Bucket -> Seq(Entry)] /\ freed' \subseteq Value /\ result' \in [Group -> Answers]
    BY <2>1, <2>2, <2>7 DEF DataInv
  <2>15. \A h \in Group : /\ Len(hasher'[h].info) = Stampings(h)'
                          /\ pc'[h] \notin {"body", "leave", "reply", "send"} => hasher'[h] = Fresh
    BY <2>1, <2>8, <2>9, <2>11 DEF DataInv, ControlInv
  <2>16. \A h \in Group : /\ Len(answered'[h]) = done'[h]
                          /\ Len(sent'[h]) = done'[h] + (IF pc'[h] = "answer" THEN 1 ELSE 0)
    BY <2>1 DEF DataInv, ControlInv
  <2>17. reply' \in [Group -> Answers] /\ answered' \in [Group -> Seq(Answers)]
         /\ sent' \in [Group -> Seq(Record)]
    BY <2>1 DEF DataInv
  <2> QED  BY <2>9, <2>13, <2>14, <2>15, <2>16, <2>17 DEF DataInv
<1>4. ASSUME NEW g \in Group, Leave(g) PROVE DataInv'
  <2>1. /\ pc[g] = "leave" /\ pc' = [pc EXCEPT ![g] = "reply"] /\ done[g] < Len(Work[g])
        /\ hasher' = [hasher EXCEPT ![g] = Checkorder(hasher[g], order[BucketOf(g)])]
        /\ UNCHANGED <<chain, freed, result, reply, done, answered, sent>>
    BY <1>4 DEF Leave, Go, Stamp, ControlInv
  <2>2. BucketOf(g) \in Bucket /\ order[BucketOf(g)] \in Nat  BY <2>1, Working DEF ControlInv
  <2>3. hasher[g] \in Record /\ Len(hasher[g].info) = 1  BY <2>1 DEF DataInv, Stampings
  <2>7. hasher'[g] = Checkorder(hasher[g], order[BucketOf(g)])  BY <2>1 DEF DataInv
  <2>8. \A h \in Group : h # g => hasher'[h] = hasher[h]  BY <2>1 DEF DataInv
  <2>a. PICK t \in Nat : t = order[BucketOf(g)]  BY <2>2
  <2>b. /\ Checkorder(hasher[g], t) \in Record
        /\ Len(Checkorder(hasher[g], t).info) = Len(hasher[g].info) + 1
    BY <2>3, Checks
  <2>c. Len(Checkorder(hasher[g], t).info) = 2  BY <2>b, <2>3
  <2>4. hasher'[g] \in Record /\ Len(hasher'[g].info) = 2
    BY <2>7, <2>a, <2>b, <2>c
  <2>9. hasher' \in [Group -> Record]  BY <2>1, <2>4, <2>8 DEF DataInv
  <2>5. \A h \in Group : Op(h)' = Op(h)  BY <2>1 DEF Op
  <2>6. \A h \in Group : Stampings(h)' = IF h = g THEN 2 ELSE Stampings(h)
    BY <2>1, <2>5 DEF Stampings, ControlInv
  <2>d. ASSUME NEW h \in Group
        PROVE  /\ Len(hasher'[h].info) = Stampings(h)'
               /\ pc'[h] \notin {"body", "leave", "reply", "send"} => hasher'[h] = Fresh
               /\ Len(answered'[h]) = done'[h]
               /\ Len(sent'[h]) = done'[h] + (IF pc'[h] = "answer" THEN 1 ELSE 0)
    <3>1. /\ Len(answered[h]) = done[h]
          /\ Len(sent[h]) = done[h] + (IF pc[h] = "answer" THEN 1 ELSE 0)
          /\ Len(hasher[h].info) = Stampings(h)
          /\ pc[h] \notin {"body", "leave", "reply", "send"} => hasher[h] = Fresh
      BY DEF DataInv
    <3>2. CASE h = g  BY <2>1, <2>4, <2>6, <3>1, <3>2 DEF ControlInv
    <3>3. CASE h # g  BY <2>1, <2>6, <2>8, <3>1, <3>3 DEF ControlInv
    <3> QED  BY <3>2, <3>3
  <2> QED  BY <1>p, <2>1, <2>9, <2>d DEF DataInv
<1>5. ASSUME NEW g \in Group, Reply(g) PROVE DataInv'
  <2>1. /\ pc[g] = "reply" /\ pc' = [pc EXCEPT ![g] = "send"]
        /\ UNCHANGED <<chain, freed, hasher, result, done, answered, sent>>
    BY <1>5 DEF Reply, Go
  <2>2. <<"garbage">> \in Answers  BY DEF Answers
  <2>3. \E copy \in Answers : reply' = [reply EXCEPT ![g] = copy]
    BY <1>5, <2>2 DEF Reply, DataInv
  <2>4. reply' \in [Group -> Answers]  BY <2>3 DEF DataInv
  <2>5. \A h \in Group : Op(h)' = Op(h)  BY <2>1 DEF Op
  <2>6. \A h \in Group : Stampings(h)' = Stampings(h)
    BY <2>1, <2>5 DEF Stampings, ControlInv
  <2>10. \A h \in Group : /\ Len(hasher'[h].info) = Stampings(h)'
                          /\ pc'[h] \notin {"body", "leave", "reply", "send"} => hasher'[h] = Fresh
                          /\ Len(answered'[h]) = done'[h]
                          /\ Len(sent'[h]) = done'[h] + (IF pc'[h] = "answer" THEN 1 ELSE 0)
    BY <2>1, <2>6 DEF DataInv, ControlInv
  <2> QED  BY <1>p, <2>1, <2>4, <2>10 DEF DataInv
<1>6. ASSUME NEW g \in Group, Send(g) PROVE DataInv'
  <2>1. /\ pc[g] = "send" /\ pc' = [pc EXCEPT ![g] = "answer"]
        /\ sent' = [sent EXCEPT ![g] = Append(sent[g], hasher[g])]
        /\ hasher' = [hasher EXCEPT ![g] = Fresh]
        /\ UNCHANGED <<chain, freed, result, reply, done, answered>>
    BY <1>6 DEF Send, Go
  <2>2. \A h \in Group : Op(h)' = Op(h)  BY <2>1 DEF Op
  <2>3. \A h \in Group : Stampings(h)' = IF h = g THEN 0 ELSE Stampings(h)
    BY <2>1, <2>2 DEF Stampings, ControlInv
  <2>6. sent[g] \in Seq(Record) /\ hasher[g] \in Record /\ Len(sent[g]) = done[g]
    <3>1. Len(sent[g]) = done[g] + (IF pc[g] = "answer" THEN 1 ELSE 0)  BY DEF DataInv
    <3>2. done[g] \in Nat  BY DEF ControlInv
    <3> QED  BY <2>1, <3>1, <3>2 DEF DataInv
  <2>7. PICK x : x = Append(sent[g], hasher[g])  OBVIOUS
  <2>8. x \in Seq(Record) /\ Len(x) = done[g] + 1  BY <2>6, <2>7
  <2>4. /\ sent' \in [Group -> Seq(Record)]
        /\ Len(sent'[g]) = done[g] + 1 /\ \A h \in Group : h # g => sent'[h] = sent[h]
    BY <2>1, <2>7, <2>8 DEF DataInv
  <2>5. hasher' \in [Group -> Record] /\ hasher'[g] = Fresh
        /\ \A h \in Group : h # g => hasher'[h] = hasher[h]
    BY <2>1, FreshIsRecord DEF DataInv
  <2> QED  BY <1>p, <2>1, <2>3, <2>4, <2>5, FreshIsRecord DEF DataInv, ControlInv
<1>7. ASSUME NEW g \in Group, Answer(g) PROVE DataInv'
  <2>1. /\ pc[g] = "answer" /\ pc' = [pc EXCEPT ![g] = "read"]
        /\ answered' = [answered EXCEPT ![g] = Append(answered[g], reply[g])]
        /\ done' = [done EXCEPT ![g] = done[g] + 1]
        /\ UNCHANGED <<chain, freed, hasher, result, reply, sent>>
    BY <1>7 DEF Answer, Go
  <2>2. \A h \in Group : h # g => Op(h)' = Op(h)  BY <2>1 DEF Op, ControlInv
  <2>3. \A h \in Group : Stampings(h)' = Stampings(h)
    BY <2>1, <2>2 DEF Stampings, ControlInv
  <2>4. /\ answered' \in [Group -> Seq(Answers)]
        /\ Len(answered'[g]) = done[g] + 1
        /\ \A h \in Group : h # g => answered'[h] = answered[h]
    BY <2>1 DEF DataInv
  <2>5. done'[g] = done[g] + 1 /\ \A h \in Group : h # g => done'[h] = done[h]
    BY <2>1 DEF ControlInv
  <2>6. hasher[g] = Fresh /\ Len(sent[g]) = done[g] + 1  BY <2>1 DEF DataInv
  <2> QED  BY <1>p, <2>1, <2>3, <2>4, <2>5, <2>6 DEF DataInv, ControlInv
<1>8. CASE (\E g \in Group : Replica(g)) \/ UNCHANGED vars
  <2>1. UNCHANGED <<chain, freed, hasher, result, reply, done, pc, answered, sent>>
    BY <1>8 DEF Replica, ReadRecord, ReadLine, Validate, vars, primary
  <2>2. \A h \in Group : Stampings(h)' = Stampings(h)  BY <2>1 DEF Stampings, Op
  <2> QED  BY <1>p, <2>1, <2>2 DEF DataInv
<1> QED
  BY <1>1, <1>2, <1>3, <1>4, <1>5, <1>6, <1>7, <1>8 DEF Next, Primary, Stopped

-----------------------------------------------------------------------------
(* The lines of a connection. *)

\* The kinds come in a cycle of three.
LEMMA KindCycle ==
  /\ Kind(0) = "record" /\ Kind(1) = "packet" /\ Kind(2) = "empty"
  /\ \A n, m \in Nat : m % 3 = 0 => Kind(m + n) = Kind(n)
<1>1. \A n, m \in Nat : m % 3 = 0 => (m + n) % 3 = n % 3  OBVIOUS
<1> QED  BY <1>1 DEF Kind

\* Two entries make a pair.
LEMMA AppendTwo ==
  ASSUME NEW x, NEW y PROVE Append(<<x>>, y) = <<x, y>>
<1>1. PICK S : S = {x, y}  OBVIOUS
<1>2. PICK s, t, u : s = <<x>> /\ t = Append(s, y) /\ u = <<x, y>>  OBVIOUS
<1>3. s \in Seq(S) /\ Len(s) = 1 /\ s[1] = x /\ y \in S  BY <1>1, <1>2
<1>4. t \in Seq(S) /\ Len(t) = Len(s) + 1 /\ t[Len(s) + 1] = y /\ \A i \in 1 .. Len(s) : t[i] = s[i]
  BY <1>2, <1>3, AppendProperties
<1>5. u \in Seq(S) /\ Len(u) = 2 /\ u[1] = x /\ u[2] = y  BY <1>1, <1>2
<1>6. \A i \in 1 .. 2 : i = 1 \/ i = 2  OBVIOUS
<1>7. Len(t) = 2 /\ t[2] = y /\ t[1] = x  BY <1>3, <1>4
<1>8. \A i \in 1 .. 2 : t[i] = u[i]  BY <1>5, <1>6, <1>7
<1> QED  BY <1>2, <1>4, <1>5, <1>7, <1>8, SeqEqual

\* A record is sent as three lines: itself, the packet, and an empty one.
LEMMA LinesFacts ==
  ASSUME NEW h \in Record, NEW id \in Value
  PROVE  /\ Lines(h, id) \in Seq(Wired) /\ Len(Lines(h, id)) = 3
         /\ \A j \in 1 .. 3 : Lines(h, id)[j].kind = Kind(j - 1)
<1> DEFINE r == [kind |-> "record", record |-> h, op |-> id]
           p == [kind |-> "packet", record |-> Fresh, op |-> id]
           e == [kind |-> "empty", record |-> Fresh, op |-> id]
<1>1. r \in Wired /\ p \in Wired /\ e \in Wired  BY FreshIsRecord DEF Wired
<1>2. r.kind = "record" /\ p.kind = "packet" /\ e.kind = "empty"  OBVIOUS
<1>3. Lines(h, id) = Append(<<r, p>>, e)  BY DEF Lines
<1> HIDE DEF r, p, e
<1>4. PICK t : t = <<r, p>>  OBVIOUS
<1>5. t \in Seq(Wired) /\ Len(t) = 2 /\ t[1] = r /\ t[2] = p  BY <1>1, <1>4
<1>6. /\ Append(t, e) \in Seq(Wired) /\ Len(Append(t, e)) = 3
      /\ Append(t, e)[1] = r /\ Append(t, e)[2] = p /\ Append(t, e)[3] = e
  <2>1. Append(t, e) \in Seq(Wired)  BY <1>1, <1>5, AppendProperties
  <2>a. t \in Seq(Wired) /\ e \in Wired  BY <1>1, <1>5
  <2>b. /\ Len(Append(t, e)) = Len(t) + 1 /\ Append(t, e)[Len(t) + 1] = e
        /\ \A i \in 1 .. Len(t) : Append(t, e)[i] = t[i]
    BY <2>a, AppendProperties
  <2>2. Len(Append(t, e)) = 2 + 1 /\ Append(t, e)[2 + 1] = e
    BY <1>5, <2>b
  <2>3. \A i \in 1 .. 2 : Append(t, e)[i] = t[i]  BY <1>5, <2>b
  <2>4. 2 + 1 = 3 /\ 1 \in 1 .. 2 /\ 2 \in 1 .. 2  OBVIOUS
  <2> QED  BY <1>5, <2>1, <2>2, <2>3, <2>4
<1>7. PICK x : x = Append(t, e)  OBVIOUS
<1>8. \A j \in 1 .. 3 : x[j].kind = Kind(j - 1)
  <2>1. x[1].kind = Kind(0) /\ x[2].kind = Kind(1) /\ x[3].kind = Kind(2)
    BY <1>2, <1>6, <1>7, KindCycle
  <2>2. \A j \in 1 .. 3 : (j = 1 /\ j - 1 = 0) \/ (j = 2 /\ j - 1 = 1) \/ (j = 3 /\ j - 1 = 2)
    OBVIOUS
  <2> QED  BY <2>1, <2>2
<1> QED  BY <1>3, <1>4, <1>6, <1>7, <1>8

\* At the start the connections are empty and the replica expects a record.
LEMMA FrameInit == Init => FrameInv
<1> SUFFICES ASSUME Init PROVE FrameInv  OBVIOUS
<1>1. \A g \in Group : Phase(g) = 0 /\ wire[g] = <<>> /\ line[g] = "none"  BY DEF Init, Phase
<1> QED  BY <1>1, FreshIsRecord DEF Init, FrameInv

\* The replica's thread takes the first line.
LEMMA Taken ==
  ASSUME FrameInv, NEW g \in Group, Take(g)
  PROVE  /\ Head(wire[g]) \in Wired /\ Head(wire[g]).kind = Kind(Phase(g))
         /\ wire' \in [Group -> Seq(Wired)]
         /\ Len(wire'[g]) = Len(wire[g]) - 1 /\ Len(wire[g]) > 0
         /\ \A i \in DOMAIN wire'[g] : wire'[g][i].kind = Kind(Phase(g) + i)
         /\ \A h \in Group : h # g => wire'[h] = wire[h]
<1> DEFINE w == wire[g]
<1>1. w \in Seq(Wired) /\ w # <<>>  BY DEF FrameInv, Take
<1>2. \A i \in DOMAIN w : w[i].kind = Kind(Phase(g) + i - 1)  BY DEF FrameInv
<1>3. Phase(g) \in Nat  BY DEF Phase
<1>4. wire' = [wire EXCEPT ![g] = Tail(w)] /\ wire \in [Group -> Seq(Wired)]
  BY DEF Take, FrameInv
<1> HIDE DEF w
<1>5. 1 \in DOMAIN w /\ Head(w) = w[1] /\ Len(w) \in Nat /\ Len(w) > 0 /\ w[1] \in Wired  BY <1>1
<1>6. Head(w).kind = Kind(Phase(g))
  <2>1. w[1].kind = Kind(Phase(g) + 1 - 1)  BY <1>2, <1>5
  <2>2. Phase(g) + 1 - 1 = Phase(g)  BY <1>3
  <2> QED  BY <1>5, <2>1, <2>2
<1>7. PICK x : x = Tail(w)  OBVIOUS
<1>8. x \in Seq(Wired) /\ Len(x) = Len(w) - 1 /\ \A i \in DOMAIN x : i + 1 \in DOMAIN w /\ x[i] = w[i + 1]
  BY <1>1, <1>7
<1>9. \A i \in DOMAIN x : x[i].kind = Kind(Phase(g) + i)
  <2>1. TAKE i \in DOMAIN x
  <2>2. x[i].kind = Kind(Phase(g) + (i + 1) - 1)  BY <1>2, <1>8
  <2>3. i \in Nat  BY <1>8
  <2>4. Phase(g) + (i + 1) - 1 = Phase(g) + i  BY <1>3, <2>3
  <2> QED  BY <2>2, <2>4
<1>10. wire'[g] = x /\ \A h \in Group : h # g => wire'[h] = wire[h]  BY <1>4, <1>7
<1>11. wire' \in [Group -> Seq(Wired)]  BY <1>4, <1>7, <1>8
<1> QED  BY <1>5, <1>6, <1>8, <1>9, <1>10, <1>11 DEF w

\* Every step keeps the lines in their cycle.
LEMMA FrameNext == ControlInv /\ DataInv /\ FrameInv /\ [Next]_vars => FrameInv'
<1> SUFFICES ASSUME ControlInv, DataInv, FrameInv, [Next]_vars PROVE FrameInv'  OBVIOUS
<1>1. ASSUME NEW g \in Group, NoOperation(g) \/ Enter(g) \/ Operate(g) \/ Leave(g)
                               \/ Reply(g) \/ Answer(g)
      PROVE  FrameInv'
  <2>1. UNCHANGED <<wire, record, validation, line, executed>>
    BY <1>1 DEF NoOperation, Enter, Operate, Leave, Reply, Answer, replica
  <2> QED  BY <2>1 DEF FrameInv, Phase
<1>2. ASSUME NEW g \in Group, Send(g) PROVE FrameInv'
  <2>1. /\ pc[g] = "send" /\ UNCHANGED <<record, validation, line, executed>>
        /\ wire' = [wire EXCEPT ![g] = wire[g] \o Lines(hasher[g], Id(g))]
    BY <1>2 DEF Send, Go, replica
  <2>2. hasher[g] \in Record /\ Id(g) \in Value  BY <2>1, Working DEF DataInv, ControlInv
  <2>3. PICK y : y = Lines(hasher[g], Id(g))  OBVIOUS
  <2>4. /\ y \in Seq(Wired) /\ Len(y) = 3
        /\ \A j \in 1 .. 3 : y[j].kind = Kind(j - 1)
    BY <2>2, <2>3, LinesFacts
  <2>5. PICK w : w = wire[g]  OBVIOUS
  <2>6. /\ w \in Seq(Wired) /\ (Phase(g) + Len(w)) % 3 = 0
        /\ \A i \in DOMAIN w : w[i].kind = Kind(Phase(g) + i - 1)
    BY <2>5 DEF FrameInv
  <2>7. Phase(g) \in Nat  BY DEF Phase
  <2>a. w \in Seq(Wired) /\ y \in Seq(Wired) /\ Len(y) = 3  BY <2>4, <2>6
  <2>8. /\ w \o y \in Seq(Wired) /\ Len(w \o y) = Len(w) + 3 /\ Len(w) \in Nat
    <3>1. w \o y \in Seq(Wired) /\ Len(w \o y) = Len(w) + Len(y)  BY <2>a, ConcatProperties
    <3>2. Len(w) \in Nat  BY <2>a
    <3> QED  BY <2>a, <3>1, <3>2
  <2>9. (Phase(g) + Len(w \o y)) % 3 = 0
    <3>1. \A a, b \in Nat : (a + b) % 3 = 0 => (a + (b + 3)) % 3 = 0  OBVIOUS
    <3> QED  BY <2>6, <2>7, <2>8, <3>1
  <2>10. ASSUME NEW i \in DOMAIN (w \o y) PROVE (w \o y)[i].kind = Kind(Phase(g) + i - 1)
    <3>1. i \in 1 .. Len(w) + 3  BY <2>8
    <3>2. CASE i <= Len(w)
      <4>1. (w \o y)[i] = w[i] /\ i \in DOMAIN w  BY <2>4, <2>6, <3>1, <3>2
      <4> QED  BY <2>6, <4>1
    <3>3. CASE i > Len(w)
      <4>1. (w \o y)[i] = y[i - Len(w)] /\ i - Len(w) \in 1 .. 3  BY <2>4, <2>6, <3>1, <3>3
      <4>2. (w \o y)[i].kind = Kind(i - Len(w) - 1)  BY <2>4, <4>1
      <4>3. /\ i - Len(w) - 1 \in Nat /\ Phase(g) + Len(w) \in Nat
            /\ (Phase(g) + Len(w)) + (i - Len(w) - 1) = Phase(g) + i - 1
        BY <2>7, <2>8, <3>1, <3>3
      <4>4. Kind((Phase(g) + Len(w)) + (i - Len(w) - 1)) = Kind(i - Len(w) - 1)
        BY <2>6, <4>3, KindCycle
      <4> QED  BY <4>2, <4>3, <4>4
    <3> QED  BY <2>8, <3>1, <3>2, <3>3
  <2>11. wire' \in [Group -> Seq(Wired)] /\ wire'[g] = w \o y
         /\ \A h \in Group : h # g => wire'[h] = wire[h]
    BY <2>1, <2>3, <2>5, <2>8 DEF FrameInv
  <2>12. \A h \in Group : Phase(h)' = Phase(h)  BY <2>1 DEF Phase
  <2>13. ASSUME NEW h \in Group
         PROVE  /\ (Phase(h)' + Len(wire'[h])) % 3 = 0
                /\ \A i \in DOMAIN wire'[h] : wire'[h][i].kind = Kind(Phase(h)' + i - 1)
    <3>1. CASE h = g  BY <2>9, <2>10, <2>11, <2>12, <3>1
    <3>2. CASE h # g  BY <2>11, <2>12, <3>2 DEF FrameInv
    <3> QED  BY <3>1, <3>2
  <2> QED  BY <2>1, <2>11, <2>13 DEF FrameInv, Kind
<1>3. ASSUME NEW g \in Group, ReadRecord(g) PROVE FrameInv'
  <2>1. /\ ~validation[g] /\ line[g] = "none" /\ Take(g)
        /\ record' = [record EXCEPT ![g] = Head(wire[g]).record]
        /\ validation' = [validation EXCEPT ![g] = TRUE]
        /\ line' = line /\ executed' = executed
    BY <1>3 DEF ReadRecord
  <2>2. Phase(g) = 0 /\ Phase(g)' = 1  BY <2>1 DEF Phase, FrameInv
  <2>3. record' \in [Group -> Record]
    BY <2>1, Taken DEF FrameInv, Wired
  <2>4. \A h \in Group : h # g => Phase(h)' = Phase(h)  BY <2>1 DEF Phase, FrameInv
  <2>5. ASSUME NEW h \in Group
        PROVE  /\ (Phase(h)' + Len(wire'[h])) % 3 = 0
               /\ \A i \in DOMAIN wire'[h] : wire'[h][i].kind = Kind(Phase(h)' + i - 1)
    <3>1. CASE h = g
      <4>1. (0 + Len(wire[g])) % 3 = 0 /\ Len(wire[g]) \in Nat  BY <2>2 DEF FrameInv
      <4>2. Len(wire'[g]) = Len(wire[g]) - 1  BY <2>1, Taken
      <4>a. \A n \in Nat : (0 + n) % 3 = 0 => (1 + (n - 1)) % 3 = 0  OBVIOUS
      <4>3. (1 + Len(wire'[g])) % 3 = 0  BY <4>1, <4>2, <4>a
      <4>4. \A i \in DOMAIN wire'[g] : wire'[g][i].kind = Kind(0 + i) /\ i \in Nat
        BY <2>1, <2>2, Taken
      <4>5. \A i \in Nat : 0 + i = 1 + i - 1  OBVIOUS
      <4>6. \A i \in DOMAIN wire'[g] : wire'[g][i].kind = Kind(1 + i - 1)
        BY <4>4, <4>5
      <4> QED  BY <2>2, <3>1, <4>3, <4>6
    <3>2. CASE h # g
      <4>1. wire'[h] = wire[h]  BY <2>1, <3>2, Taken
      <4> QED  BY <2>4, <3>2, <4>1 DEF FrameInv
    <3> QED  BY <3>1, <3>2
  <2> QED  BY <2>1, <2>3, <2>5, Taken DEF FrameInv, Kind
<1>4. ASSUME NEW g \in Group, ReadLine(g) PROVE FrameInv'
  <2>1. /\ validation[g] /\ line[g] = "none" /\ Take(g)
        /\ line' = [line EXCEPT ![g] = "read"]
        /\ UNCHANGED <<validation, record, executed>>
    BY <1>4 DEF ReadLine
  <2>2. Phase(g) = 1 /\ Phase(g)' = 2  BY <2>1 DEF Phase, FrameInv
  <2>4. \A h \in Group : h # g => Phase(h)' = Phase(h)  BY <2>1 DEF Phase, FrameInv
  <2>5. ASSUME NEW h \in Group
        PROVE  /\ (Phase(h)' + Len(wire'[h])) % 3 = 0
               /\ \A i \in DOMAIN wire'[h] : wire'[h][i].kind = Kind(Phase(h)' + i - 1)
    <3>1. CASE h = g
      <4>1. (1 + Len(wire[g])) % 3 = 0 /\ Len(wire[g]) \in Nat  BY <2>2 DEF FrameInv
      <4>2. Len(wire'[g]) = Len(wire[g]) - 1  BY <2>1, Taken
      <4>a. \A n \in Nat : (1 + n) % 3 = 0 => (2 + (n - 1)) % 3 = 0  OBVIOUS
      <4>3. (2 + Len(wire'[g])) % 3 = 0  BY <4>1, <4>2, <4>a
      <4>4. \A i \in DOMAIN wire'[g] : wire'[g][i].kind = Kind(1 + i) /\ i \in Nat
        BY <2>1, <2>2, Taken
      <4>5. \A i \in Nat : 1 + i = 2 + i - 1  OBVIOUS
      <4> QED  BY <2>2, <3>1, <4>3, <4>4, <4>5
    <3>2. CASE h # g
      <4>1. wire'[h] = wire[h]  BY <2>1, <3>2, Taken
      <4> QED  BY <2>4, <3>2, <4>1 DEF FrameInv
    <3> QED  BY <3>1, <3>2
  <2> QED  BY <2>1, <2>5, Taken DEF FrameInv, Kind
<1>5. ASSUME NEW g \in Group, Validate(g) PROVE FrameInv'
  <2>1. /\ line[g] = "read" /\ Take(g) /\ validation[g]
        /\ executed' = executed \cup Executes(Head(wire[g]))
        /\ line' = [line EXCEPT ![g] = "none"]
        /\ validation' = [validation EXCEPT ![g] = FALSE]
        /\ record' = [record EXCEPT ![g] = Fresh]
    BY <1>5 DEF Validate, FrameInv
  <2>2. Phase(g) = 2 /\ Phase(g)' = 0  BY <2>1 DEF Phase, FrameInv
  <2>3. Head(wire[g]).kind = "empty"  BY <2>1, <2>2, Taken, KindCycle
  <2>4. executed' = {}  BY <2>1, <2>3 DEF Executes, FrameInv
  <2>5. \A h \in Group : h # g => Phase(h)' = Phase(h)  BY <2>1 DEF Phase, FrameInv
  <2>6. record' \in [Group -> Record]  BY <2>1, FreshIsRecord DEF FrameInv
  <2>7. ASSUME NEW h \in Group
        PROVE  /\ (Phase(h)' + Len(wire'[h])) % 3 = 0
               /\ \A i \in DOMAIN wire'[h] : wire'[h][i].kind = Kind(Phase(h)' + i - 1)
    <3>1. CASE h = g
      <4>1. (2 + Len(wire[g])) % 3 = 0 /\ Len(wire[g]) \in Nat  BY <2>2 DEF FrameInv
      <4>2. Len(wire'[g]) = Len(wire[g]) - 1  BY <2>1, Taken
      <4>a. \A n \in Nat : (2 + n) % 3 = 0 => (0 + (n - 1)) % 3 = 0  OBVIOUS
      <4>3. (0 + Len(wire'[g])) % 3 = 0  BY <4>1, <4>2, <4>a
      <4>4. ASSUME NEW i \in DOMAIN wire'[g] PROVE wire'[g][i].kind = Kind(0 + i - 1)
        <5>1. wire'[g][i].kind = Kind(2 + i)  BY <2>1, <2>2, Taken
        <5>2. wire' \in [Group -> Seq(Wired)]  BY <2>1, Taken
        <5>3. i \in Nat \ {0}  BY <5>2
        <5>4. i - 1 \in Nat /\ 3 + (i - 1) = 2 + i /\ 0 + i - 1 = i - 1 /\ 3 \in Nat /\ 3 % 3 = 0
          BY <5>3
        <5>5. Kind(3 + (i - 1)) = Kind(i - 1)  BY <5>4, KindCycle
        <5> QED  BY <5>1, <5>4, <5>5
      <4> QED  BY <2>2, <3>1, <4>3, <4>4
    <3>2. CASE h # g
      <4>1. wire'[h] = wire[h]  BY <2>1, <3>2, Taken
      <4> QED  BY <2>5, <3>2, <4>1 DEF FrameInv
    <3> QED  BY <3>1, <3>2
  <2> QED  BY <2>1, <2>4, <2>6, <2>7, Taken DEF FrameInv, Kind
<1>6. CASE UNCHANGED vars
  BY <1>6 DEF vars, replica, FrameInv, Phase
<1> QED
  BY <1>1, <1>2, <1>3, <1>4, <1>5, <1>6 DEF Next, Primary, Replica, Stopped

Base == ControlInv /\ DataInv /\ FrameInv

\* The layers that need no log always hold.
LEMMA BaseHolds == Spec => []Base
<1>1. Init => Base  BY ControlInit, DataInit, FrameInit DEF Base
<1>2. Base /\ [Next]_vars => Base'  BY ControlNext, DataNext, FrameNext DEF Base
<1> QED  BY <1>1, <1>2, PTL DEF Spec

\* Variables have their types, no record holds more than two stamps, and the
\* replica has nothing but records to deserialize (rbv.cpp's finalize clears
\* what it hands over).
THEOREM TypeCorrect == Spec => []TypeOK
<1>1. Base => TypeOK
  <2> SUFFICES ASSUME Base PROVE TypeOK  OBVIOUS
  <2> USE DEF Base
  <2>1. ASSUME NEW g \in Group
        PROVE  /\ Len(hasher[g].info) <= 2
               /\ \A i \in DOMAIN hasher[g].info : hasher[g].info[i].time \in Nat
               /\ \A i \in DOMAIN wire[g] : wire[g][i].kind \in {"record", "packet", "empty"}
    <3>1. hasher[g].info \in Seq([hash : Hash, time : Nat]) /\ wire[g] \in Seq(Wired)
      BY DEF DataInv, FrameInv, Record
    <3>2. Len(hasher[g].info) = Stampings(g)  BY DEF DataInv
    <3>3. Len(hasher[g].info) <= 2  BY <3>2 DEF Stampings
    <3>a. PICK h : h = hasher[g].info  OBVIOUS
    <3>b. \A i \in DOMAIN h : h[i] \in [hash : Hash, time : Nat]
      <4>1. PICK R : R = [hash : Hash, time : Nat]  OBVIOUS
      <4>2. h \in Seq(R)  BY <3>1, <3>a, <4>1
      <4>3. \A i \in DOMAIN h : h[i] \in R  BY <4>2
      <4> QED  BY <4>1, <4>3
    <3>4. \A i \in DOMAIN hasher[g].info : hasher[g].info[i].time \in Nat
      BY <3>a, <3>b
    <3>5. \A i \in DOMAIN wire[g] : wire[g][i] \in Wired  BY <3>1
    <3> QED  BY <3>3, <3>4, <3>5 DEF Wired
  <2>2. Entry = [key : Key, val : Value]  BY DEF Entry
  <2> QED  BY <2>1, <2>2 DEF TypeOK, ControlInv, DataInv, FrameInv
<1> QED  BY <1>1, BaseHolds, PTL

\* Primary and replica stay in step, however the lines lie in the connection.
THEOREM FramesKept == Spec => []Framed
<1>1. Base => Framed
  <2> SUFFICES ASSUME Base, NEW g \in Group, wire[g] # <<>>
               PROVE  /\ (Head(wire[g]).kind = "record") <=> ~validation[g]
                      /\ (Head(wire[g]).kind = "empty") <=> line[g] = "read"
    BY DEF Framed
  <2> USE DEF Base
  <2>1. wire[g] \in Seq(Wired)  BY DEF FrameInv
  <2>2. Head(wire[g]) = wire[g][1] /\ 1 \in DOMAIN wire[g]  BY <2>1
  <2>3. Phase(g) \in Nat /\ Phase(g) + 1 - 1 = Phase(g)  BY DEF Phase
  <2>a. wire[g][1].kind = Kind(Phase(g) + 1 - 1)  BY <2>2 DEF FrameInv
  <2>4. Head(wire[g]).kind = Kind(Phase(g))  BY <2>2, <2>3, <2>a
  <2> QED  BY <2>4, KindCycle DEF FrameInv, Phase
<1> QED  BY <1>1, BaseHolds, PTL

-----------------------------------------------------------------------------
(* Logs of operations and what they do. *)

\* An operation at the end of a log does what it does to what is there.
LEMMA Extend ==
  ASSUME NEW b \in Bucket, NEW L \in Seq(Logged), NEW A, RunInv(b, L, A),
         NEW e \in Logged, e.op = OpOf(e.id), HashOf[e.op.key] = b, e.op.kind # "other",
         Proper(A[Len(L)].chain, b), \A n \in 0 .. Len(L) : e.id \notin Vals(A[n].chain),
         NEW A1, \A n \in 0 .. Len(L) : A1[n] = A[n],
         A1[Len(L) + 1] = Outcome(A[Len(L)].chain, e.op, e.id)
  PROVE  RunInv(b, Append(L, e), A1)
<1> DEFINE N == Len(L)
           L1 == Append(L, e)
<1>1. /\ N \in Nat /\ L1 \in Seq(Logged) /\ Len(L1) = N + 1 /\ L1[N + 1] = e
      /\ \A n \in 1 .. N : L1[n] = L[n]
  <2>1. L \in Seq(Logged) /\ e \in Logged  OBVIOUS
  <2>2. /\ Append(L, e) \in Seq(Logged) /\ Len(Append(L, e)) = Len(L) + 1
        /\ Append(L, e)[Len(L) + 1] = e
        /\ \A i \in 1 .. Len(L) : Append(L, e)[i] = L[i]
    BY <2>1, AppendProperties
  <2>3. N \in Nat  OBVIOUS
  <2> QED  BY <2>2, <2>3
<1>a. \A n \in 0 .. N : A1[n] = A[n]  OBVIOUS
<1>b. A1[N + 1] = Outcome(A[N].chain, e.op, e.id)  OBVIOUS
<1>c. e.op \in Packet /\ e.id \in Value  BY DEF Logged
<1>2. Does(A[N].chain, b, e.op, e.id, A1[N + 1])
  <2>1. e.id \notin Vals(A[N].chain)  BY <1>1
  <2> QED  BY <1>b, <1>c, <2>1, OutcomeDoes
<1> HIDE DEF N, L1
<1>3. Runs(A1, L1, N + 1)
  <2>1. Runs(A, L, N)  BY DEF RunInv, N
  <2>2. A1[0] = Nothing  BY <1>1, <1>a, <2>1 DEF Runs
  <2>3. ASSUME NEW n \in 1 .. N + 1
        PROVE  A1[n] = Outcome(A1[n - 1].chain, L1[n].op, L1[n].id)
    <3>1. CASE n \in 1 .. N
      <4>1. A1[n] = A[n] /\ A1[n - 1] = A[n - 1] /\ L1[n] = L[n]  BY <1>1, <1>a, <3>1
      <4> QED  BY <2>1, <3>1, <4>1 DEF Runs
    <3>2. CASE n = N + 1
      <4>1. A1[n - 1] = A[N]  BY <1>1, <1>a, <3>2
      <4> QED  BY <1>1, <1>b, <3>2, <4>1
    <3> QED  BY <1>1, <3>1, <3>2
  <2> QED  BY <2>2, <2>3 DEF Runs
<1>4. ASSUME NEW f, NEW k \in 0 .. N + 1, Runs(f, L1, k) PROVE f[k] = A1[k]
  <2>1. \A j \in 0 .. N : j <= k => Runs(f, L, j)
    BY <1>1, <1>4 DEF Runs
  <2>2. \A j \in 0 .. N : j <= k => f[j] = A[j]  BY <2>1 DEF RunInv, N
  <2>3. CASE k \in 0 .. N  BY <1>a, <2>2, <2>3
  <2>4. CASE k = N + 1
    <3>1. f[N] = A[N]  BY <1>1, <2>2, <2>4
    <3>2. f[N + 1] = Outcome(f[N + 1 - 1].chain, L1[N + 1].op, L1[N + 1].id)
      BY <1>1, <1>4, <2>4 DEF Runs
    <3>3. N + 1 - 1 = N  BY <1>1
    <3> QED  BY <1>1, <1>b, <2>4, <3>1, <3>2, <3>3
  <2> QED  BY <1>1, <2>3, <2>4
<1>5. ASSUME NEW n \in 1 .. N + 1
      PROVE  /\ L1[n].op = OpOf(L1[n].id) /\ HashOf[L1[n].op.key] = b
             /\ L1[n].op.kind # "other"
             /\ Does(A1[n - 1].chain, b, L1[n].op, L1[n].id, A1[n])
  <2>1. CASE n \in 1 .. N
    <3>1. A1[n] = A[n] /\ A1[n - 1] = A[n - 1] /\ L1[n] = L[n]  BY <1>1, <1>a, <2>1
    <3> QED  BY <2>1, <3>1 DEF RunInv, N
  <2>2. CASE n = N + 1
    <3>1. A1[n - 1] = A[N]  BY <1>1, <1>a, <2>2
    <3> QED  BY <1>1, <1>2, <2>2, <3>1
  <2> QED  BY <1>1, <2>1, <2>2
<1>6. ASSUME NEW m \in 1 .. N + 1, NEW n \in m .. N + 1
      PROVE  A1[m].freed \cap Vals(A1[n].chain) = {}
  <2>1. CASE n \in 1 .. N
    <3>1. m \in 1 .. N /\ n \in m .. N  BY <1>1, <2>1
    <3>2. A1[m] = A[m] /\ A1[n] = A[n]  BY <1>1, <1>a, <3>1
    <3> QED  BY <3>1, <3>2 DEF RunInv, N
  <2>2. CASE n = N + 1 /\ m = N + 1  BY <1>2, <2>2 DEF Does
  <2>3. CASE n = N + 1 /\ m \in 1 .. N
    <3>1. A1[m] = A[m]  BY <1>1, <1>a, <2>3
    <3>2. Vals(A1[N + 1].chain) \subseteq Vals(A[N].chain) \cup {e.id}
      <4>1. PICK c, p, v, o : c = A[N].chain /\ p = e.op /\ v = e.id /\ o = A1[N + 1]  OBVIOUS
      <4>2. Does(c, b, p, v, o)  BY <1>2, <4>1
      <4>3. Vals(o.chain) \subseteq Vals(c) \cup {v}  BY <4>2 DEF Does
      <4> QED  BY <4>1, <4>3
    <3>3. A[m].freed \cap Vals(A[N].chain) = {}  BY <1>1, <2>3 DEF RunInv, N
    <3>4. A[m].freed \subseteq Vals(A[m - 1].chain)  BY <2>3 DEF RunInv, N, Does
    <3>5. e.id \notin Vals(A[m - 1].chain)  BY <1>1, <2>3 DEF N
    <3> QED  BY <2>3, <3>1, <3>2, <3>3, <3>4, <3>5
  <2> QED  BY <1>1, <2>1, <2>2, <2>3
<1>7. RunInv(b, L1, A1)  BY <1>1, <1>3, <1>4, <1>5, <1>6 DEF RunInv
<1> QED  BY <1>7 DEF L1

\* A value that is freed was replaced by a set of its key, after every get
\* that found it.
LEMMA Replaced ==
  ASSUME NEW b \in Bucket, NEW L \in Seq(Logged), NEW A, RunInv(b, L, A),
         NEW n \in 1 .. Len(L), A[n].result[1] = "value",
         NEW c \in Bucket, NEW M \in Seq(Logged), NEW B, RunInv(c, M, B),
         NEW m \in 1 .. Len(M), A[n].result[2] \in B[m].freed,
         c = b => M = L /\ B = A
  PROVE  m \in n + 1 .. Len(L) /\ L[m].op = [kind |-> "set", key |-> L[n].op.key]
<1> DEFINE v == A[n].result[2]
<1>1. Does(A[n - 1].chain, b, L[n].op, L[n].id, A[n]) /\ HashOf[L[n].op.key] = b
  BY DEF RunInv
<1>2. /\ A[n].chain = A[n - 1].chain /\ v \in Vals(A[n].chain)
      /\ OpOf(v).key = L[n].op.key
  BY <1>1 DEF Does
<1>3. Does(B[m - 1].chain, c, M[m].op, M[m].id, B[m]) /\ HashOf[M[m].op.key] = c
  BY DEF RunInv
<1>4. M[m].op.kind = "set" /\ OpOf(v).key = M[m].op.key  BY <1>3 DEF Does
<1>5. c = b /\ M = L /\ B = A  BY <1>1, <1>2, <1>3, <1>4
<1>6. m > n
  <2>1. m <= n => A[m].freed \cap Vals(A[n].chain) = {}
    BY <1>5 DEF RunInv
  <2>2. m \in Nat /\ n \in Nat  OBVIOUS
  <2> QED  BY <1>2, <1>5, <2>1, <2>2
<1>7. M[m].op = [kind |-> "set", key |-> L[n].op.key]
  <2>1. M[m] \in Logged  OBVIOUS
  <2>2. M[m].op \in Packet  BY <2>1 DEF Logged
  <2> QED  BY <1>2, <1>4, <2>2 DEF Packet
<1>8. m \in n + 1 .. Len(L)  BY <1>5, <1>6
<1> QED  BY <1>5, <1>7, <1>8

-----------------------------------------------------------------------------
(* Ordering records and replaying them. *)

\* The records of the first K operations of a log, and a sequence of records
\* that repeats these operations.
Written(K, L, A) == {Stamped(n, L, A) : n \in 1 .. K}
Repeats(log, K, L) ==
  /\ Len(log) = K
  /\ \A n \in 1 .. K : log[n].op = L[n].op /\ log[n].id = L[n].id

\* The records of a log, put in the order of their numbers, are the log.
LEMMA OrderedRecords ==
  ASSUME NEW K \in Nat, NEW L, NEW A
  PROVE  /\ DOMAIN Ordered(Written(K, L, A)) = 1 .. K
         /\ Len(Ordered(Written(K, L, A))) = K
         /\ \A n \in 1 .. K : Ordered(Written(K, L, A))[n] = Stamped(n, L, A)
<1>0. PICK recs : recs = Written(K, L, A)  OBVIOUS
<1>a. recs = {Stamped(n, L, A) : n \in 1 .. K}  BY <1>0 DEF Written
<1>1. \A n \in 1 .. K : Stamped(n, L, A) \in recs /\ Number(Stamped(n, L, A)) = n
  <2> TAKE n \in 1 .. K
  <2>1. Stamped(n, L, A).info[1].time = 2 * n - 2  BY DEF Stamped, Stamps
  <2>2. (2 * n - 2) \div 2 + 1 = n  OBVIOUS
  <2> QED  BY <1>a, <2>1, <2>2 DEF Number
<1> DEFINE f == [n \in 1 .. K |-> Stamped(n, L, A)]
<1>2. f \in Bijection(1 .. K, recs)
  <2>1. \A n \in 1 .. K : f[n] = Stamped(n, L, A)  OBVIOUS
  <2>2. f \in [1 .. K -> recs]  BY <1>1
  <2> HIDE DEF f
  <2>3. \A n, m \in 1 .. K : f[n] = f[m] => n = m
    <3> TAKE n, m \in 1 .. K
    <3> HAVE f[n] = f[m]
    <3>1. Number(f[n]) = n /\ Number(f[m]) = m  BY <1>1, <2>1
    <3> QED  BY <3>1
  <2>4. \A r \in recs : \E n \in 1 .. K : f[n] = r  BY <1>a, <2>1
  <2> QED  BY <2>2, <2>3, <2>4 DEF Bijection, Injection, Surjection, IsInjective
<1>3. Cardinality(recs) = K
  <2>1. ExistsBijection(1 .. K, recs)  BY <1>2 DEF ExistsBijection
  <2>2. IsFiniteSet(1 .. K) /\ Cardinality(1 .. K) = K
    <3>1. 1 \in Int /\ K \in Int  OBVIOUS
    <3>2. /\ IsFiniteSet(1 .. K)
          /\ Cardinality(1 .. K) = IF 1 > K THEN 0 ELSE K - 1 + 1
      BY <3>1, FS_Interval
    <3> QED  BY <3>2
  <2> QED  BY <2>1, <2>2, FS_Bijection
<1>4. Ordered(recs) = [n \in 1 .. K |-> CHOOSE r \in recs : Number(r) = n]
  BY <1>3 DEF Ordered
<1>5. ASSUME NEW n \in 1 .. K PROVE Ordered(recs)[n] = Stamped(n, L, A)
  <2>1. Ordered(recs)[n] = CHOOSE r \in recs : Number(r) = n  BY <1>4
  <2>2. ASSUME NEW r \in recs, Number(r) = n PROVE r = Stamped(n, L, A)
    <3>1. PICK m \in 1 .. K : r = Stamped(m, L, A)  BY <1>a
    <3>2. m = n  BY <1>1, <2>2, <3>1
    <3> QED  BY <3>1, <3>2
  <2>3. \E r \in recs : Number(r) = n  BY <1>1
  <2> QED  BY <2>1, <2>2, <2>3
<1>6. Len(Ordered(recs)) = K
  <2>1. PICK o : o = Ordered(recs)  OBVIOUS
  <2>2. \A n \in 1 .. K : o[n] \in recs  BY <1>1, <1>5, <2>1
  <2>3. o \in [1 .. K -> recs]  BY <1>4, <2>1, <2>2
  <2>4. o \in Seq(recs)  BY <2>3
  <2> QED  BY <2>1, <2>3, <2>4
<1> QED  BY <1>0, <1>4, <1>5, <1>6

\* Replaying them does what was done.
LEMMA ReplayRuns ==
  ASSUME NEW b, NEW L, NEW A, NEW K, NEW log,
         L \in Seq(Logged), K \in 0 .. Len(L), RunInv(b, L, A), Repeats(log, K, L)
  PROVE  \A n \in 0 .. K : Replay(log)[n] = A[n]
<1> DEFINE step(f, n) == IF n = 0 THEN Did(<<>>, <<>>, <<>>, {})
                         ELSE Outcome(f[n - 1].chain, log[n].op, log[n].id)
           w == [n \in 0 .. K |-> A[n]]
           r == Replay(log)
<1>0. Len(L) \in Nat /\ K \in Nat  OBVIOUS
<1>a. /\ Len(log) = K
      /\ \A n \in 1 .. K : log[n].op = L[n].op /\ log[n].id = L[n].id
  BY DEF Repeats
<1>1. r = CHOOSE f : f = [n \in 0 .. K |-> step(f, n)]  BY <1>a DEF Replay
<1>2. Runs(A, L, Len(L))  BY DEF RunInv
<1>3. \A n \in 0 .. K : w[n] = A[n]  OBVIOUS
<1>4. ASSUME NEW n \in 0 .. K PROVE A[n] = step(w, n)
  <2>1. CASE n = 0  BY <1>2, <2>1 DEF Runs, Nothing
  <2>2. CASE n # 0
    <3>1. n \in 1 .. K /\ n - 1 \in 0 .. K /\ n \in 1 .. Len(L)  BY <1>0, <2>2
    <3>2. w[n - 1] = A[n - 1]  BY <1>3, <3>1
    <3>3. A[n] = Outcome(A[n - 1].chain, L[n].op, L[n].id)  BY <1>2, <3>1 DEF Runs
    <3> QED  BY <1>a, <2>2, <3>1, <3>2, <3>3
  <2> QED  BY <2>1, <2>2
<1> HIDE DEF step
<1>5. w = [n \in 0 .. K |-> step(w, n)]  BY <1>4
<1> HIDE DEF w, r
<1>6. r = [n \in 0 .. K |-> step(r, n)]  BY <1>1, <1>5
<1>7. \A n \in 0 .. K : r[n] = step(r, n)  BY <1>6
<1>8. Runs(r, L, K)
  <2>1. r[0] = Nothing  BY <1>0, <1>7 DEF step, Nothing
  <2>2. ASSUME NEW n \in 1 .. K PROVE r[n] = Outcome(r[n - 1].chain, L[n].op, L[n].id)
    BY <1>0, <1>a, <1>7 DEF step
  <2> QED  BY <2>1, <2>2 DEF Runs
<1>9. \A n \in 0 .. K : Runs(r, L, n)  BY <1>0, <1>8 DEF Runs
<1>10. \A n \in 0 .. K : n \in 0 .. Len(L)  BY <1>0
<1>11. \A n \in 0 .. K : r[n] = A[n]  BY <1>9, <1>10 DEF RunInv
<1> QED  BY <1>11 DEF r

-----------------------------------------------------------------------------
(* The records forwarded, and about to be. *)

Has(k, b, r) ==
  \E g \in Group : \E i \in DOMAIN k[g] :
    /\ Work[g][i].kind # "other" /\ HashOf[Work[g][i].key] = b
    /\ r = [op |-> Work[g][i], id |-> <<g, i>>, info |-> k[g][i].info]

\* The records of a bucket, in terms of what each thread keeps, before and after a step.
LEMMA RecordsHas ==
  ASSUME NEW b \in Bucket
  PROVE  /\ \A r : r \in Records(b) <=> Has([g \in Group |-> Kept(g)], b, r)
         /\ \A r : r \in Records(b)' <=> Has([g \in Group |-> Kept(g)'], b, r)
<1>1. ASSUME NEW r PROVE r \in Records(b) <=> Has([g \in Group |-> Kept(g)], b, r)
  BY DEF Records, Has
<1>2. ASSUME NEW r PROVE r \in Records(b)' <=> Has([g \in Group |-> Kept(g)'], b, r)
  BY DEF Records, Has
<1> QED  BY <1>1, <1>2

\* They stay while no thread changes what it keeps.
LEMMA RecordsKept ==
  ASSUME NEW b \in Bucket, \A h \in Group : Kept(h)' = Kept(h)
  PROVE  Records(b)' = Records(b)
<1>1. [g \in Group |-> Kept(g)'] = [g \in Group |-> Kept(g)]  OBVIOUS
<1>2. PICK k, l : k = [g \in Group |-> Kept(g)] /\ l = [g \in Group |-> Kept(g)']  OBVIOUS
<1>3. \A r : (r \in Records(b) <=> Has(k, b, r)) /\ (r \in Records(b)' <=> Has(l, b, r))
  BY <1>2, RecordsHas
<1> QED  BY <1>1, <1>2, <1>3

\* One more record of a thread.
LEMMA RecordsAdded ==
  ASSUME NEW b \in Bucket, NEW g \in Group, \A h \in Group : h # g => Kept(h)' = Kept(h),
         Kept(g) \in Seq(Record), Len(Kept(g)) = done[g],
         NEW x \in Record, Kept(g)' = Append(Kept(g), x)
  PROVE  Records(b)' = Records(b) \cup
           (IF Op(g).kind # "other" /\ BucketOf(g) = b
            THEN {[op |-> Op(g), id |-> Id(g), info |-> x.info]} ELSE {})
<1>1. PICK k, l : k = [h \in Group |-> Kept(h)] /\ l = [h \in Group |-> Kept(h)']  OBVIOUS
<1>2. \A r : (r \in Records(b) <=> Has(k, b, r)) /\ (r \in Records(b)' <=> Has(l, b, r))
  BY <1>1, RecordsHas
<1>3. PICK n, s : n = done[g] + 1 /\ s = Kept(g)  OBVIOUS
<1>4. s \in Seq(Record) /\ Len(s) = n - 1 /\ k[g] = s /\ l[g] = Append(s, x) /\ n \in Nat
  BY <1>1, <1>3
<1>5. DOMAIN l[g] = DOMAIN s \cup {n} /\ n \notin DOMAIN s /\ l[g][n] = x
      /\ \A i \in DOMAIN s : l[g][i] = k[g][i]
  BY <1>4, AppendProperties
<1>6. \A h \in Group : h # g => l[h] = k[h]  BY <1>1
<1>7. Op(g) = Work[g][n] /\ Id(g) = <<g, n>> /\ BucketOf(g) = HashOf[Work[g][n].key]
  BY <1>3 DEF Op, Id, BucketOf
<1>8. ASSUME NEW r
      PROVE  Has(l, b, r) <=> Has(k, b, r) \/
               /\ Work[g][n].kind # "other" /\ HashOf[Work[g][n].key] = b
               /\ r = [op |-> Work[g][n], id |-> <<g, n>>, info |-> x.info]
  <2>1. ASSUME Has(l, b, r), ~Has(k, b, r)
        PROVE  /\ Work[g][n].kind # "other" /\ HashOf[Work[g][n].key] = b
               /\ r = [op |-> Work[g][n], id |-> <<g, n>>, info |-> x.info]
    <3>1. PICK h \in Group : \E i \in DOMAIN l[h] :
             /\ Work[h][i].kind # "other" /\ HashOf[Work[h][i].key] = b
             /\ r = [op |-> Work[h][i], id |-> <<h, i>>, info |-> l[h][i].info]
      BY <2>1 DEF Has
    <3>2. PICK i \in DOMAIN l[h] :
             /\ Work[h][i].kind # "other" /\ HashOf[Work[h][i].key] = b
             /\ r = [op |-> Work[h][i], id |-> <<h, i>>, info |-> l[h][i].info]
      BY <3>1
    <3>3. CASE h = g /\ i = n  BY <1>5, <3>2, <3>3
    <3>4. CASE ~(h = g /\ i = n)
      <4>1. i \in DOMAIN k[h] /\ l[h][i] = k[h][i]
        <5>1. CASE h = g
          <6>1. i \in DOMAIN s /\ k[g] = s  BY <1>4, <1>5, <3>4, <5>1
          <6> QED  BY <1>5, <5>1, <6>1
        <5>2. CASE h # g  BY <1>6, <5>2
        <5> QED  BY <5>1, <5>2
      <4> QED  BY <2>1, <3>2, <4>1 DEF Has
    <3> QED  BY <3>3, <3>4
  <2>2. ASSUME Has(k, b, r) PROVE Has(l, b, r)
    <3>1. PICK h \in Group : \E i \in DOMAIN k[h] :
             /\ Work[h][i].kind # "other" /\ HashOf[Work[h][i].key] = b
             /\ r = [op |-> Work[h][i], id |-> <<h, i>>, info |-> k[h][i].info]
      BY <2>2 DEF Has
    <3>2. PICK i \in DOMAIN k[h] :
             /\ Work[h][i].kind # "other" /\ HashOf[Work[h][i].key] = b
             /\ r = [op |-> Work[h][i], id |-> <<h, i>>, info |-> k[h][i].info]
      BY <3>1
    <3>3. i \in DOMAIN l[h] /\ l[h][i] = k[h][i]  BY <1>4, <1>5, <1>6
    <3> QED  BY <3>2, <3>3 DEF Has
  <2>3. ASSUME Work[g][n].kind # "other", HashOf[Work[g][n].key] = b,
               r = [op |-> Work[g][n], id |-> <<g, n>>, info |-> x.info]
        PROVE  Has(l, b, r)
    BY <1>5, <2>3 DEF Has
  <2> QED  BY <2>1, <2>2, <2>3
<1>9. \A r : r \in Records(b)' <=> r \in Records(b) \cup
           (IF Op(g).kind # "other" /\ BucketOf(g) = b
            THEN {[op |-> Op(g), id |-> Id(g), info |-> x.info]} ELSE {})
  BY <1>2, <1>7, <1>8
<1> QED  BY <1>9

\* Only a thread that leaves its bucket adds a record.
LEMMA RecordsSame ==
  ASSUME Base, NEW b \in Bucket, NEW g \in Group,
         NoOperation(g) \/ Enter(g) \/ Operate(g) \/ Reply(g) \/ Send(g) \/ Answer(g)
  PROVE  Records(b)' = Records(b)
<1> USE DEF Base
<1>1. CASE NoOperation(g)
  <2>1. /\ pc[g] = "read" /\ pc' = [pc EXCEPT ![g] = "send"] /\ Op(g).kind = "other"
        /\ sent' = sent /\ hasher' = hasher
    BY <1>1 DEF NoOperation, Go
  <2>2. Kept(g) = sent[g] /\ Kept(g)' = Append(sent[g], hasher[g])
    BY <2>1 DEF Kept, ControlInv
  <2>3. sent[g] \in Seq(Record) /\ Len(sent[g]) = done[g] /\ hasher[g] \in Record
    <3>1. Len(sent[g]) = done[g] + (IF pc[g] = "answer" THEN 1 ELSE 0) /\ done[g] \in Nat
      BY DEF DataInv, ControlInv
    <3> QED  BY <2>1, <3>1 DEF DataInv
  <2>4. \A h \in Group : h # g => Kept(h)' = Kept(h)  BY <2>1 DEF Kept, ControlInv
  <2>5. PICK x \in Record : x = hasher[g]  BY <2>3
  <2> QED  BY <2>1, <2>2, <2>3, <2>4, <2>5, RecordsAdded
<1>2. CASE Enter(g) \/ Operate(g) \/ Reply(g) \/ Answer(g)
  <2> DEFINE Moves(from, to) == pc[g] = from /\ pc' = [pc EXCEPT ![g] = to] /\ sent' = sent
  <2>a. \/ Moves("read", "body") \/ Moves("body", "leave")
        \/ (Moves("reply", "send") /\ hasher' = hasher) \/ Moves("answer", "read")
    BY <1>2 DEF Enter, Operate, Reply, Answer, Go
  <2>b. \E x : hasher' = [hasher EXCEPT ![g] = x]
    <3>1. CASE Enter(g)  BY <3>1 DEF Enter, Stamp
    <3>2. CASE Operate(g)  BY <3>2 DEF Operate
    <3>3. CASE Reply(g) \/ Answer(g)
      <4>1. hasher' = hasher  BY <3>3 DEF Reply, Answer
      <4> WITNESS hasher[g]
      <4> QED  BY <4>1 DEF DataInv
    <3> QED  BY <1>2, <3>1, <3>2, <3>3
  <2>1. /\ sent' = sent /\ \A h \in Group : h # g => pc'[h] = pc[h] /\ hasher'[h] = hasher[h]
        /\ \/ pc[g] = "read" /\ pc'[g] = "body"
           \/ pc[g] = "body" /\ pc'[g] = "leave"
           \/ pc[g] = "reply" /\ pc'[g] = "send" /\ hasher' = hasher
           \/ pc[g] = "answer" /\ pc'[g] = "read"
    BY <2>a, <2>b DEF ControlInv, DataInv
  <2> QED  BY <2>1, RecordsKept DEF Kept
<1>3. CASE Send(g)
  <2>1. /\ pc[g] = "send" /\ pc' = [pc EXCEPT ![g] = "answer"]
        /\ sent' = [sent EXCEPT ![g] = Append(sent[g], hasher[g])]
        /\ hasher' = [hasher EXCEPT ![g] = Fresh]
    BY <1>3 DEF Send, Go
  <2>2. Kept(g)' = Kept(g)  BY <2>1 DEF Kept, ControlInv, DataInv
  <2>3. \A h \in Group : h # g => Kept(h)' = Kept(h)  BY <2>1 DEF Kept, ControlInv, DataInv
  <2> QED  BY <2>2, <2>3, RecordsKept
<1> QED  BY <1>1, <1>2, <1>3

\* Leaving a bucket adds the record of the operation to those of the bucket.
LEMMA RecordsLeave ==
  ASSUME Base, NEW b \in Bucket, NEW g \in Group, Leave(g)
  PROVE  Records(b)' = Records(b) \cup
           (IF BucketOf(g) = b
            THEN {[op |-> Op(g), id |-> Id(g), info |-> hasher'[g].info]} ELSE {})
<1> USE DEF Base
<1>1. /\ pc[g] = "leave" /\ pc' = [pc EXCEPT ![g] = "reply"] /\ sent' = sent
      /\ hasher' = [hasher EXCEPT ![g] = Checkorder(hasher[g], order[BucketOf(g)])]
      /\ Op(g).kind # "other" /\ done[g] < Len(Work[g])
  BY DEF Leave, Go, Stamp, ControlInv
<1>2. BucketOf(g) \in Bucket /\ order[BucketOf(g)] \in Nat  BY <1>1, Working DEF ControlInv
<1>3. PICK t \in Nat : t = order[BucketOf(g)]  BY <1>2
<1>4. hasher[g] \in Record  BY DEF DataInv
<1>5. Checkorder(hasher[g], t) \in Record  BY <1>4, Checks
<1>6. hasher'[g] = Checkorder(hasher[g], t)  BY <1>1, <1>3 DEF DataInv
<1>7. PICK x \in Record : x = hasher'[g]  BY <1>5, <1>6
<1>8. Kept(g) = sent[g] /\ Kept(g)' = Append(sent[g], x)  BY <1>1, <1>7 DEF Kept, ControlInv
<1>9. \A h \in Group : h # g => Kept(h)' = Kept(h)  BY <1>1 DEF Kept, ControlInv, DataInv
<1>10. sent[g] \in Seq(Record) /\ Len(sent[g]) = done[g]
  <2>1. Len(sent[g]) = done[g] + (IF pc[g] = "answer" THEN 1 ELSE 0) /\ done[g] \in Nat
    BY DEF DataInv, ControlInv
  <2> QED  BY <1>1, <2>1 DEF DataInv
<1> QED  BY <1>1, <1>7, <1>8, <1>9, <1>10, RecordsAdded

-----------------------------------------------------------------------------
(* The log through a step. *)

\* The steps of the primary that add nothing to a log.
Quiet(g) == NoOperation(g) \/ Enter(g) \/ Leave(g) \/ Reply(g) \/ Send(g) \/ Answer(g)

\* What a log names are values.
LEMMA LogValues ==
  ASSUME NEW b \in Bucket, NEW L \in Seq(Logged), NEW A, RunInv(b, L, A)
  PROVE  /\ \A n \in 1 .. Len(L) : L[n].id \in Value /\ L[n].op \in Packet
         /\ \A n \in 0 .. Len(L) : Vals(A[n].chain) \subseteq Value /\ Proper(A[n].chain, b)
<1>1. \A n \in 1 .. Len(L) : L[n] \in Logged  OBVIOUS
<1>2. A[0].chain = <<>>  BY DEF RunInv, Runs, Nothing, Did
<1>3. Proper(<<>>, b)  BY DEF Proper
<1>4. ASSUME NEW n \in 0 .. Len(L) PROVE Proper(A[n].chain, b)
  <2>1. CASE n = 0  BY <1>2, <1>3, <2>1
  <2>2. CASE n # 0
    <3>1. n \in 1 .. Len(L)  BY <2>2
    <3> QED  BY <3>1 DEF RunInv, Does
  <2> QED  BY <2>1, <2>2
<1>5. \A n \in 0 .. Len(L) : Vals(A[n].chain) \subseteq Value
  BY <1>4, ValsTyped DEF Proper
<1> QED  BY <1>1, <1>4, <1>5 DEF Logged

\* A step that leaves a chain alone keeps what its log says of it.
LEMMA StateQuiet ==
  ASSUME ControlInv, [Next]_vars, NEW b \in Bucket, NEW L \in Seq(Logged), NEW A,
         RunInv(b, L, A), StateInv(b, L, A), chain'[b] = chain[b]
  PROVE  StateInv(b, L, A)'
<1>1. ASSUME NEW n \in 1 .. Len(L) PROVE Past(L[n].id)'
  <2>1. PICK v \in Value : v = L[n].id  BY LogValues
  <2>2. Past(v)'  BY <2>1, PastGrows DEF StateInv
  <2> QED  BY <2>1, <2>2
<1>2. ASSUME NEW n \in 0 .. Len(L), NEW v \in Vals(A[n].chain) PROVE Past(v)'
  <2>1. v \in Value  BY LogValues
  <2> QED  BY <2>1, PastGrows DEF StateInv
<1> QED  BY <1>1, <1>2 DEF StateInv

\* A stamp before an operation and one after it.
LEMMA StampQuiet ==
  ASSUME Base, NEW b \in Bucket, NEW L \in Seq(Logged), NEW A, NEW g \in Group,
         StampInv(b, L, A), Quiet(g),
         pc[g] \in {"body", "leave"} /\ BucketOf(g) = b => InBucket(g, L, A)
  PROVE  StampInv(b, L, A)'
<1> USE DEF Base
<1>0. Len(L) \in Nat  OBVIOUS
<1>1. ASSUME order'[b] = order[b], mutex'[b] = mutex[b], Records(b)' = Records(b),
             mutex[b] # Free => pc'[mutex[b]] = pc[mutex[b]]
      PROVE  StampInv(b, L, A)'
  <2>1. Closed(b, L)' = Closed(b, L)  BY <1>1 DEF Closed
  <2> QED  BY <1>1, <2>1 DEF StampInv, Stamped, Stamps
<1>2. CASE Enter(g)
  <2>1. /\ pc[g] = "read" /\ pc' = [pc EXCEPT ![g] = "body"] /\ done[g] < Len(Work[g])
        /\ mutex[BucketOf(g)] = Free /\ mutex' = [mutex EXCEPT ![BucketOf(g)] = g]
        /\ order' = [order EXCEPT ![BucketOf(g)] = order[BucketOf(g)] + 1]
    BY <1>2 DEF Enter, Go, Stamp
  <2>2. BucketOf(g) \in Bucket  BY <2>1, Working DEF ControlInv
  <2>3. Records(b)' = Records(b)  BY <1>2, RecordsSame
  <2>4. CASE b = BucketOf(g)
    <3>1. mutex[b] = Free /\ mutex'[b] = g /\ g # Free /\ order'[b] = order[b] + 1 /\ pc'[g] = "body"
      BY <2>1, <2>4, RbvAssumption DEF ControlInv
    <3>2. Closed(b, L) = Len(L) /\ Closed(b, L)' = Len(L)  BY <3>1 DEF Closed
    <3>3. order[b] = 2 * Len(L) /\ order'[b] = 2 * Len(L) + 1  BY <1>0, <3>1, <3>2 DEF StampInv
    <3> QED  BY <2>3, <3>1, <3>2, <3>3 DEF StampInv, Stamped, Stamps
  <2>5. CASE b # BucketOf(g)
    <3>1. order'[b] = order[b] /\ mutex'[b] = mutex[b]  BY <2>1, <2>5 DEF ControlInv
    <3>2. mutex[b] # Free => mutex[b] # g /\ mutex[b] \in Group  BY <2>1 DEF ControlInv
    <3>3. mutex[b] # Free => pc'[mutex[b]] = pc[mutex[b]]  BY <2>1, <3>2 DEF ControlInv
    <3> QED  BY <1>1, <2>3, <3>1, <3>3
  <2> QED  BY <2>4, <2>5
<1>3. CASE Leave(g)
  <2>1. /\ pc[g] = "leave" /\ pc' = [pc EXCEPT ![g] = "reply"] /\ done[g] < Len(Work[g])
        /\ mutex[BucketOf(g)] = g /\ mutex' = [mutex EXCEPT ![BucketOf(g)] = Free]
        /\ order' = [order EXCEPT ![BucketOf(g)] = order[BucketOf(g)] + 1]
        /\ hasher' = [hasher EXCEPT ![g] = Checkorder(hasher[g], order[BucketOf(g)])]
    BY <1>3 DEF Leave, Go, Stamp, ControlInv
  <2>2. BucketOf(g) \in Bucket  BY <2>1, Working DEF ControlInv
  <2>3. CASE b = BucketOf(g)
    <3>1. mutex[b] = g /\ g # Free /\ mutex'[b] = Free /\ order'[b] = order[b] + 1
      BY <2>1, <2>3, RbvAssumption DEF ControlInv
    <3>2. Closed(b, L) = Len(L) - 1 /\ Closed(b, L)' = Len(L)  BY <2>1, <3>1 DEF Closed
    <3>3. InBucket(g, L, A)  BY <2>1, <2>3
    <3>4. PICK n \in Nat \ {0} : n = Len(L)  BY <1>0, <2>1, <3>3 DEF InBucket
    <3>5. /\ L[n] = [op |-> Op(g), id |-> Id(g)]
          /\ hasher[g] = [info |-> <<[hash |-> <<>>, time |-> 2 * n - 2]>>,
                          latest |-> A[n].hash]
      BY <2>1, <3>3, <3>4 DEF InBucket
    <3>6. order[b] = 2 * n - 1 /\ order'[b] = 2 * n  BY <3>1, <3>2, <3>4 DEF StampInv
    <3>7. hasher'[g] = Checkorder(hasher[g], 2 * n - 1)  BY <2>1, <2>3, <3>6 DEF DataInv
    <3>8. hasher'[g].info = Stamps(n, A[n].hash)
      <4>1. PICK x, y : /\ x = [hash |-> <<>>, time |-> 2 * n - 2]
                        /\ y = [hash |-> A[n].hash, time |-> 2 * n - 1]
        OBVIOUS
      <4>2. hasher'[g].info = Append(<<x>>, y)  BY <3>5, <3>7, <4>1 DEF Checkorder
      <4>3. Append(<<x>>, y) = <<x, y>>  BY AppendTwo
      <4> QED  BY <4>1, <4>2, <4>3 DEF Stamps
    <3>9. Records(b)' = Records(b) \cup {Stamped(n, L, A)}
      <4>1. Records(b)' = Records(b) \cup {[op |-> Op(g), id |-> Id(g), info |-> hasher'[g].info]}
        BY <1>3, <2>3, RecordsLeave
      <4>2. L[n].op = Op(g) /\ L[n].id = Id(g)  BY <3>5
      <4> QED  BY <3>8, <4>1, <4>2 DEF Stamped
    <3>10. Records(b) = {Stamped(i, L, A) : i \in 1 .. n - 1}  BY <3>2, <3>4 DEF StampInv
    <3>11. 1 .. n = (1 .. n - 1) \cup {n}  BY <3>4
    <3>12. Records(b)' = {Stamped(i, L, A) : i \in 1 .. n}  BY <3>9, <3>10, <3>11
    <3> QED  BY <3>1, <3>2, <3>4, <3>6, <3>12 DEF StampInv, Stamped, Stamps
  <2>4. CASE b # BucketOf(g)
    <3>1. order'[b] = order[b] /\ mutex'[b] = mutex[b]  BY <2>1, <2>4 DEF ControlInv
    <3>2. mutex[b] # Free => mutex[b] # g /\ mutex[b] \in Group  BY <2>4 DEF ControlInv
    <3>3. mutex[b] # Free => pc'[mutex[b]] = pc[mutex[b]]  BY <2>1, <3>2 DEF ControlInv
    <3>4. Records(b)' = Records(b)  BY <1>3, <2>4, RecordsLeave
    <3> QED  BY <1>1, <3>1, <3>3, <3>4
  <2> QED  BY <2>3, <2>4
<1>4. CASE NoOperation(g) \/ Reply(g) \/ Send(g) \/ Answer(g)
  <2>1. /\ mutex' = mutex /\ order' = order /\ pc[g] \notin {"body", "leave"}
        /\ \E to \in Labels : pc' = [pc EXCEPT ![g] = to]
    BY <1>4 DEF NoOperation, Reply, Send, Answer, Go, Labels
  <2>2. mutex[b] # Free => mutex[b] # g /\ mutex[b] \in Group  BY <2>1 DEF ControlInv
  <2>3. mutex[b] # Free => pc'[mutex[b]] = pc[mutex[b]]  BY <2>1, <2>2 DEF ControlInv
  <2> QED  BY <1>1, <1>4, <2>1, <2>3, RecordsSame
<1> QED  BY <1>2, <1>3, <1>4 DEF Quiet

\* An answer is what the operation gave, but for a value that is freed.
LEMMA AnswerQuiet ==
  ASSUME Base, NEW L \in Seq(Logged), NEW A, NEW g \in Group, Quiet(g),
         NEW n \in 1 .. Len(L), NEW h \in Group, NEW i \in Nat \ {0},
         AnswerAt(n, h, i, L, A),
         \/ i <= done[h]
         \/ i = done[h] + 1 /\ pc[h] \in {"leave", "reply", "send", "answer"},
         \/ A[n].result[1] # "value" \/ A[n].result[2] \notin freed
         \/ \E m \in n + 1 .. Len(L) : L[m].op = [kind |-> "set", key |-> L[n].op.key]
  PROVE  AnswerAt(n, h, i, L, A)'
<1> USE DEF Base
<1>1. ASSUME done'[h] = done[h], answered' = answered,
             pc'[h] \in {"leave", "reply"} => pc[h] \in {"leave", "reply"} /\ result'[h] = result[h],
             pc'[h] \in {"send", "answer"} => i <= done[h] \/ Good(n, reply'[h], L, A)
      PROVE  AnswerAt(n, h, i, L, A)'
  <2>1. PICK d, a, s, r, p : d = done'[h] /\ a = answered'[h] /\ s = result'[h] /\ r = reply'[h] /\ p = pc'[h]
    OBVIOUS
  <2>2. i <= d => Good(n, a[i], L, A)  BY <1>1, <2>1 DEF AnswerAt
  <2>3. i = d + 1 /\ p \in {"leave", "reply"} => s = A[n].result  BY <1>1, <2>1 DEF AnswerAt
  <2>4. d \in Nat  BY <1>1, <2>1 DEF ControlInv
  <2>5. i = d + 1 /\ p \in {"send", "answer"} => Good(n, r, L, A)
    BY <1>1, <2>1, <2>4
  <2> QED  BY <2>1, <2>2, <2>3, <2>5 DEF AnswerAt, Good
<1>2. CASE NoOperation(g) \/ Enter(g)
  <2>1. /\ done' = done /\ answered' = answered /\ result' = result /\ pc[g] = "read"
        /\ \E to \in {"send", "body"} : pc' = [pc EXCEPT ![g] = to]
    BY <1>2 DEF NoOperation, Enter, Go
  <2>2. h # g => reply'[h] = reply[h]  BY <1>2 DEF NoOperation, Enter, DataInv
  <2>3. h = g => i <= done[h]  BY <2>1
  <2>4. CASE h = g  BY <1>1, <2>1, <2>3, <2>4 DEF ControlInv
  <2>5. CASE h # g
    <3>1. pc'[h] = pc[h] /\ done[h] \in Nat  BY <2>1, <2>5 DEF ControlInv
    <3>2. pc[h] \in {"send", "answer"} => i <= done[h] \/ Good(n, reply[h], L, A)
      BY <3>1 DEF AnswerAt
    <3> QED  BY <1>1, <2>1, <2>2, <2>5, <3>1, <3>2
  <2> QED  BY <2>4, <2>5
<1>3. CASE Leave(g) \/ Send(g)
  <2>1. /\ done' = done /\ answered' = answered /\ result' = result /\ reply' = reply
        /\ \/ pc[g] = "leave" /\ pc' = [pc EXCEPT ![g] = "reply"]
           \/ pc[g] = "send" /\ pc' = [pc EXCEPT ![g] = "answer"]
    BY <1>3 DEF Leave, Send, Go
  <2>2. /\ pc'[h] \in {"leave", "reply"} => pc[h] \in {"leave", "reply"}
        /\ pc'[h] \in {"send", "answer"} => pc[h] \in {"send", "answer"}
        /\ done[h] \in Nat
    BY <2>1 DEF ControlInv
  <2>3. pc[h] \in {"send", "answer"} => i <= done[h] \/ Good(n, reply[h], L, A)
    BY <2>2 DEF AnswerAt
  <2> QED  BY <1>1, <2>1, <2>2, <2>3
<1>4. CASE Reply(g)
  <2>1. /\ done' = done /\ answered' = answered /\ result' = result /\ pc[g] = "reply"
        /\ pc' = [pc EXCEPT ![g] = "send"]
        /\ \E copy \in {result[g]} \cup
             (IF result[g][1] = "value" /\ result[g][2] \in freed THEN {<<"garbage">>} ELSE {}) :
             reply' = [reply EXCEPT ![g] = copy]
    BY <1>4 DEF Reply, Go
  <2>2. done[h] \in Nat  BY DEF ControlInv
  <2>3. CASE h = g
    <3>1. pc'[h] = "send"  BY <2>1, <2>3 DEF ControlInv
    <3>2. ASSUME ~(i <= done[h]) PROVE Good(n, reply'[h], L, A)
      <4>1. result[g] = A[n].result  BY <2>1, <2>3, <3>2 DEF AnswerAt
      <4>2. \/ reply'[h] = result[g]
            \/ /\ result[g][1] = "value" /\ result[g][2] \in freed
               /\ reply'[h] = <<"garbage">>
        BY <2>1, <2>3 DEF DataInv
      <4> QED  BY <4>1, <4>2 DEF Good
    <3> QED  BY <1>1, <2>1, <3>1, <3>2
  <2>4. CASE h # g
    <3>1. pc'[h] = pc[h] /\ reply'[h] = reply[h]  BY <2>1, <2>4 DEF ControlInv, DataInv
    <3>2. pc[h] \in {"send", "answer"} => i <= done[h] \/ Good(n, reply[h], L, A)
      BY <2>2 DEF AnswerAt
    <3> QED  BY <1>1, <2>1, <3>1, <3>2
  <2> QED  BY <2>3, <2>4
<1>5. CASE Answer(g)
  <2>1. /\ pc[g] = "answer" /\ pc' = [pc EXCEPT ![g] = "read"]
        /\ done' = [done EXCEPT ![g] = done[g] + 1]
        /\ answered' = [answered EXCEPT ![g] = Append(answered[g], reply[g])]
        /\ result' = result /\ reply' = reply
    BY <1>5 DEF Answer, Go
  <2>2. done[h] \in Nat  BY DEF ControlInv
  <2>3. CASE h = g
    <3>1. PICK s, r : s = answered[g] /\ r = reply[g]  OBVIOUS
    <3>2. s \in Seq(Answers) /\ Len(s) = done[g] /\ r \in Answers  BY <3>1 DEF DataInv
    <3>3. pc'[h] = "read" /\ done'[h] = done[h] + 1 /\ answered'[h] = Append(s, r)
      BY <2>1, <2>3, <3>1 DEF ControlInv, DataInv
    <3>4. /\ \A j \in 1 .. done[g] : Append(s, r)[j] = s[j]
          /\ Append(s, r)[done[g] + 1] = r
      BY <3>2, AppendProperties
    <3>5. CASE i <= done[h]
      <4>a. i \in 1 .. done[g] /\ i # done[h] + 1 + 1  BY <2>2, <2>3, <3>5
      <4>1. Append(s, r)[i] = s[i] /\ i # done[h] + 1 + 1  BY <3>4, <4>a
      <4>2. Good(n, s[i], L, A)  BY <2>3, <3>1, <3>5 DEF AnswerAt
      <4> QED  BY <3>3, <4>1, <4>2 DEF AnswerAt, Good
    <3>6. CASE i = done[h] + 1
      <4>1. Good(n, r, L, A)  BY <2>1, <2>3, <3>1, <3>6 DEF AnswerAt
      <4>a. i = done[g] + 1 /\ i # done[h] + 1 + 1  BY <2>2, <2>3, <3>6
      <4>2. Append(s, r)[i] = r /\ i # done[h] + 1 + 1  BY <3>4, <4>a
      <4> QED  BY <3>3, <4>1, <4>2 DEF AnswerAt, Good
    <3> QED  BY <3>5, <3>6
  <2>4. CASE h # g
    <3>1. /\ pc'[h] = pc[h] /\ done'[h] = done[h] /\ answered'[h] = answered[h]
          /\ result'[h] = result[h] /\ reply'[h] = reply[h]
      BY <2>1, <2>4 DEF ControlInv, DataInv
    <3> QED  BY <3>1 DEF AnswerAt, Good
  <2> QED  BY <2>3, <2>4
<1> QED  BY <1>2, <1>3, <1>4, <1>5 DEF Quiet

\* The record of a thread in a bucket begins with the operations before its own.
LEMMA BucketQuiet ==
  ASSUME Base, NEW g \in Group, Quiet(g), NEW h \in Group, pc'[h] \in {"body", "leave"},
         NEW L \in Seq(Logged), NEW A, StampInv(BucketOf(h), L, A),
         pc[h] \in {"body", "leave"} => InBucket(h, L, A)
  PROVE  InBucket(h, L, A)' /\ BucketOf(h)' = BucketOf(h)
<1> USE DEF Base
<1>1. ASSUME pc'[h] = pc[h], hasher'[h] = hasher[h], done'[h] = done[h]
      PROVE  InBucket(h, L, A)' /\ BucketOf(h)' = BucketOf(h)
  <2>1. Op(h)' = Op(h) /\ Id(h)' = Id(h) /\ BucketOf(h)' = BucketOf(h)
    BY <1>1 DEF Op, Id, BucketOf
  <2>2. InBucket(h, L, A)  BY <1>1
  <2> QED  BY <1>1, <2>1, <2>2 DEF InBucket
<1>3. CASE NoOperation(g) \/ Leave(g) \/ Reply(g) \/ Send(g) \/ Answer(g)
  <2>1. \E to \in {"send", "reply", "answer", "read"} : pc' = [pc EXCEPT ![g] = to]
    BY <1>3 DEF NoOperation, Leave, Reply, Send, Answer, Go
  <2>2. h # g  BY <2>1 DEF ControlInv
  <2>3. pc'[h] = pc[h]  BY <2>1, <2>2 DEF ControlInv
  <2>4. hasher'[h] = hasher[h] /\ done'[h] = done[h]
    BY <1>3, <2>2 DEF NoOperation, Leave, Reply, Send, Answer, Stamp, ControlInv, DataInv
  <2> QED  BY <1>1, <2>3, <2>4
<1>4. CASE Enter(g)
  <2>1. /\ pc[g] = "read" /\ pc' = [pc EXCEPT ![g] = "body"] /\ mutex[BucketOf(g)] = Free
        /\ hasher' = [hasher EXCEPT ![g] = Checkorder(hasher[g], order[BucketOf(g)])]
        /\ done' = done
    BY <1>4 DEF Enter, Go, Stamp
  <2>2. CASE h = g
    <3>1. hasher[g] = Fresh  BY <2>1 DEF DataInv
    <3>2. order[BucketOf(g)] = 2 * Len(L)  BY <2>1, <2>2 DEF StampInv, Closed
    <3>3. hasher'[g] = Checkorder(Fresh, 2 * Len(L))  BY <2>1, <3>1, <3>2 DEF DataInv
    <3>4. PICK e : e = [hash |-> <<>>, time |-> 2 * Len(L)]  OBVIOUS
    <3>5. hasher'[g] = [info |-> Append(<<>>, e), latest |-> <<>>]
      BY <3>3, <3>4 DEF Checkorder, Fresh
    <3>6. Append(<<>>, e) = <<e>>  OBVIOUS
    <3>7. pc'[h] = "body"  BY <2>1, <2>2 DEF ControlInv
    <3>8. BucketOf(h)' = BucketOf(h)  BY <2>1 DEF BucketOf, Op
    <3> QED  BY <2>2, <3>4, <3>5, <3>6, <3>7, <3>8 DEF InBucket
  <2>3. CASE h # g
    <3>1. pc'[h] = pc[h] /\ hasher'[h] = hasher[h] /\ done'[h] = done[h]
      BY <2>1, <2>3 DEF ControlInv, DataInv
    <3> QED  BY <1>1, <3>1
  <2> QED  BY <2>2, <2>3
<1> QED  BY <1>3, <1>4 DEF Quiet

-----------------------------------------------------------------------------
(* The logs are there in every state. *)

\* The logs are empty at the start.
LEMMA LogInit == Init => \E L, A : LogInv(L, A)
<1> SUFFICES ASSUME Init PROVE \E L, A : LogInv(L, A)  OBVIOUS
<1> DEFINE L == [b \in Bucket |-> <<>>]
           A == [b \in Bucket |-> [n \in {0} |-> Nothing]]
<1>1. \A b \in Bucket : L[b] = <<>> /\ A[b][0] = Nothing /\ Len(L[b]) = 0  OBVIOUS
<1>2. Nothing.chain = <<>> /\ Vals(<<>>) = {}  BY DEF Nothing, Did, Vals
<1>3. L \in [Bucket -> Seq(Logged)]  OBVIOUS
<1> HIDE DEF L, A
<1>4. \A b \in Bucket : RunInv(b, L[b], A[b])
  BY <1>1 DEF RunInv, Runs
<1>5. \A b \in Bucket : StateInv(b, L[b], A[b])
  <2> TAKE b \in Bucket
  <2>1. \A n \in 0 .. 0 : n = 0  OBVIOUS
  <2>2. chain[b] = <<>>  BY DEF Init
  <2> QED  BY <1>1, <1>2, <2>1, <2>2 DEF StateInv
<1>6. \A b \in Bucket : StampInv(b, L[b], A[b])
  <2> TAKE b \in Bucket
  <2>1. \A g \in Group : Kept(g) = <<>>  BY DEF Init, Kept
  <2>2. PICK k : k = [g \in Group |-> Kept(g)]  OBVIOUS
  <2>3. \A g \in Group : DOMAIN k[g] = {}  BY <2>1, <2>2
  <2>4. \A r : ~Has(k, b, r)  BY <2>3 DEF Has
  <2>5. Records(b) = {}  BY <2>2, <2>4, RecordsHas
  <2>6. order[b] = 0 /\ mutex[b] = Free  BY DEF Init
  <2>7. Closed(b, L[b]) = 0  BY <1>1, <2>6 DEF Closed
  <2>8. 1 .. 0 = {}  OBVIOUS
  <2>9. {Stamped(n, L[b], A[b]) : n \in 1 .. 0} = {}  BY <2>8
  <2> QED  BY <2>5, <2>6, <2>7, <2>9 DEF StampInv
<1>7. \A b \in Bucket : AnswerInv(L[b], A[b])  BY <1>1 DEF AnswerInv
<1>8. \A g \in Group : pc[g] = "read"  BY DEF Init
<1>9. freed = {}  BY DEF Init
<1>10. LogInv(L, A)  BY <1>3, <1>4, <1>5, <1>6, <1>7, <1>8, <1>9 DEF LogInv
<1> QED  BY <1>10

\* A get that found a value that is freed by now comes before the set that
\* freed it.
LEMMA FreedLater ==
  ASSUME NEW L, NEW A, LogInv(L, A), NEW b \in Bucket, NEW n \in 1 .. Len(L[b]),
         A[b][n].result[1] = "value", A[b][n].result[2] \in freed
  PROVE  \E m \in n + 1 .. Len(L[b]) : L[b][m].op = [kind |-> "set", key |-> L[b][n].op.key]
<1>1. PICK c \in Bucket : \E m \in 1 .. Len(L[c]) : A[b][n].result[2] \in A[c][m].freed
  BY DEF LogInv
<1>2. PICK m \in 1 .. Len(L[c]) : A[b][n].result[2] \in A[c][m].freed  BY <1>1
<1>3. PICK M, B : M = L[c] /\ B = A[c]  OBVIOUS
<1>4. PICK N, D : N = L[b] /\ D = A[b]  OBVIOUS
<1>5. /\ M \in Seq(Logged) /\ N \in Seq(Logged) /\ RunInv(c, M, B) /\ RunInv(b, N, D)
      /\ c = b => M = N /\ B = D
  BY <1>3, <1>4 DEF LogInv
<1>6. /\ n \in 1 .. Len(N) /\ m \in 1 .. Len(M) /\ D[n].result[1] = "value"
      /\ D[n].result[2] \in B[m].freed
  BY <1>2, <1>3, <1>4
<1>7. m \in n + 1 .. Len(N) /\ N[m].op = [kind |-> "set", key |-> N[n].op.key]
  BY <1>5, <1>6, Replaced
<1> QED  BY <1>4, <1>7

\* What a log says is no matter of the state.
LEMMA RunInvRigid ==
  ASSUME NEW b, NEW L, NEW A, RunInv(b, L, A) PROVE RunInv(b, L, A)'
BY ZenonT(30)
   DEF RunInv, Runs, Nothing, Outcome, Get, Set, Del, Did, Walk, Holds, Position, Does,
       Outcomes, Hash, Answers, Entry, Value, Proper, Vals, OpOf

\* A step that does no operation keeps the log.
LEMMA LogQuiet ==
  ASSUME Base, [Next]_vars, NEW g \in Group, Quiet(g), NEW L, NEW A, LogInv(L, A)
  PROVE  LogInv(L, A)'
<1>1. chain' = chain /\ freed' = freed
  BY DEF Quiet, NoOperation, Enter, Leave, Reply, Send, Answer
<1>2. ASSUME NEW b \in Bucket
      PROVE  /\ RunInv(b, L[b], A[b])
             /\ (StateInv(b, L[b], A[b]) /\ StampInv(b, L[b], A[b]) /\ AnswerInv(L[b], A[b]))'
  <2>1. PICK M, B : M = L[b] /\ B = A[b]  OBVIOUS
  <2>2. M \in Seq(Logged) /\ RunInv(b, M, B) /\ StateInv(b, M, B) /\ StampInv(b, M, B)
        /\ AnswerInv(M, B)
    BY <2>1 DEF LogInv
  <2>3. StateInv(b, M, B)'  BY <1>1, <2>2, StateQuiet DEF Base
  <2>4. StampInv(b, M, B)'
    <3>1. pc[g] \in {"body", "leave"} /\ BucketOf(g) = b => InBucket(g, M, B)
      BY <2>1 DEF LogInv
    <3> QED  BY <2>2, <3>1, StampQuiet
  <2>5. ASSUME NEW n \in 1 .. Len(M) PROVE AnswerAt(n, M[n].id[1], M[n].id[2], M, B)'
    <3>1. PICK v \in Value : v = M[n].id  BY <2>2, LogValues
    <3>2. PICK h, i : h = v[1] /\ i = v[2]  OBVIOUS
    <3>3. h \in Group /\ i \in Nat \ {0}  BY <3>1, <3>2 DEF Value
    <3>4. AnswerAt(n, h, i, M, B)  BY <2>2, <3>1, <3>2 DEF AnswerInv
    <3>5. \/ i <= done[h]
          \/ i = done[h] + 1 /\ pc[h] \in {"leave", "reply", "send", "answer"}
      BY <2>2, <3>1, <3>2 DEF StateInv, Past
    <3>6. \/ B[n].result[1] # "value" \/ B[n].result[2] \notin freed
          \/ \E m \in n + 1 .. Len(M) : M[m].op = [kind |-> "set", key |-> M[n].op.key]
      BY <2>1, FreedLater
    <3>7. AnswerAt(n, h, i, M, B)'  BY <2>2, <3>3, <3>4, <3>5, <3>6, AnswerQuiet
    <3> QED  BY <3>1, <3>2, <3>7
  <2>6. AnswerInv(M, B)'  BY <2>5 DEF AnswerInv
  <2> QED  BY <2>1, <2>2, <2>3, <2>4, <2>6
<1>3. ASSUME NEW h \in Group, pc'[h] \in {"body", "leave"}
      PROVE  InBucket(h, L[BucketOf(h)], A[BucketOf(h)])'
  <2>1. BucketOf(h) \in Bucket
    <3>1. pc[h] # "read" \/ Enter(h)
      <4>1. SUFFICES ASSUME pc[h] = "read" PROVE Enter(h)  OBVIOUS
      <4>2. pc \in [Group -> Labels]  BY DEF Base, ControlInv
      <4>3. CASE Enter(g)
        <5>1. \A k \in Group : k # g => pc'[k] = pc[k]  BY <4>2, <4>3 DEF Enter, Go
        <5> QED  BY <1>3, <4>1, <4>3, <5>1
      <4>4. CASE ~Enter(g)
        <5>1. NoOperation(g) \/ Leave(g) \/ Reply(g) \/ Send(g) \/ Answer(g)
          BY <4>4 DEF Quiet
        <5>2. \E to \in {"reply", "send", "answer", "read"} : pc' = [pc EXCEPT ![g] = to]
          BY <5>1 DEF NoOperation, Leave, Reply, Send, Answer, Go
        <5> QED  BY <1>3, <4>1, <4>2, <5>2
      <4> QED  BY <4>3, <4>4
    <3>2. done[h] < Len(Work[h])  BY <3>1 DEF Enter, Base, ControlInv
    <3> QED  BY <3>2, Working DEF Base, ControlInv
  <2>2. PICK b \in Bucket : b = BucketOf(h)  BY <2>1
  <2>3. PICK M, B : M = L[b] /\ B = A[b]  OBVIOUS
  <2>4. M \in Seq(Logged) /\ StampInv(b, M, B)  BY <2>3 DEF LogInv
  <2>5. pc[h] \in {"body", "leave"} => InBucket(h, M, B)  BY <2>2, <2>3 DEF LogInv
  <2>6. InBucket(h, M, B)' /\ BucketOf(h)' = BucketOf(h)
    BY <1>3, <2>2, <2>4, <2>5, BucketQuiet
  <2> QED  BY <2>2, <2>3, <2>6
<1>4. \A b \in Bucket : RunInv(b, L[b], A[b])'
  BY <1>2, RunInvRigid
<1> QED  BY <1>1, <1>2, <1>3, <1>4 DEF LogInv

\* The answers to the operations before one that is added.
LEMMA AnswerOperate ==
  ASSUME Base, NEW g \in Group, Operate(g),
         NEW M \in Seq(Logged), NEW B, NEW M1 \in Seq(Logged), NEW B1,
         Len(M) <= Len(M1), \A j \in 1 .. Len(M) : M1[j] = M[j] /\ B1[j] = B[j],
         NEW n \in 1 .. Len(M), NEW h \in Group, NEW i \in Nat \ {0},
         AnswerAt(n, h, i, M, B),
         \/ i <= done[h]
         \/ i = done[h] + 1 /\ pc[h] \in {"leave", "reply", "send", "answer"}
  PROVE  AnswerAt(n, h, i, M1, B1)'
<1> USE DEF Base
<1>1. /\ pc[g] = "body" /\ pc' = [pc EXCEPT ![g] = "leave"]
      /\ UNCHANGED <<reply, done, answered>>
      /\ \E x : result' = [result EXCEPT ![g] = x]
  BY DEF Operate, Go
<1>2. ASSUME NEW a, Good(n, a, M, B) PROVE Good(n, a, M1, B1)
  <2>1. B1[n] = B[n] /\ M1[n] = M[n] /\ n \in Nat /\ Len(M) \in Nat /\ Len(M1) \in Nat  OBVIOUS
  <2>2. \A m \in n + 1 .. Len(M) : m \in n + 1 .. Len(M1) /\ M1[m] = M[m]  BY <2>1
  <2> QED  BY <1>2, <2>1, <2>2 DEF Good
<1>3. done[h] \in Nat /\ B1[n] = B[n]  BY DEF ControlInv
<1>4. CASE h = g
  <2>1. i <= done[g]  BY <1>1, <1>4
  <2>2. Good(n, answered[g][i], M1, B1)  BY <1>2, <1>4, <2>1 DEF AnswerAt
  <2>3. i # done[g] + 1  BY <1>3, <1>4, <2>1
  <2>4. PICK d, a : d = done[g] /\ a = answered[g]  OBVIOUS
  <2>5. done'[g] = d /\ answered'[g] = a /\ Good(n, a[i], M1, B1) /\ i # d + 1
    BY <1>1, <2>2, <2>3, <2>4
  <2> QED  BY <1>4, <2>5 DEF AnswerAt, Good
<1>5. CASE h # g
  <2>1. PICK d, a, s, r, p : d = done[h] /\ a = answered[h] /\ s = result[h] /\ r = reply[h] /\ p = pc[h]
    OBVIOUS
  <2>2. /\ done'[h] = d /\ answered'[h] = a /\ result'[h] = s /\ reply'[h] = r /\ pc'[h] = p
    BY <1>1, <1>5, <2>1 DEF ControlInv, DataInv
  <2>3. /\ i <= d => Good(n, a[i], M1, B1)
        /\ i = d + 1 /\ p \in {"leave", "reply"} => s = B1[n].result
        /\ i = d + 1 /\ p \in {"send", "answer"} => Good(n, r, M1, B1)
    BY <1>2, <1>3, <2>1 DEF AnswerAt
  <2> QED  BY <2>2, <2>3 DEF AnswerAt, Good
<1> QED  BY <1>4, <1>5

\* An operation extends the log of its bucket, and no other.
LEMMA LogOperate ==
  ASSUME Base, [Next]_vars, NEW g \in Group, Operate(g), NEW L, NEW A, LogInv(L, A)
  PROVE  \E L1, A1 : LogInv(L1, A1)'
<1> USE DEF Base
<1>0. /\ pc[g] = "body" /\ done[g] < Len(Work[g]) /\ Op(g).kind # "other"
      /\ mutex[BucketOf(g)] = g
  BY DEF Operate, Go, ControlInv
<1>1. /\ BucketOf(g) \in Bucket /\ Op(g) \in Packet /\ Id(g) \in Value
      /\ OpOf(Id(g)) = Op(g) /\ HashOf[Op(g).key] = BucketOf(g)
      /\ Id(g)[1] = g /\ Id(g)[2] = done[g] + 1
  BY <1>0, Working DEF ControlInv, BucketOf
<1>2. PICK b \in Bucket : b = BucketOf(g)  BY <1>1
<1>3. PICK e : e = [op |-> Op(g), id |-> Id(g)]  OBVIOUS
<1>4. /\ e \in Logged /\ e.op = Op(g) /\ e.id = Id(g) /\ e.op = OpOf(e.id)
      /\ HashOf[e.op.key] = b /\ e.op.kind # "other"
      /\ e.id[1] = g /\ e.id[2] = done[g] + 1 /\ e.id \in Value
  BY <1>0, <1>1, <1>2, <1>3 DEF Logged
<1>5. PICK M, B : M = L[b] /\ B = A[b]  OBVIOUS
<1>6. /\ M \in Seq(Logged) /\ RunInv(b, M, B) /\ StateInv(b, M, B) /\ StampInv(b, M, B)
      /\ AnswerInv(M, B)
  BY <1>5 DEF LogInv
<1>7. PICK N \in Nat : N = Len(M)  BY <1>6
<1>8. PICK out : out = Outcome(B[N].chain, e.op, e.id)  OBVIOUS
<1>9. chain[b] = B[N].chain  BY <1>6, <1>7 DEF StateInv
<1>10. /\ pc' = [pc EXCEPT ![g] = "leave"] /\ chain' = [chain EXCEPT ![b] = out.chain]
       /\ hasher' = [hasher EXCEPT ![g].latest = hasher[g].latest \o out.hash]
       /\ result' = [result EXCEPT ![g] = out.result]
       /\ freed' = freed \cup out.freed
       /\ UNCHANGED <<mutex, order, reply, done, answered, sent>>
  BY <1>2, <1>4, <1>8, <1>9 DEF Operate, Go
<1>11. ~Past(e.id)  BY <1>0, <1>4 DEF Past, ControlInv
<1>12. \A n \in 0 .. N : e.id \notin Vals(B[n].chain)  BY <1>6, <1>7, <1>11 DEF StateInv
<1>13. PICK M1 : M1 = Append(M, e)  OBVIOUS
<1>14. PICK B1 : B1 = [n \in 0 .. N + 1 |-> IF n = N + 1 THEN out ELSE B[n]]  OBVIOUS
<1>15. B1[N + 1] = out /\ \A n \in 0 .. N : B1[n] = B[n]  BY <1>14
<1>16. Proper(B[N].chain, b)  BY <1>6, <1>7, LogValues
<1>17. /\ RunInv(b, M1, B1) /\ M1 \in Seq(Logged) /\ Len(M1) = N + 1 /\ M1[N + 1] = e
       /\ \A n \in 1 .. N : M1[n] = M[n]
  <2>1. /\ \A n \in 0 .. Len(M) : B1[n] = B[n] /\ e.id \notin Vals(B[n].chain)
        /\ B1[Len(M) + 1] = Outcome(B[Len(M)].chain, e.op, e.id)
        /\ Proper(B[Len(M)].chain, b)
    BY <1>7, <1>8, <1>12, <1>15, <1>16
  <2>2. RunInv(b, Append(M, e), B1)  BY <1>4, <1>6, <2>1, Extend
  <2>3. /\ Append(M, e) \in Seq(Logged) /\ Len(Append(M, e)) = Len(M) + 1
        /\ Append(M, e)[Len(M) + 1] = e
        /\ \A n \in 1 .. Len(M) : Append(M, e)[n] = M[n]
    BY <1>4, <1>6, AppendProperties
  <2> QED  BY <1>7, <1>13, <2>2, <2>3
<1>18. PICK L1 : L1 = [L EXCEPT ![b] = M1]  OBVIOUS
<1>19. PICK A1 : A1 = [c \in Bucket |-> IF c = b THEN B1 ELSE A[c]]  OBVIOUS
<1>20. /\ L1 \in [Bucket -> Seq(Logged)] /\ L1[b] = M1 /\ A1[b] = B1
       /\ \A c \in Bucket : c # b => L1[c] = L[c] /\ A1[c] = A[c]
  <2>1. L \in [Bucket -> Seq(Logged)]  BY DEF LogInv
  <2> QED  BY <1>17, <1>18, <1>19, <2>1
<1>21. Past(e.id)'
  <2>1. pc'[g] = "leave" /\ done'[g] = done[g]  BY <1>10 DEF ControlInv
  <2> QED  BY <1>4, <2>1 DEF Past
<1>22. Does(B[N].chain, b, e.op, e.id, out)
  <2>1. N + 1 \in 1 .. Len(M1) /\ N + 1 - 1 = N /\ N \in 0 .. N  BY <1>17
  <2>2. Does(B1[N + 1 - 1].chain, b, M1[N + 1].op, M1[N + 1].id, B1[N + 1])
    BY <1>17, <2>1 DEF RunInv
  <2>3. B1[N + 1 - 1] = B[N]  BY <1>15, <2>1
  <2> QED  BY <1>15, <1>17, <2>2, <2>3
<1>23. StateInv(b, M1, B1)'
  <2>1. chain'[b] = B1[Len(M1)].chain  BY <1>10, <1>15, <1>17 DEF DataInv
  <2>2. ASSUME NEW n \in 1 .. Len(M1) PROVE Past(M1[n].id)'
    <3>1. CASE n = N + 1  BY <1>17, <1>21, <3>1
    <3>2. CASE n # N + 1
      <4>1. n \in 1 .. N  BY <1>17, <3>2
      <4>2. PICK v \in Value : v = M[n].id  BY <1>6, <1>7, <4>1, LogValues
      <4>3. Past(v)'  BY <1>6, <1>7, <4>1, <4>2, PastGrows DEF StateInv
      <4> QED  BY <1>17, <4>1, <4>2, <4>3
    <3> QED  BY <3>1, <3>2
  <2>3. ASSUME NEW n \in 0 .. Len(M1), NEW v \in Vals(B1[n].chain) PROVE Past(v)'
    <3>1. ASSUME NEW m \in 0 .. N, NEW u \in Vals(B[m].chain) PROVE Past(u)'
      <4>1. u \in Value /\ Past(u)  BY <1>6, <1>7, LogValues DEF StateInv
      <4> QED  BY <4>1, PastGrows
    <3>2. CASE n = N + 1
      <4>1. v \in Vals(B[N].chain) \cup {e.id}  BY <1>15, <1>22, <3>2 DEF Does
      <4>2. N \in 0 .. N  OBVIOUS
      <4> QED  BY <1>21, <3>1, <4>1, <4>2
    <3>3. CASE n # N + 1
      <4>1. n \in 0 .. N  BY <1>17, <3>3
      <4> QED  BY <1>15, <3>1, <4>1
    <3> QED  BY <3>2, <3>3
  <2> QED  BY <2>1, <2>2, <2>3 DEF StateInv
<1>24. StampInv(b, M1, B1)'
  <2>1. /\ mutex[b] = g /\ mutex'[b] = g /\ g # Free /\ order'[b] = order[b] /\ pc'[g] = "leave"
    BY <1>0, <1>2, <1>10, RbvAssumption DEF ControlInv
  <2>2. Closed(b, M) = N /\ Closed(b, M1)' = N  BY <1>0, <1>7, <1>17, <2>1 DEF Closed
  <2>3. Records(b)' = Records(b)  BY RecordsSame
  <2>4. \A n \in 1 .. N : Stamped(n, M1, B1) = Stamped(n, M, B)
    BY <1>15, <1>17 DEF Stamped
  <2>5. Records(b) = {Stamped(n, M1, B1) : n \in 1 .. N}
    <3>1. Records(b) = {Stamped(n, M, B) : n \in 1 .. N}  BY <1>6, <2>2 DEF StampInv
    <3> QED  BY <2>4, <3>1
  <2>6. order[b] = 2 * N + 1  BY <1>6, <2>1, <2>2 DEF StampInv
  <2> QED  BY <2>1, <2>2, <2>3, <2>5, <2>6 DEF StampInv, Stamped, Stamps
<1>25. AnswerInv(M1, B1)'
  <2>1. ASSUME NEW n \in 1 .. Len(M1) PROVE AnswerAt(n, M1[n].id[1], M1[n].id[2], M1, B1)'
    <3>1. CASE n = N + 1
      <4>1. /\ result'[g] = out.result /\ pc'[g] = "leave" /\ done'[g] = done[g] /\ done[g] \in Nat
        BY <1>10 DEF ControlInv, DataInv
      <4>2. AnswerAt(n, g, done[g] + 1, M1, B1)'
        <5>1. PICK d \in Nat : d = done[g]  BY <4>1
        <5>2. AnswerAt(n, g, d + 1, M1, B1)'  BY <1>15, <3>1, <4>1, <5>1 DEF AnswerAt
        <5> QED  BY <4>1, <5>1, <5>2
      <4>3. PICK i : i = done[g] + 1  OBVIOUS
      <4>4. AnswerAt(n, g, i, M1, B1)'
        <5>1. done'[g] = done[g]  BY <4>1
        <5> QED  BY <1>15, <3>1, <4>1, <4>3 DEF AnswerAt
      <4> QED  BY <1>4, <1>17, <3>1, <4>3, <4>4
    <3>2. CASE n # N + 1
      <4>1. n \in 1 .. Len(M) /\ M1[n] = M[n]  BY <1>7, <1>17, <3>2
      <4>2. PICK v \in Value : v = M[n].id  BY <1>6, <4>1, LogValues
      <4>3. PICK h, i : h = v[1] /\ i = v[2]  OBVIOUS
      <4>4. h \in Group /\ i \in Nat \ {0}  BY <4>2, <4>3 DEF Value
      <4>5. AnswerAt(n, h, i, M, B)  BY <1>6, <4>1, <4>2, <4>3 DEF AnswerInv
      <4>6. \/ i <= done[h]
            \/ i = done[h] + 1 /\ pc[h] \in {"leave", "reply", "send", "answer"}
        BY <1>6, <4>1, <4>2, <4>3 DEF StateInv, Past
      <4>7. Len(M) <= Len(M1) /\ \A j \in 1 .. Len(M) : M1[j] = M[j] /\ B1[j] = B[j]
        BY <1>7, <1>15, <1>17
      <4>8. AnswerAt(n, h, i, M1, B1)'
        BY <1>6, <1>17, <4>1, <4>4, <4>5, <4>6, <4>7, AnswerOperate
      <4> QED  BY <4>1, <4>2, <4>3, <4>8
    <3> QED  BY <3>1, <3>2
  <2> QED  BY <2>1 DEF AnswerInv
<1>26. ASSUME NEW c \in Bucket, c # b
       PROVE  /\ RunInv(c, L[c], A[c])
              /\ (StateInv(c, L[c], A[c]) /\ StampInv(c, L[c], A[c]) /\ AnswerInv(L[c], A[c]))'
  <2>1. PICK P, Q : P = L[c] /\ Q = A[c]  OBVIOUS
  <2>2. P \in Seq(Logged) /\ RunInv(c, P, Q) /\ StateInv(c, P, Q) /\ StampInv(c, P, Q)
        /\ AnswerInv(P, Q)
    BY <2>1 DEF LogInv
  <2>3. StateInv(c, P, Q)'
    <3>1. chain'[c] = chain[c]  BY <1>10, <1>26 DEF DataInv
    <3> QED  BY <2>2, <3>1, StateQuiet
  <2>4. StampInv(c, P, Q)'
    <3>1. mutex[c] # Free => mutex[c] \in Group /\ mutex[c] # g
      BY <1>2, <1>26 DEF ControlInv
    <3>2. mutex[c] # Free => pc'[mutex[c]] = pc[mutex[c]]  BY <1>10, <3>1 DEF ControlInv
    <3>3. Closed(c, P)' = Closed(c, P)  BY <1>10, <3>2 DEF Closed
    <3>4. Records(c)' = Records(c)  BY RecordsSame
    <3> QED  BY <1>10, <2>2, <3>3, <3>4 DEF StampInv, Stamped, Stamps
  <2>5. ASSUME NEW n \in 1 .. Len(P) PROVE AnswerAt(n, P[n].id[1], P[n].id[2], P, Q)'
    <3>1. PICK v \in Value : v = P[n].id  BY <2>2, LogValues
    <3>2. PICK h, i : h = v[1] /\ i = v[2]  OBVIOUS
    <3>3. h \in Group /\ i \in Nat \ {0}  BY <3>1, <3>2 DEF Value
    <3>4. AnswerAt(n, h, i, P, Q)  BY <2>2, <3>1, <3>2 DEF AnswerInv
    <3>5. \/ i <= done[h]
          \/ i = done[h] + 1 /\ pc[h] \in {"leave", "reply", "send", "answer"}
      BY <2>2, <3>1, <3>2 DEF StateInv, Past
    <3>6. Len(P) <= Len(P)  BY <2>2
    <3>7. AnswerAt(n, h, i, P, Q)'  BY <2>2, <3>3, <3>4, <3>5, <3>6, AnswerOperate
    <3> QED  BY <3>1, <3>2, <3>7
  <2>6. AnswerInv(P, Q)'  BY <2>5 DEF AnswerInv
  <2> QED  BY <2>1, <2>2, <2>3, <2>4, <2>6
<1>27. ASSUME NEW c \in Bucket
       PROVE  (RunInv(c, L1[c], A1[c]) /\ StateInv(c, L1[c], A1[c])
               /\ StampInv(c, L1[c], A1[c]) /\ AnswerInv(L1[c], A1[c]))'
  <2>1. CASE c = b
    <3>1. RunInv(b, M1, B1)'  BY <1>17, RunInvRigid
    <3> QED  BY <1>20, <1>23, <1>24, <1>25, <2>1, <3>1
  <2>2. CASE c # b
    <3>1. PICK P, Q : P = L[c] /\ Q = A[c]  OBVIOUS
    <3>2. RunInv(c, P, Q) /\ (StateInv(c, P, Q) /\ StampInv(c, P, Q) /\ AnswerInv(P, Q))'
      BY <1>26, <2>2, <3>1
    <3>3. RunInv(c, P, Q)'  BY <3>2, RunInvRigid
    <3> QED  BY <1>20, <2>2, <3>1, <3>2, <3>3
  <2> QED  BY <2>1, <2>2
<1>28. ASSUME NEW h \in Group, pc'[h] \in {"body", "leave"}
       PROVE  InBucket(h, L1[BucketOf(h)], A1[BucketOf(h)])'
  <2>1. Op(h)' = Op(h) /\ Id(h)' = Id(h) /\ BucketOf(h)' = BucketOf(h)
    BY <1>10 DEF Op, Id, BucketOf
  <2>2. CASE h = g
    <3>1. InBucket(g, M, B)  BY <1>0, <1>2, <1>5 DEF LogInv
    <3>2. hasher[g] = [info |-> <<[hash |-> <<>>, time |-> 2 * N]>>, latest |-> <<>>]
      BY <1>0, <1>7, <3>1 DEF InBucket
    <3>3. out.hash \in Seq(Key \cup Value)  BY <1>22 DEF Does, Outcomes, Hash
    <3>4. <<>> \o out.hash = out.hash  BY <3>3
    <3>a. PICK x : x = <<[hash |-> <<>>, time |-> 2 * N]>>  OBVIOUS
    <3>b. hasher[g] = [info |-> x, latest |-> <<>>]  BY <3>2, <3>a
    <3>c. hasher'[g] = [hasher[g] EXCEPT !.latest = hasher[g].latest \o out.hash]
      BY <1>10 DEF DataInv
    <3>d. hasher'[g] = [info |-> x, latest |-> out.hash]  BY <3>4, <3>b, <3>c
    <3>5. hasher'[g] = [info |-> <<[hash |-> <<>>, time |-> 2 * N]>>, latest |-> out.hash]
      BY <3>a, <3>d
    <3>6. 2 * (N + 1) - 2 = 2 * N /\ N + 1 > 0  OBVIOUS
    <3>7. pc'[g] = "leave"  BY <1>10 DEF ControlInv
    <3>8. InBucket(g, M1, B1)'
      <4>1. M1[Len(M1)] = [op |-> Op(g)', id |-> Id(g)']  BY <1>3, <1>17, <2>1, <2>2
      <4>2. hasher'[g] = [info |-> <<[hash |-> <<>>, time |-> 2 * Len(M1) - 2]>>,
                          latest |-> B1[Len(M1)].hash]
        BY <1>15, <1>17, <3>5, <3>6
      <4> QED  BY <1>17, <3>6, <3>7, <4>1, <4>2 DEF InBucket
    <3> QED  BY <1>2, <1>20, <2>1, <2>2, <3>8
  <2>3. CASE h # g
    <3>1. pc'[h] = pc[h] /\ hasher'[h] = hasher[h]  BY <1>10, <2>3 DEF ControlInv, DataInv
    <3>2. pc[h] \in {"body", "leave"}  BY <1>28, <3>1
    <3>3. mutex[BucketOf(h)] = h /\ done[h] < Len(Work[h])  BY <3>2 DEF ControlInv
    <3>4. BucketOf(h) \in Bucket /\ BucketOf(h) # b
      BY <1>0, <1>2, <2>3, <3>3, Working DEF ControlInv
    <3>5. PICK c \in Bucket : c = BucketOf(h) /\ c # b  BY <3>4
    <3>6. PICK P, Q : P = L[c] /\ Q = A[c]  OBVIOUS
    <3>7. InBucket(h, P, Q)  BY <3>2, <3>5, <3>6 DEF LogInv
    <3>8. InBucket(h, P, Q)'  BY <2>1, <3>1, <3>7 DEF InBucket
    <3> QED  BY <1>20, <2>1, <3>5, <3>6, <3>8
  <2> QED  BY <2>2, <2>3
<1>29. \A v \in freed' : \E c \in Bucket : \E m \in 1 .. Len(L1[c]) : v \in A1[c][m].freed
  <2>1. TAKE v \in freed'
  <2>2. CASE v \in freed
    <3>1. PICK c \in Bucket : \E m \in 1 .. Len(L[c]) : v \in A[c][m].freed
      BY <2>2 DEF LogInv
    <3>2. PICK m \in 1 .. Len(L[c]) : v \in A[c][m].freed  BY <3>1
    <3>3. m \in 1 .. Len(L1[c]) /\ v \in A1[c][m].freed
      <4>1. CASE c = b
        <5>1. m \in 1 .. N /\ v \in B[m].freed  BY <1>5, <1>7, <3>2, <4>1
        <5>2. m \in 1 .. N + 1 /\ m \in 0 .. N  BY <5>1
        <5> QED  BY <1>15, <1>17, <1>20, <4>1, <5>1, <5>2
      <4>2. CASE c # b  BY <1>20, <3>2, <4>2
      <4> QED  BY <4>1, <4>2
    <3> QED  BY <3>3
  <2>3. CASE v \in out.freed
    <3>1. N + 1 \in 1 .. Len(L1[b]) /\ v \in A1[b][N + 1].freed  BY <1>15, <1>17, <1>20, <2>3
    <3> QED  BY <3>1
  <2> QED  BY <1>10, <2>2, <2>3
<1>30. LogInv(L1, A1)'  BY <1>20, <1>27, <1>28, <1>29 DEF LogInv
<1> QED  BY <1>30

\* The replica's threads do not touch what a log tells.
LEMMA LogIdle ==
  ASSUME UNCHANGED <<primary, sent>>, NEW L, NEW A, LogInv(L, A)
  PROVE  LogInv(L, A)'
<1> USE DEF primary
<1>1. ASSUME NEW b \in Bucket
      PROVE  (RunInv(b, L[b], A[b]) /\ StateInv(b, L[b], A[b])
              /\ StampInv(b, L[b], A[b]) /\ AnswerInv(L[b], A[b]))'
  <2>1. PICK M, B : M = L[b] /\ B = A[b]  OBVIOUS
  <2>2. RunInv(b, M, B) /\ StateInv(b, M, B) /\ StampInv(b, M, B) /\ AnswerInv(M, B)
    BY <2>1 DEF LogInv
  <2>3. RunInv(b, M, B)'  BY <2>2, RunInvRigid
  <2>4. StateInv(b, M, B)'  BY <2>2 DEF StateInv, Past, Vals
  <2>5. Records(b)' = Records(b)  BY RecordsKept DEF Kept
  <2>6. StampInv(b, M, B)'  BY <2>2, <2>5 DEF StampInv, Closed, Stamped, Stamps
  <2>7. AnswerInv(M, B)'  BY <2>2 DEF AnswerInv, AnswerAt, Good
  <2> QED  BY <2>1, <2>3, <2>4, <2>6, <2>7
<1>2. ASSUME NEW g \in Group, pc'[g] \in {"body", "leave"}
      PROVE  InBucket(g, L[BucketOf(g)], A[BucketOf(g)])'
  <2>1. PICK c : c = BucketOf(g)  OBVIOUS
  <2>2. PICK M, B : M = L[c] /\ B = A[c]  OBVIOUS
  <2>3. InBucket(g, M, B)  BY <1>2, <2>1, <2>2 DEF LogInv
  <2>4. Op(g)' = Op(g) /\ Id(g)' = Id(g) /\ BucketOf(g)' = BucketOf(g)
    BY DEF Op, Id, BucketOf
  <2>5. InBucket(g, M, B)'  BY <2>3, <2>4 DEF InBucket
  <2> QED  BY <2>1, <2>2, <2>4, <2>5
<1> QED  BY <1>1, <1>2 DEF LogInv

\* There always are logs that explain what the primary did.
LEMMA LogHolds == Spec => [](Base /\ \E L, A : LogInv(L, A))
<1> DEFINE I == Base /\ \E L, A : LogInv(L, A)
<1>1. Init => I  BY ControlInit, DataInit, FrameInit, LogInit DEF Base
<1>2. I /\ [Next]_vars => I'
  <2> SUFFICES ASSUME Base, [Next]_vars, NEW L, NEW A, LogInv(L, A)
               PROVE  Base' /\ \E L1, A1 : LogInv(L1, A1)'
    OBVIOUS
  <2>1. Base'  BY ControlNext, DataNext, FrameNext DEF Base
  <2>2. ASSUME NEW g \in Group, Quiet(g) PROVE \E L1, A1 : LogInv(L1, A1)'
    BY <2>2, LogQuiet
  <2>3. ASSUME NEW g \in Group, Operate(g) PROVE \E L1, A1 : LogInv(L1, A1)'
    BY <2>3, LogOperate
  <2>4. ASSUME NEW g \in Group, Replica(g) PROVE \E L1, A1 : LogInv(L1, A1)'
    <3>1. UNCHANGED <<primary, sent>>
      BY <2>4 DEF Replica, ReadRecord, ReadLine, Validate
    <3> QED  BY <3>1, LogIdle
  <2>5. CASE UNCHANGED vars
    <3>1. UNCHANGED <<primary, sent>>  BY <2>5 DEF vars
    <3> QED  BY <2>1, <3>1, LogIdle
  <2> QED  BY <2>1, <2>2, <2>3, <2>4, <2>5 DEF Next, Primary, Quiet, Stopped
<1> QED  BY <1>1, <1>2, PTL DEF Spec

\* What the log says of a bucket's records.
LEMMA RecordsAreLog ==
  ASSUME Base, NEW L, NEW A, LogInv(L, A), NEW b \in Bucket, NEW log, log = Ordered(Records(b)),
         NEW after, after = Replay(log)
  PROVE  /\ Len(log) = Closed(b, L[b]) /\ DOMAIN log = 1 .. Len(log) /\ Len(log) \in 0 .. Len(L[b])
         /\ \A n \in 1 .. Len(log) : log[n] = Stamped(n, L[b], A[b])
         /\ \A n \in 0 .. Len(log) : after[n] = A[b][n]
         /\ Records(b) = {Stamped(n, L[b], A[b]) : n \in 1 .. Len(log)}
<1>1. PICK M, B : M = L[b] /\ B = A[b]  OBVIOUS
<1>2. M \in Seq(Logged) /\ RunInv(b, M, B) /\ StampInv(b, M, B)  BY <1>1 DEF LogInv
<1>3. PICK K : K = Closed(b, M)  OBVIOUS
<1>4. K \in 0 .. Len(M)
  <2>1. Len(M) \in Nat  BY <1>2
  <2>2. CASE mutex[b] # Free /\ pc[mutex[b]] = "leave"
    <3>1. PICK g \in Group : g = mutex[b]  BY <2>2 DEF Base, ControlInv
    <3>2. pc[g] = "leave" /\ BucketOf(g) = b  BY <2>2, <3>1 DEF Base, ControlInv
    <3>3. InBucket(g, M, B)  BY <1>1, <3>2 DEF LogInv
    <3>4. Len(M) > 0  BY <3>2, <3>3 DEF InBucket
    <3> QED  BY <1>3, <2>1, <2>2, <3>4 DEF Closed
  <2>3. CASE ~(mutex[b] # Free /\ pc[mutex[b]] = "leave")
    BY <1>3, <2>1, <2>3 DEF Closed
  <2> QED  BY <2>2, <2>3
<1>5. Records(b) = {Stamped(n, M, B) : n \in 1 .. K}  BY <1>2, <1>3 DEF StampInv
<1>6. PICK recs : recs = Records(b)  OBVIOUS
<1>7. K \in Nat /\ recs = Written(K, M, B)  BY <1>4, <1>5, <1>6 DEF Written
<1>8. /\ DOMAIN Ordered(recs) = 1 .. K /\ Len(Ordered(recs)) = K
      /\ \A n \in 1 .. K : Ordered(recs)[n] = Stamped(n, M, B)
  BY <1>7, OrderedRecords
<1>9. /\ DOMAIN log = 1 .. K /\ Len(log) = K
      /\ \A n \in 1 .. K : log[n] = Stamped(n, M, B)
  BY <1>6, <1>8
<1>10. Repeats(log, K, M)  BY <1>9 DEF Stamped, Repeats
<1>11. \A n \in 0 .. K : Replay(log)[n] = B[n]  BY <1>2, <1>4, <1>10, ReplayRuns
<1> QED  BY <1>1, <1>3, <1>4, <1>5, <1>9, <1>11

\* The records are what a replica needs to follow the primary, whatever the
\* order in which the connections deliver them (ordered_mutex_t numbers the
\* operations of a bucket, hasher_t stamps the numbers on their hashes).
THEOREM RecordsReplay == Spec => []RecordsReplayable
<1>1. Base /\ (\E L, A : LogInv(L, A)) => RecordsReplayable
  <2> SUFFICES ASSUME Base, NEW L, NEW A, LogInv(L, A), NEW b \in Bucket
               PROVE  LET recs == Records(b)
                          log == Ordered(recs)
                          after == Replay(log)
                      IN /\ {r.info[1].time : r \in recs} = {2 * i - 2 : i \in DOMAIN log}
                         /\ \A i \in DOMAIN log :
                              log[i].info = <<[hash |-> <<>>, time |-> 2 * i - 2],
                                              [hash |-> after[i].hash, time |-> 2 * i - 1]>>
                         /\ Settled(b) => chain[b] = after[Len(log)].chain /\ order[b] = 2 * Len(log)
    BY DEF RecordsReplayable
  <2>1. PICK recs, log : recs = Records(b) /\ log = Ordered(recs)  OBVIOUS
  <2>2. PICK after : after = Replay(log)  OBVIOUS
  <2>3. /\ Len(log) = Closed(b, L[b]) /\ DOMAIN log = 1 .. Len(log) /\ Len(log) \in 0 .. Len(L[b])
        /\ \A n \in 1 .. Len(log) : log[n] = Stamped(n, L[b], A[b])
        /\ \A n \in 0 .. Len(log) : after[n] = A[b][n]
        /\ Records(b) = {Stamped(n, L[b], A[b]) : n \in 1 .. Len(log)}
    BY <2>1, <2>2, RecordsAreLog
  <2>4. {r.info[1].time : r \in recs} = {2 * i - 2 : i \in DOMAIN log}
    <3>1. \A i \in DOMAIN log : Stamped(i, L[b], A[b]).info[1].time = 2 * i - 2
      BY DEF Stamped, Stamps
    <3>2. recs = {Stamped(i, L[b], A[b]) : i \in DOMAIN log}  BY <2>1, <2>3
    <3> QED  BY <3>1, <3>2
  <2>5. ASSUME NEW i \in DOMAIN log
        PROVE  log[i].info = <<[hash |-> <<>>, time |-> 2 * i - 2],
                               [hash |-> after[i].hash, time |-> 2 * i - 1]>>
    <3>1. i \in 1 .. Len(log) /\ i \in 0 .. Len(log)  BY <2>3
    <3>2. log[i].info = Stamps(i, A[b][i].hash)  BY <2>3, <3>1 DEF Stamped
    <3>3. after[i] = A[b][i]  BY <2>3, <3>1
    <3> QED  BY <3>2, <3>3 DEF Stamps
  <2>6. ASSUME Settled(b)
        PROVE  chain[b] = after[Len(log)].chain /\ order[b] = 2 * Len(log)
    <3>1. mutex[b] = Free
      <4>1. SUFFICES ASSUME mutex[b] # Free PROVE FALSE  OBVIOUS
      <4>2. PICK g \in Group : g = mutex[b]  BY <4>1 DEF Base, ControlInv
      <4> QED  BY <2>6, <4>1, <4>2 DEF Base, ControlInv, Settled
    <3>2. Len(log) = Len(L[b]) /\ order[b] = 2 * Len(log)
      <4>1. StampInv(b, L[b], A[b]) /\ L[b] \in Seq(Logged)  BY DEF LogInv
      <4>2. Closed(b, L[b]) = Len(L[b])  BY <3>1 DEF Closed
      <4>3. Len(L[b]) \in Nat  BY <4>1
      <4> QED  BY <2>3, <3>1, <4>1, <4>2, <4>3 DEF StampInv
    <3>3. chain[b] = A[b][Len(L[b])].chain  BY DEF LogInv, StateInv
    <3>4. Len(log) \in 0 .. Len(log)  BY <2>3
    <3> QED  BY <2>3, <3>2, <3>3, <3>4
  <2> QED  BY <2>1, <2>2, <2>4, <2>5, <2>6
<1> QED  BY <1>1, LogHolds, PTL

\* What clients are told is what replaying the records tells, but for a get
\* whose value was set again before its answer was copied (the guard of
\* fd_worker's get ends before the copy).
THEOREM AnswersReplay == Spec => []AnswersRecorded
<1>1. Base /\ (\E L, A : LogInv(L, A)) => AnswersRecorded
  <2> SUFFICES ASSUME Base, NEW L, NEW A, LogInv(L, A) PROVE AnswersRecorded
    OBVIOUS
  <2> SUFFICES ASSUME NEW b \in Bucket, Settled(b),
                      NEW log, log = Ordered(Records(b)),
                      NEW after, after = Replay(log),
                      NEW n \in DOMAIN log,
                      log[n].id[2] \in DOMAIN answered[log[n].id[1]]
               PROVE  \/ Told(log[n]) = after[n].result
                      \/ /\ Told(log[n]) = <<"garbage">> /\ after[n].result[1] = "value"
                         /\ \E m \in n + 1..Len(log) :
                              log[m].op = [kind |-> "set", key |-> log[n].op.key]
    BY DEF AnswersRecorded
  <2>1. PICK M, B : M = L[b] /\ B = A[b]  OBVIOUS
  <2>2. /\ Len(log) = Closed(b, M) /\ DOMAIN log = 1 .. Len(log)
        /\ \A i \in 1 .. Len(log) : log[i] = Stamped(i, M, B)
        /\ \A i \in 0 .. Len(log) : after[i] = B[i]
    BY <2>1, RecordsAreLog
  <2>3. M \in Seq(Logged) /\ RunInv(b, M, B) /\ AnswerInv(M, B)  BY <2>1 DEF LogInv
  <2>4. Len(log) = Len(M)
    <3>1. mutex[b] = Free
      <4>1. SUFFICES ASSUME mutex[b] # Free PROVE FALSE  OBVIOUS
      <4>2. PICK g \in Group : g = mutex[b]  BY <4>1 DEF Base, ControlInv
      <4> QED  BY <4>1, <4>2 DEF Base, ControlInv, Settled
    <3> QED  BY <2>2, <3>1 DEF Closed
  <2>5. n \in 1 .. Len(M) /\ n \in 0 .. Len(log) /\ Len(M) \in Nat  BY <2>2, <2>3, <2>4
  <2>6. \A i \in 1 .. Len(M) : log[i].op = M[i].op /\ log[i].id = M[i].id
    BY <2>2, <2>4 DEF Stamped
  <2>7. PICK v \in Value : v = M[n].id  BY <2>3, <2>5, LogValues
  <2>8. PICK h, i : h = v[1] /\ i = v[2]  OBVIOUS
  <2>9. h \in Group /\ i \in Nat  BY <2>7, <2>8 DEF Value
  <2>10. log[n].id = v  BY <2>5, <2>6, <2>7
  <2>11. i \in DOMAIN answered[h]  BY <2>8, <2>10
  <2>12. i <= done[h]
    <3>1. answered[h] \in Seq(Answers) /\ Len(answered[h]) = done[h]  BY <2>9 DEF Base, DataInv
    <3>2. i \in 1 .. Len(answered[h])  BY <2>11, <3>1
    <3> QED  BY <3>1, <3>2
  <2>13. Good(n, answered[h][i], M, B)
    <3>1. AnswerAt(n, h, i, M, B)  BY <2>3, <2>5, <2>7, <2>8 DEF AnswerInv
    <3> QED  BY <2>12, <3>1 DEF AnswerAt
  <2>14. Told(log[n]) = answered[h][i]  BY <2>8, <2>10 DEF Told
  <2>15. after[n] = B[n]  BY <2>2, <2>5
  <2>16. \A m \in n + 1 .. Len(M) : log[m].op = M[m].op /\ log[n].op = M[n].op
    BY <2>5, <2>6
  <2> QED  BY <2>4, <2>13, <2>14, <2>15, <2>16 DEF Good
<1> QED  BY <1>1, LogHolds, PTL

=============================================================================
