------------------------ MODULE HashMapDetectProofs ------------------------
(***************************************************************************)
(* Proofs about HashMap: faults that validation detects do no damage that  *)
(* is not suspected or reported.                                           *)
(*                                                                         *)
(* Until a fault strikes, the invariant of HashMapProofs holds, and the    *)
(* map is what it should be (EffectInv).  From then on little is known of  *)
(* what closures compute, but enough to run them (WildInv), and that the   *)
(* log of the closure that was struck has a word, or will get one, that    *)
(* its replay does not find (DoomInv): it cannot be closed.                *)
(***************************************************************************)
EXTENDS HashMapProofs

-----------------------------------------------------------------------------
(* Faults that validation detects. *)

Detectable == {"hash", "branch", "address", "value", "sum", "return"}

\* Word j of the log is not what the replay of c compares it with, or the sum
\* of the object it names is not.
Bad(m, c, w, j) ==
  LET f == Look(m, c.key)[w[2]] IN
  \/ j = 1 /\ w[1] # Hash[c.key]
  \/ /\ j >= 3 /\ w[2] \in Places(m) /\ f # 0
     /\ \/ j = 3 /\ w[3] # CellOf(m, f)
        \/ j = 5 /\ c.op = "get" /\ w[5] # w[4]
        \/ j = 6 /\ c.op = "set" /\ w[6] \in DOMAIN m /\ m[w[6]].sum # c.val
        \/ j = 9 /\ c.op = "set" /\ w[9] # kStored
  \/ /\ j >= 3 /\ w[2] \in Places(m) /\ f = 0
     /\ \/ j = 3 /\ c.op = "get" /\ w[3] # 0
        \/ j = 4 /\ c.op = "set" /\ w[4] # SizeOfVal
        \/ j = 5 /\ c.op = "set" /\ w[5] \in DOMAIN m /\ m[w[5]].sum # c.val
        \/ /\ j = 9 /\ c.op = "set" /\ w[9] \in DOMAIN m
           /\ m[w[9]].sum # [key |-> c.key, cell |-> w[3], next |-> w[2]]
        \/ j = 12 /\ c.op = "set" /\ w[12] # kCreated
Doomed(m, c, w) == \E j \in 1 .. Len(w) : Bad(m, c, w, j)

\* A closure that was struck: its log is doomed, or is about to be.
Astray(m, s, c, l, w) ==
  \/ Doomed(m, c, w)
  \/ s = "head" /\ l.hv # Hash[c.key]
  \/ LET f == Found(m, c, l) IN
     /\ w = <<Hash[c.key], l.head>>
     /\ \/ s = "walk" /\ f # 0 /\ l.at < f
        \/ s = "load" /\ (f # 0 => l.dest # CellOf(m, f))
        \/ s = "newCell" /\ f # 0
        \/ s \in {"unlock", "return"} /\ c.op = "get" /\ f # 0 /\ l.ret = 0

\* The replay of c is at word i of the log w.
ReadsAt(m, s, c, l, w, i) ==
  LET f == Look(m, c.key)[w[2]] IN
  /\ s \in {"lock", "head"} => i = 1
  /\ s # "lock" => l.hv = Hash[c.key]
  /\ s \in {"lock", "head"} => l.ret = 0
  /\ s \notin {"lock", "head"} => w[2] \in Places(m) /\ l.head = w[2] /\ w[1] = l.hv
  /\ s = "walk" => i = 3 /\ l.at \in Places(m) /\ Look(m, c.key)[l.at] = f /\ l.ret = 0
  /\ s = "load" => i = 3 /\ f # 0 /\ l.dest = CellOf(m, f)
  /\ s = "newCell" => i = 3 /\ f = 0
  /\ s \in {"newCell", "makeVal", "store", "makeEntry", "link"} => c.op = "set"
  /\ s \in {"makeVal", "store", "makeEntry", "link"} =>
       l.dest = w[3] /\ l.ret = IF f = 0 THEN kCreated ELSE kStored
  /\ s = "makeVal" => i = IF f = 0 THEN 4 ELSE 5
  /\ s = "store" => i = IF f = 0 THEN 6 ELSE 7
  /\ s = "makeEntry" => f = 0 /\ i = 8
  /\ s = "link" => f = 0 /\ i = 10
  /\ s \in {"unlock", "return"} =>
       \/ c.op = "get" /\ f = 0 /\ i = 3 /\ l.ret = 0
       \/ c.op = "get" /\ f # 0 /\ i = 5 /\ l.ret = w[4]
       \/ c.op = "set" /\ f = 0 /\ i = 12 /\ l.ret = kCreated
       \/ c.op = "set" /\ f # 0 /\ i = 9 /\ l.ret = kStored
\* The replay of a struck closure: a bad word is still ahead of it.
Reads(m, s, c, l, u) ==
  \E w \in Seq(Word), i \in 1 .. 12 :
    /\ s # "idle" /\ c \in Asked /\ l \in Locals /\ \E j \in i .. Len(w) : Bad(m, c, w, j)
    /\ u = SubSeq(w, i, Len(w)) /\ ReadsAt(m, s, c, l, w, i)

\* What holds of the application whatever struck.
LocalsWild(q, m, s, c, l, w) ==
  /\ s = "idle" => c = NoCall /\ l = Fresh
  /\ s # "idle" => c \in Asked
  /\ s = "lock" => l = Fresh
  /\ s \in {"idle", "lock", "head"} => w = << >>
  /\ s \notin {"idle", "lock"} => l.hv \in Bucket
  /\ s = "head" => l.ret = 0
  /\ s \notin {"idle", "lock", "head"} => l.head \in Places(m)
  /\ s = "walk" => l.at \in Places(m) /\ l.ret = 0
  /\ s \in {"load", "makeVal", "store", "makeEntry"} => l.dest \in DOMAIN q \ Bucket
  /\ s \in {"newCell", "makeVal", "store", "makeEntry", "link"} => c.op = "set"
  /\ s \in {"makeVal", "store"} => l.ret \in {kStored, kCreated}
  /\ s \in {"makeEntry", "link"} => l.ret = kCreated
  /\ s = "store" => l.made \in ValuesIn(m)
  /\ s = "makeEntry" => q[l.dest] \in ValuesIn(m)
  /\ s = "link" => l.made \in EntriesIn(m)
  /\ Owns(s, l) => \A e \in EntriesIn(m) : CellOf(m, e) # l.dest

Shape ==
  /\ pc \in [Proc -> Labels] /\ DOMAIN call = Proc /\ DOMAIN loc = Proc /\ DOMAIN log = Proc
  /\ struck \in [Proc -> BOOLEAN] /\ hit \in BOOLEAN

WildInv ==
  /\ Shape /\ HeapInv(obj, top) /\ CellInv(cell, obj, top)
  /\ pending \in [App -> Seq([call : Asked, struck : BOOLEAN, words : Seq(Word)])]
  /\ \A t \in App : /\ call[A(t)] \in Call \cup {NoCall}
                    /\ loc[A(t)] \in Locals /\ log[A(t)] \in Seq(Word)
                    /\ LocalsWild(cell, obj, pc[A(t)], call[A(t)], loc[A(t)], log[A(t)])
                    /\ pc[V(t)] = "idle" => loc[V(t)] = Fresh
  /\ \A t, u \in App :
       /\ Owns(pc[A(t)], loc[A(t)]) /\ Owns(pc[A(u)], loc[A(u)])
       /\ loc[A(t)].dest = loc[A(u)].dest
       => t = u

\* A struck closure will not get through validation.
DoomInv ==
  \A t \in App :
    /\ struck[A(t)] => pc[A(t)] \notin {"idle", "lock"} /\ Astray(obj, pc[A(t)], call[A(t)], loc[A(t)], log[A(t)])
    /\ struck[V(t)] => Reads(obj, pc[V(t)], call[V(t)], loc[V(t)], log[V(t)])
    /\ \A i \in DOMAIN pending[t] : pending[t][i].struck =>
         Doomed(obj, pending[t][i].call, pending[t][i].words)

\* The map is what it should be, but for sets that took effect and hold the
\* lock of their bucket; so are the answers that closures are about to give.
EffectInv ==
  /\ ~wrong
  /\ \A t \in App : LET c == call[A(t)] IN
       /\ pc[A(t)] = "return" => answerMapped[t] = owed[t]
       /\ pc[A(t)] = "unlock" /\ c.op = "get" => answerMapped[t] = spec[c.key]
       /\ pc[A(t)] = "unlock" /\ c.op = "set" =>
            /\ answerMapped[t] = IF spec[c.key] = NoVal THEN kCreated ELSE kStored
            /\ mapMapped[c.key] = c.val
  /\ \A k \in Key : \/ mapMapped[k] = spec[k]
                    \/ \E t \in App : /\ pc[A(t)] = "unlock" /\ call[A(t)].op = "set"
                                      /\ call[A(t)].key = k

Unstruck == /\ \A p \in Proc : ~struck[p]
            /\ \A t \in App : \A i \in DOMAIN pending[t] : ~pending[t][i].struck

SafeInv ==
  \/ reported
  \/ hit /\ WildInv /\ DoomInv /\ Suspect
  \/ ~hit /\ RightInv /\ EffectInv /\ Unstruck

-----------------------------------------------------------------------------
(* What is left of a sequence, and what begins it. *)

\* What is left of a sequence of words from the ith on.
LEMMA Ahead ==
  ASSUME NEW S, NEW w \in Seq(S), NEW i \in 1 .. Len(w), NEW u, u = SubSeq(w, i, Len(w))
  PROVE  u \in Seq(S) /\ Len(u) = Len(w) - i + 1 /\ \A j \in 1 .. Len(u) : u[j] = w[i + j - 1]
<1>1. Len(w) \in Nat /\ i \in Nat /\ 1 <= i /\ i <= Len(w)  OBVIOUS
<1> QED  BY <1>1

\* What follows it is what follows in the sequence.
LEMMA Further ==
  ASSUME NEW w \in Seq(Word), NEW i \in 1 .. Len(w), NEW u, u = SubSeq(w, i, Len(w)),
         NEW k \in 1 .. Len(u), NEW n, n = i + k - 1, NEW t, t = SubSeq(w, n, Len(w))
  PROVE  SubSeq(u, k, Len(u)) = t
<1>1. Len(w) \in Nat /\ i \in Nat /\ 1 <= i /\ i <= Len(w)  OBVIOUS
<1>2. u \in Seq(Word) /\ Len(u) = Len(w) - i + 1 /\ \A j \in 1 .. Len(u) : u[j] = w[i + j - 1]
  <2>1. w \in Seq(Word) /\ i \in 1 .. Len(w) /\ u = SubSeq(w, i, Len(w))  OBVIOUS
  <2> QED  BY ONLY <2>1, Ahead
<1>3. n \in 1 .. Len(w)  BY <1>1, <1>2
<1>4. t \in Seq(Word) /\ Len(t) = Len(w) - n + 1 /\ \A j \in 1 .. Len(t) : t[j] = w[n + j - 1]
  <2>1. w \in Seq(Word) /\ n \in 1 .. Len(w) /\ t = SubSeq(w, n, Len(w))  BY <1>3
  <2> QED  BY ONLY <2>1, Ahead
<1>5. Len(t) = Len(u) - k + 1  BY <1>1, <1>2, <1>4
<1>6. ASSUME NEW j \in 1 .. Len(t) PROVE t[j] = u[j + k - 1]
  <2>1. PICK x, y, z : x = Len(w) /\ y = Len(u) /\ z = Len(t)  OBVIOUS
  <2>2. x \in Nat /\ i \in 1 .. x /\ y = x - i + 1 /\ z = y - k + 1 /\ j \in 1 .. z /\ k \in 1 .. y
    BY <1>1, <1>2, <1>5, <1>6, <2>1
  <2>3. j + k - 1 \in 1 .. y /\ i + (j + k - 1) - 1 = (i + k - 1) + j - 1  BY ONLY <2>2
  <2>4. j + k - 1 \in 1 .. Len(u) /\ i + (j + k - 1) - 1 = n + j - 1
    BY ONLY <2>1, <2>3, n = i + k - 1
  <2> QED  BY <1>2, <1>4, <1>6, <2>4
<1> QED  BY <1>2, <1>4, <1>5, <1>6, Rest

\* The word that begins a sequence.
LEMMA Leads ==
  ASSUME NEW S, NEW u \in Seq(S), NEW a, IsPrefix(<<a>>, u)
  PROVE  1 <= Len(u) /\ u[1] = a
<1>1. 1 <= Len(u) /\ SubSeq(<<a>>, 1, 1) = SubSeq(u, 1, 1)  BY DEF IsPrefix
<1>2. SubSeq(<<a>>, 1, 1)[1] = a /\ SubSeq(u, 1, 1)[1] = u[1]  BY <1>1
<1> QED  BY <1>1, <1>2

-----------------------------------------------------------------------------
(* What a step may compute, and what it leaves alone. *)

\* The right value, or a wrong one in the application.
LEMMA OutcomeIs ==
  ASSUME NEW p, NEW right, NEW wrongs, NEW o \in Outcomes(p, right, wrongs)
  PROVE  /\ o[2] \in BOOLEAN
         /\ o[2] => ~hit /\ p[2] = "app" /\ o[1] \in wrongs /\ o[1] # right
         /\ ~o[2] => o[1] = right
<1>1. CASE o = <<right, FALSE>>  BY <1>1
<1>2. CASE p[2] = "app" /\ ~hit /\ o \in (wrongs \ {right}) \X {TRUE}  BY <1>2
<1> QED  BY <1>1, <1>2 DEF Outcomes

\* A load is from the log in a validator, and from memory in the application.
LEMMA LoadedIs ==
  ASSUME NEW p \in Proc, NEW a, NEW wrongs, NEW o \in Loaded(p, a, wrongs)
  PROVE  /\ o[2] \in BOOLEAN
         /\ p[2] = "val" => o[1] = Fetched(p) /\ ~o[2]
         /\ p[2] = "app" => \/ o[1] = cell[a] /\ ~o[2]
                            \/ o[1] \in wrongs /\ "load" \in Faults /\ o[2] /\ ~hit
<1>1. CASE p[2] = "app"
  <2>1. o \in Outcomes(p, cell[a], Wrong("load", wrongs))  BY <1>1 DEF Loaded
  <2>2. o[2] => "load" \in Faults /\ o[1] \in wrongs  BY <2>1, OutcomeIs DEF Wrong
  <2>3. o[2] \in BOOLEAN /\ (o[2] => ~hit) /\ (~o[2] => o[1] = cell[a])
    BY <2>1, OutcomeIs
  <2>4. p[2] # "val"  BY <1>1
  <2>5. CASE o[2]  BY <2>2, <2>3, <2>4, <2>5
  <2>6. CASE ~o[2]  BY <2>3, <2>4, <2>6
  <2> QED  BY <2>5, <2>6
<1>2. CASE p[2] # "app"
  <2>1. o = <<Fetched(p), FALSE>>  BY <1>2 DEF Loaded
  <2> QED  BY <1>2, <2>1
<1> QED  BY <1>1, <1>2

\* The step of p leaves other processes alone ...
Alone(p) == \A q \in Proc : q # p => /\ pc'[q] = pc[q] /\ call'[q] = call[q]
                                     /\ loc'[q] = loc[q] /\ log'[q] = log[q]
\* ... and no fault strikes in it, or the one that does strikes p.
Strikes(p) == \/ struck' = struck /\ hit' = hit
              \/ ~hit /\ hit' /\ p[2] = "app" /\ struck' = [struck EXCEPT ![p] = TRUE]

\* A fault strikes p, or none strikes.
LEMMA Noted ==
  ASSUME Shape, NEW p \in Proc, NEW f \in BOOLEAN, f => ~hit /\ p[2] = "app", Note(p, f)
  PROVE  Strikes(p) /\ struck' \in [Proc -> BOOLEAN] /\ hit' \in BOOLEAN
<1>1. CASE f
  <2>1. hit' = TRUE /\ struck' = [struck EXCEPT ![p] = TRUE]  BY <1>1 DEF Note
  <2> QED  BY <1>1, <2>1 DEF Strikes, Shape
<1>2. CASE ~f
  <2>1. hit' = hit  BY <1>2 DEF Note, Shape
  <2>2. struck' = [struck EXCEPT ![p] = struck[p]]
    <3>1. (struck[p] \/ f) = struck[p]  BY <1>2 DEF Shape
    <3> QED  BY <3>1 DEF Note
  <2>3. struck' = struck  BY <2>2 DEF Shape
  <2> QED  BY <2>1, <2>3 DEF Strikes, Shape
<1> QED  BY <1>1, <1>2

\* What all steps of a closure have in common.
Steps(p) == /\ Shape' /\ Alone(p) /\ Strikes(p) /\ UNCHANGED <<call, pending, reported>>
            /\ pc'[p] \notin {"idle", "lock"}

\* Every step of a closure is such a step.
LEMMA ClosureSteps ==
  ASSUME Shape, NEW p \in Proc, ClosureStep(p)
  PROVE  Steps(p)
<1>1. PICK s \in Labels \ {"idle", "lock"} : pc' = [pc EXCEPT ![p] = s]
  <2>1. pc[p] = "walk" /\ pc' = pc => pc' = [pc EXCEPT ![p] = "walk"]  BY DEF Shape
  <2> QED
    BY <2>1 DEF ClosureStep, Lock, ReadHead, Find, Skip, Miss, Load, NewCell, MakeVal, Store,
                MakeEntry, Link, Unlock, Goto, Labels
<1>2. DOMAIN loc' = Proc /\ \A q \in Proc : q # p => loc'[q] = loc[q]
  <2>1. DOMAIN loc = Proc  BY DEF Shape
  <2> QED
    BY <2>1 DEF ClosureStep, Lock, ReadHead, Find, Skip, Miss, Load, NewCell, MakeVal, Store,
                MakeEntry, Link, Unlock
<1>3. DOMAIN log' = Proc /\ \A q \in Proc : q # p => log'[q] = log[q]
  <2>1. DOMAIN log = Proc  BY DEF Shape
  <2> QED
    BY <2>1 DEF ClosureStep, Lock, ReadHead, Find, Skip, Miss, Load, NewCell, MakeVal, Store,
                MakeEntry, Link, Unlock, Logged
<1>4. UNCHANGED <<call, pending, reported>>
  BY DEF ClosureStep, Lock, ReadHead, Find, Skip, Miss, Load, NewCell, MakeVal, Store,
         MakeEntry, Link, Unlock
<1>5. Strikes(p) /\ struck' \in [Proc -> BOOLEAN] /\ hit' \in BOOLEAN
  <2>1. CASE \E f \in BOOLEAN : (f => ~hit /\ p[2] = "app") /\ Note(p, f)  BY <2>1, Noted
  <2>2. CASE UNCHANGED <<hit, struck>>  BY <2>2 DEF Strikes, Shape
  <2>3. CASE Lock(p)
    <3>1. PICK o \in Outcomes(p, Hash[call[p].key], Wrong("hash", Bucket)) : Note(p, o[2])
      BY <2>3 DEF Lock
    <3> QED  BY <2>1, <3>1, OutcomeIs
  <2>4. CASE ReadHead(p)
    <3>1. PICK o \in Loaded(p, loc[p].hv, Entries \cup {0}) : Note(p, o[2])
      BY <2>4 DEF ReadHead
    <3> QED  BY <2>1, <3>1, LoadedIs DEF Proc, Side
  <2>5. CASE Find(p)
    <3>1. PICK e : e = obj[loc[p].at].data  OBVIOUS
    <3>2. PICK b \in Outcomes(p, e.key = call[p].key, Wrong("branch", BOOLEAN)),
               o \in Outcomes(p, e.cell, Wrong("address", ValueCells)) :
            Note(p, b[2] \/ o[2])
      BY <2>5, <3>1 DEF Find
    <3>3. (b[2] \/ o[2]) \in BOOLEAN /\ (b[2] \/ o[2] => ~hit /\ p[2] = "app")
      BY OutcomeIs
    <3> QED  BY <2>1, <3>2, <3>3
  <2>6. CASE Skip(p)
    <3>1. PICK e : e = obj[loc[p].at].data  OBVIOUS
    <3>2. PICK b \in Outcomes(p, e.key = call[p].key, Wrong("branch", BOOLEAN)) : Note(p, b[2])
      BY <2>6, <3>1 DEF Skip
    <3> QED  BY <2>1, <3>2, OutcomeIs
  <2>7. CASE Load(p)
    <3>1. PICK o \in Loaded(p, loc[p].dest, Values) : Note(p, o[2])
      BY <2>7 DEF Load
    <3> QED  BY <2>1, <3>1, LoadedIs DEF Proc, Side
  <2>8. CASE MakeVal(p)
    <3>1. PICK right, wrongs, o : o \in Outcomes(p, right, wrongs) /\ Note(p, o[2])
      BY <2>8 DEF MakeVal
    <3> QED  BY <2>1, <3>1, OutcomeIs
  <2>9. CASE Store(p)
    <3>1. PICK o \in Outcomes(p, loc[p].made, Wrong("store", Values)) : Note(p, o[2])
      BY <2>9 DEF Store
    <3> QED  BY <2>1, <3>1, OutcomeIs
  <2>10. CASE MakeEntry(p)
    <3>1. PICK right, wrongs, o : o \in Outcomes(p, right, wrongs) /\ Note(p, o[2])
      BY <2>10 DEF MakeEntry
    <3> QED  BY <2>1, <3>1, OutcomeIs
  <2>11. CASE Link(p)
    <3>1. PICK o \in Outcomes(p, loc[p].made, Wrong("store", Entries \cup {0})) : Note(p, o[2])
      BY <2>11 DEF Link
    <3> QED  BY <2>1, <3>1, OutcomeIs
  <2>12. CASE Miss(p) \/ NewCell(p) \/ Unlock(p)  BY <2>2, <2>12 DEF Miss, NewCell, Unlock
  <2> QED
    BY <2>3, <2>4, <2>5, <2>6, <2>7, <2>8, <2>9, <2>10, <2>11, <2>12 DEF ClosureStep
<1> QED  BY <1>1, <1>2, <1>3, <1>4, <1>5 DEF Steps, Shape, Alone

-----------------------------------------------------------------------------
(* What holds of the application whatever strikes it. *)

\* Each thread has two processes, and no two threads share one.
LEMMA Procs ==
  ASSUME NEW t \in App
  PROVE  /\ A(t) \in Proc /\ A(t)[1] = t /\ A(t)[2] = "app"
         /\ V(t) \in Proc /\ V(t)[1] = t /\ V(t)[2] = "val"
         /\ \A u : A(t) # V(u) /\ V(t) # A(u) /\ (A(u) = A(t) => u = t) /\ (V(u) = V(t) => u = t)
BY DEF A, V, Proc, Side

\* What holds of a closure holds when objects and cells come.
LEMMA LocalsWildKept ==
  ASSUME NEW q, NEW m, NEW q2, NEW m2, Grows(m, m2), DOMAIN q \subseteq DOMAIN q2,
         NEW s \in Labels, NEW c, NEW l, NEW w, LocalsWild(q, m, s, c, l, w),
         s = "makeEntry" => q2[l.dest] \in ValuesIn(m2),
         Owns(s, l) => \A e \in EntriesIn(m2) : CellOf(m2, e) # l.dest
  PROVE  LocalsWild(q2, m2, s, c, l, w)
<1>1. /\ ValuesIn(m) \subseteq ValuesIn(m2) /\ EntriesIn(m) \subseteq EntriesIn(m2)
      /\ Places(m) \subseteq Places(m2)
  BY Kept
<1> QED  BY <1>1 DEF LocalsWild

\* What a step of t makes of the memory leaves to others what they rely on.
OthersWild(t) ==
  \A u \in App : u # t =>
    /\ pc[A(u)] = "makeEntry" => cell'[loc[A(u)].dest] \in ValuesIn(obj')
    /\ Owns(pc[A(u)], loc[A(u)]) =>
         /\ \A e \in EntriesIn(obj') : CellOf(obj', e) # loc[A(u)].dest
         /\ Owns(pc'[A(t)], loc'[A(t)]) => loc'[A(t)].dest # loc[A(u)].dest

\* A step moves one thread.
LEMMA WildFrame ==
  ASSUME WildInv, NEW t \in App, Shape', Alone(A(t)),
         HeapInv(obj', top'), CellInv(cell', obj', top'), Grows(obj, obj'),
         DOMAIN cell \subseteq DOMAIN cell',
         pending' \in [App -> Seq([call : Asked, struck : BOOLEAN, words : Seq(Word)])],
         call'[A(t)] \in Call \cup {NoCall}, loc'[A(t)] \in Locals, log'[A(t)] \in Seq(Word),
         LocalsWild(cell', obj', pc'[A(t)], call'[A(t)], loc'[A(t)], log'[A(t)]),
         OthersWild(t)
  PROVE  WildInv'
<1>1. ASSUME NEW u \in App
      PROVE  /\ call'[A(u)] \in Call \cup {NoCall}
             /\ loc'[A(u)] \in Locals /\ log'[A(u)] \in Seq(Word)
             /\ LocalsWild(cell', obj', pc'[A(u)], call'[A(u)], loc'[A(u)], log'[A(u)])
             /\ pc'[V(u)] = "idle" => loc'[V(u)] = Fresh
  <2>1. pc'[V(u)] = pc[V(u)] /\ loc'[V(u)] = loc[V(u)]  BY Procs DEF Alone
  <2>2. pc'[V(u)] = "idle" => loc'[V(u)] = Fresh  BY <2>1 DEF WildInv
  <2>3. CASE u = t  BY <2>2, <2>3
  <2>4. CASE u # t
    <3>1. PICK p : p = A(u)  OBVIOUS
    <3>2. p \in Proc /\ p # A(t)  BY <2>4, <3>1, Procs
    <3>3. /\ pc'[p] = pc[p] /\ call'[p] = call[p] /\ loc'[p] = loc[p] /\ log'[p] = log[p]
      BY <3>2 DEF Alone
    <3>4. /\ call[p] \in Call \cup {NoCall} /\ loc[p] \in Locals /\ log[p] \in Seq(Word)
          /\ LocalsWild(cell, obj, pc[p], call[p], loc[p], log[p])
      BY <3>1 DEF WildInv
    <3>5. pc[p] \in Labels  BY <3>2 DEF WildInv, Shape
    <3>6. /\ pc[p] = "makeEntry" => cell'[loc[p].dest] \in ValuesIn(obj')
          /\ Owns(pc[p], loc[p]) => \A e \in EntriesIn(obj') : CellOf(obj', e) # loc[p].dest
      BY <2>4, <3>1 DEF OthersWild
    <3>7. LocalsWild(cell', obj', pc[p], call[p], loc[p], log[p])
      BY <3>4, <3>5, <3>6, LocalsWildKept
    <3> QED  BY <2>2, <3>1, <3>3, <3>4, <3>7
  <2> QED  BY <2>3, <2>4
<1>2. ASSUME NEW u \in App, NEW v \in App,
             Owns(pc'[A(u)], loc'[A(u)]), Owns(pc'[A(v)], loc'[A(v)]),
             loc'[A(u)].dest = loc'[A(v)].dest
      PROVE  u = v
  <2>1. \A x \in App : x # t => pc'[A(x)] = pc[A(x)] /\ loc'[A(x)] = loc[A(x)]
    BY Procs DEF Alone
  <2>2. CASE u # t /\ v # t  BY <1>2, <2>1, <2>2 DEF WildInv
  <2>3. CASE u = t /\ v # t  BY <1>2, <2>1, <2>3 DEF OthersWild
  <2>4. CASE u # t /\ v = t  BY <1>2, <2>1, <2>4 DEF OthersWild
  <2> QED  BY <2>2, <2>3, <2>4
<1> QED  BY <1>1, <1>2 DEF WildInv

\* A step that leaves the memory as it is, and takes no cell.
LEMMA WildQuiet ==
  ASSUME WildInv, NEW t \in App, Shape', Alone(A(t)), UNCHANGED memVars,
         pending' \in [App -> Seq([call : Asked, struck : BOOLEAN, words : Seq(Word)])],
         call'[A(t)] \in Call \cup {NoCall}, loc'[A(t)] \in Locals, log'[A(t)] \in Seq(Word),
         LocalsWild(cell, obj, pc'[A(t)], call'[A(t)], loc'[A(t)], log'[A(t)]),
         ~Owns(pc'[A(t)], loc'[A(t)])
  PROVE  WildInv'
<1>1. cell' = cell /\ obj' = obj /\ top' = top  BY DEF memVars
<1>2. Grows(obj, obj')  BY <1>1 DEF Grows
<1>3. OthersWild(t)
  <2>1. \A u \in App : LocalsWild(cell, obj, pc[A(u)], call[A(u)], loc[A(u)], log[A(u)])
    BY DEF WildInv
  <2> QED  BY <1>1, <2>1 DEF OthersWild, LocalsWild
<1> QED  BY <1>1, <1>2, <1>3, WildFrame DEF WildInv

\* What is known of a thread.
LEMMA WildFacts ==
  ASSUME WildInv, NEW t \in App, NEW p, p = A(t)
  PROVE  /\ p \in Proc /\ p[1] = t /\ p[2] = "app" /\ pc[p] \in Labels
         /\ DOMAIN pc = Proc /\ DOMAIN loc = Proc /\ DOMAIN log = Proc /\ DOMAIN call = Proc
         /\ loc[p] \in Locals /\ log[p] \in Seq(Word)
         /\ LocalsWild(cell, obj, pc[p], call[p], loc[p], log[p])
         /\ pc[p] # "idle" => call[p] \in Asked /\ call[p].key \in Key
                              /\ call[p].op \in {"get", "set"}
         /\ HeapInv(obj, top) /\ CellInv(cell, obj, top) /\ Shape
<1>1. LocalsWild(cell, obj, pc[p], call[p], loc[p], log[p])  BY DEF WildInv
<1>2. pc[p] # "idle" => call[p] \in Asked  BY <1>1 DEF LocalsWild
<1> QED  BY <1>1, <1>2, Procs DEF WildInv, Shape, Asked, Call

\* A step of a closure that leaves the memory as it is.
LEMMA WildClosure ==
  ASSUME WildInv, NEW t \in App, NEW p, p = A(t), ClosureStep(p), UNCHANGED memVars,
         loc'[p] \in Locals, log'[p] \in Seq(Word),
         LocalsWild(cell, obj, pc'[p], call[p], loc'[p], log'[p]), ~Owns(pc'[p], loc'[p])
  PROVE  WildInv'
<1>1. Steps(p)  BY WildFacts, ClosureSteps
<1>2. pending' \in [App -> Seq([call : Asked, struck : BOOLEAN, words : Seq(Word)])]
  BY <1>1 DEF Steps, WildInv
<1>3. call'[p] = call[p] /\ call[p] \in Call \cup {NoCall}  BY <1>1 DEF Steps, WildInv
<1> QED  BY <1>1, <1>2, <1>3, WildQuiet DEF Steps

\* Words are added to a log.
Joins(w2, w, x, y) == w2 = w \o x \o y

\* The application writes words.
LEMMA WildJoins ==
  ASSUME WildInv, NEW t \in App, NEW p, p = A(t), NEW x \in Seq(Word), Args(p) = x,
         NEW y \in Seq(Word), Logged(p, y)
  PROVE  Joins(log'[p], log[p], x, y)
<1>1. p \in DOMAIN log /\ p[2] = "app" /\ log[p] \in Seq(Word)  BY WildFacts
<1>2. log' = [log EXCEPT ![p] = log[p] \o x \o y]  BY <1>1, AppLogged
<1> QED  BY <1>1, <1>2 DEF Joins

\* The log remains one of words.
LEMMA WildWrites ==
  ASSUME WildInv, NEW t \in App, NEW p, p = A(t), NEW x \in Seq(Word), Args(p) = x,
         NEW y \in Seq(Word), Logged(p, y)
  PROVE  log'[p] \in Seq(Word)
<1>1. log[p] \in Seq(Word)  BY WildFacts
<1>2. PICK w, w2 : w = log[p] /\ w2 = log'[p]  OBVIOUS
<1>3. Joins(w2, w, x, y)  BY <1>2, WildJoins
<1>4. w \o x \o y \in Seq(Word)  BY <1>1, <1>2, ConcatProperties
<1> QED  BY <1>2, <1>3, <1>4 DEF Joins

\* Each step of a closure: the bucket may be wrong.
LEMMA WildLock ==
  ASSUME WildInv, NEW t \in App, NEW p, p = A(t), Lock(p)
  PROVE  WildInv'
<1> USE WildFacts
<1>1. PICK o \in Outcomes(p, Hash[call[p].key], Wrong("hash", Bucket)) :
        loc' = [loc EXCEPT ![p].hv = o[1]]
  BY DEF Lock
<1>2. pc[p] = "lock" /\ pc' = [pc EXCEPT ![p] = "head"] /\ UNCHANGED <<memVars, log>>
  BY DEF Lock, Goto
<1>3. call[p] \in Asked /\ loc[p] = Fresh /\ log[p] = << >>  BY <1>2 DEF LocalsWild
<1>4. o[1] \in Bucket
  <2>1. call[p].key \in Key  BY <1>2
  <2>2. Hash[call[p].key] \in Bucket  BY <2>1, HashAssumption
  <2> QED  BY <1>1, <2>2, OutcomeIs DEF Wrong
<1>5. PICK l : l = [loc[p] EXCEPT !.hv = o[1]]  OBVIOUS
<1>6. loc'[p] = l /\ pc'[p] = "head" /\ log'[p] = log[p]  BY <1>1, <1>2, <1>5
<1>7. l \in Locals /\ l.hv \in Bucket /\ l.ret = 0
  <2>1. o[1] \in Word  BY <1>4, HeapWords
  <2> QED  BY <1>3, <1>4, <1>5, <2>1 DEF Locals, Fresh
<1>8. LocalsWild(cell, obj, "head", call[p], l, log[p]) /\ ~Owns("head", l)
  BY <1>3, <1>7 DEF LocalsWild, Owns
<1> QED  BY <1>2, <1>6, <1>7, <1>8, WildClosure DEF ClosureStep

\* The head may be that of another bucket, or another entry.
LEMMA WildReadHead ==
  ASSUME WildInv, NEW t \in App, NEW p, p = A(t), ReadHead(p)
  PROVE  WildInv'
<1> USE WildFacts
<1>1. PICK o \in Loaded(p, loc[p].hv, Entries \cup {0}) :
        Logged(p, <<o[1]>>) /\ loc' = [loc EXCEPT ![p].head = o[1], ![p].at = o[1]]
  BY DEF ReadHead
<1>2. pc[p] = "head" /\ pc' = [pc EXCEPT ![p] = "walk"] /\ UNCHANGED memVars
  BY DEF ReadHead, Goto
<1>3. call[p] \in Asked /\ loc[p].hv \in Bucket /\ loc[p].ret = 0 /\ log[p] = << >>
  BY <1>2 DEF LocalsWild
<1>4. o[1] \in Places(obj)
  <2>1. cell[loc[p].hv] \in Places(obj)  BY <1>3 DEF CellInv
  <2>2. Entries \cup {0} = Places(obj)  BY DEF Entries, Values, Places, EntriesIn, ValuesIn
  <2> QED  BY <1>1, <2>1, <2>2, LoadedIs
<1>5. PICK l, w : /\ l = [loc[p] EXCEPT !.head = o[1], !.at = o[1]]
                  /\ w = <<loc[p].hv, o[1]>>
  OBVIOUS
<1>6. o[1] \in Word /\ loc[p].hv \in Word  BY <1>4, HeapWords DEF Locals
<1>7. loc'[p] = l /\ pc'[p] = "walk" /\ log'[p] = w
  <2>1. PICK x, y : x = <<loc[p].hv>> /\ y = <<o[1]>>  OBVIOUS
  <2>2. Args(p) = x  BY <1>2, <2>1, ArgsAre
  <2>3. x \in Seq(Word) /\ y \in Seq(Word)  BY <1>6, <2>1
  <2>4. log'[p] = log[p] \o x \o y
    <3>1. Logged(p, y)  BY <1>1, <2>1
    <3>2. Joins(log'[p], log[p], x, y)
      BY ONLY WildInv, t \in App, p = A(t), <2>2, <2>3, <3>1, WildJoins
    <3> QED  BY <3>2 DEF Joins
  <2>5. << >> \o x \o y = w  BY <1>5, <2>1, Join0_1_1
  <2> QED  BY <1>1, <1>2, <1>3, <1>5, <2>4, <2>5
<1>8. /\ l \in Locals /\ l.hv = loc[p].hv /\ l.ret = 0 /\ l.head = o[1] /\ l.at = o[1]
      /\ w \in Seq(Word)
  <2>1. w \in Seq(Word)  BY <1>5, <1>6
  <2>2. loc[p] \in Locals  OBVIOUS
  <2>3. l \in Locals  BY ONLY <1>5, <1>6, <2>2 DEF Locals
  <2> QED  BY <1>3, <1>5, <2>1, <2>2, <2>3 DEF Locals
<1>9. LocalsWild(cell, obj, "walk", call[p], l, w) /\ ~Owns("walk", l)
  BY <1>3, <1>4, <1>8 DEF LocalsWild, Owns
<1> QED  BY <1>2, <1>7, <1>8, <1>9, WildClosure DEF ClosureStep

\* What is known of a walk.
LEMMA WildWalk ==
  ASSUME WildInv, NEW t \in App, NEW p, p = A(t), pc[p] = "walk"
  PROVE  /\ call[p] \in Asked /\ loc[p].hv \in Bucket /\ loc[p].ret = 0
         /\ loc[p].head \in Places(obj) /\ loc[p].at \in Places(obj)
         /\ loc[p].at # 0 => /\ loc[p].at \in EntriesIn(obj)
                             /\ obj[loc[p].at].data.next \in Places(obj)
                             /\ obj[loc[p].at].data.next < loc[p].at
                             /\ CellOf(obj, loc[p].at) \in DOMAIN cell \ Bucket
BY WildFacts DEF LocalsWild, Places, HeapInv, CellInv

\* The entry may be one with another key, the cell another entry's.
LEMMA WildFind ==
  ASSUME WildInv, NEW t \in App, NEW p, p = A(t), Find(p)
  PROVE  WildInv'
<1> USE WildFacts
<1>1. PICK e : e = obj[loc[p].at].data  OBVIOUS
<1>2. PICK o \in Outcomes(p, e.cell, Wrong("address", ValueCells)) :
        loc' = [loc EXCEPT ![p].dest = o[1]]
  BY <1>1 DEF Find
<1>3. pc[p] = "walk" /\ loc[p].at # 0 /\ pc' = [pc EXCEPT ![p] = "load"]
      /\ UNCHANGED <<memVars, log>>
  BY DEF Find, Goto
<1>4. /\ call[p] \in Asked /\ loc[p].hv \in Bucket /\ loc[p].head \in Places(obj)
      /\ CellOf(obj, loc[p].at) \in DOMAIN cell \ Bucket
  BY <1>3, WildWalk
<1>5. o[1] \in DOMAIN cell \ Bucket
  BY <1>1, <1>4, OutcomeIs DEF Wrong, ValueCells, CellOf
<1>6. PICK l : l = [loc[p] EXCEPT !.dest = o[1]]  OBVIOUS
<1>7. loc'[p] = l /\ pc'[p] = "load" /\ log'[p] = log[p]  BY <1>2, <1>3, <1>6
<1>8. l \in Locals /\ l.hv = loc[p].hv /\ l.head = loc[p].head /\ l.dest = o[1]
  <2>1. o[1] \in Word  BY <1>5 DEF CellInv, Word, Addr
  <2> QED  BY <1>6, <2>1 DEF Locals
<1>9. LocalsWild(cell, obj, "load", call[p], l, log[p]) /\ ~Owns("load", l)
  BY <1>4, <1>5, <1>8 DEF LocalsWild, Owns
<1> QED  BY <1>3, <1>7, <1>8, <1>9, WildClosure DEF ClosureStep

\* The entry that is skipped may have the key.
LEMMA WildSkip ==
  ASSUME WildInv, NEW t \in App, NEW p, p = A(t), Skip(p)
  PROVE  WildInv'
<1> USE WildFacts
<1>1. PICK a : a = obj[loc[p].at].data.next  OBVIOUS
<1>2. loc' = [loc EXCEPT ![p].at = a]  BY <1>1 DEF Skip
<1>3. pc[p] = "walk" /\ loc[p].at # 0 /\ UNCHANGED <<pc, memVars, log>>
  BY DEF Skip
<1>4. /\ call[p] \in Asked /\ loc[p].hv \in Bucket /\ loc[p].head \in Places(obj)
      /\ loc[p].ret = 0 /\ a \in Places(obj)
  BY <1>1, <1>3, WildWalk
<1>5. PICK l : l = [loc[p] EXCEPT !.at = a]  OBVIOUS
<1>6. loc'[p] = l /\ pc'[p] = "walk" /\ log'[p] = log[p]  BY <1>2, <1>3, <1>5
<1>7. /\ l \in Locals /\ l.hv = loc[p].hv /\ l.head = loc[p].head /\ l.at = a /\ l.ret = 0
  <2>1. a \in Word  BY <1>4, HeapWords
  <2> QED  BY <1>4, <1>5, <2>1 DEF Locals
<1>8. LocalsWild(cell, obj, "walk", call[p], l, log[p]) /\ ~Owns("walk", l)
  BY <1>4, <1>7 DEF LocalsWild, Owns
<1> QED  BY <1>3, <1>6, <1>7, <1>8, WildClosure DEF ClosureStep

\* The chain ends.
LEMMA WildMiss ==
  ASSUME WildInv, NEW t \in App, NEW p, p = A(t), Miss(p)
  PROVE  WildInv'
<1> USE WildFacts
<1>1. PICK s : s = IF call[p].op = "get" THEN "unlock" ELSE "newCell"  OBVIOUS
<1>2. pc[p] = "walk" /\ pc' = [pc EXCEPT ![p] = s] /\ UNCHANGED <<memVars, loc, log>>
  BY <1>1 DEF Miss, Goto
<1>3. call[p] \in Asked /\ loc[p].hv \in Bucket /\ loc[p].head \in Places(obj)
  BY <1>2, WildWalk
<1>4. pc'[p] = s /\ loc'[p] = loc[p] /\ log'[p] = log[p]  BY <1>2
<1>5. s = "newCell" => call[p].op = "set"  BY <1>1, <1>2
<1>6. LocalsWild(cell, obj, s, call[p], loc[p], log[p]) /\ ~Owns(s, loc[p])
  BY <1>1, <1>3, <1>5 DEF LocalsWild, Owns
<1> QED  BY <1>2, <1>4, <1>6, WildClosure DEF ClosureStep

\* The value may be another one.
LEMMA WildLoad ==
  ASSUME WildInv, NEW t \in App, NEW p, p = A(t), Load(p)
  PROVE  WildInv'
<1> USE WildFacts
<1>1. PICK s, r, o :
        /\ o \in Loaded(p, loc[p].dest, Values) /\ Logged(p, <<o[1]>>)
        /\ r = (IF call[p].op = "get" THEN o[1] ELSE kStored)
        /\ s = (IF call[p].op = "get" THEN "unlock" ELSE "makeVal")
        /\ loc' = [loc EXCEPT ![p].ret = r] /\ pc' = [pc EXCEPT ![p] = s]
  BY DEF Load, Goto
<1>2. pc[p] = "load" /\ UNCHANGED memVars  BY DEF Load
<1>3. /\ call[p] \in Asked /\ loc[p].hv \in Bucket /\ loc[p].head \in Places(obj)
      /\ loc[p].dest \in DOMAIN cell \ Bucket
  BY <1>2 DEF LocalsWild
<1>4. o[1] \in Word /\ r \in Word
  <2>1. cell[loc[p].dest] \in Word  BY <1>3 DEF CellInv, Word
  <2>2. Values \subseteq Word  BY HeapWords DEF Values, ValuesIn
  <2>3. kStored \in Word  BY DEF Word
  <2>4. o[1] \in Word  BY <1>1, <2>1, <2>2, LoadedIs
  <2> QED  BY <1>1, <2>3, <2>4
<1>5. PICK l : l = [loc[p] EXCEPT !.ret = r]  OBVIOUS
<1>6. loc'[p] = l /\ pc'[p] = s  BY <1>1, <1>5
<1>7. /\ l \in Locals /\ l.hv = loc[p].hv /\ l.head = loc[p].head /\ l.dest = loc[p].dest
      /\ l.ret = r
  BY <1>4, <1>5 DEF Locals
<1>8. log'[p] \in Seq(Word)
  <2>1. PICK x, y : x = <<loc[p].dest>> /\ y = <<o[1]>>  OBVIOUS
  <2>2. Args(p) = x  BY <1>2, <2>1, ArgsAre
  <2>3. loc[p].dest \in Word  BY DEF Locals
  <2>4. x \in Seq(Word) /\ y \in Seq(Word)  BY <1>4, <2>1, <2>3
  <2> QED  BY <1>1, <2>1, <2>2, <2>4, WildWrites
<1>9. s = "makeVal" => call[p].op = "set" /\ r = kStored  BY <1>1, <1>2
<1>10. LocalsWild(cell, obj, s, call[p], l, log'[p]) /\ ~Owns(s, l)
  BY <1>1, <1>3, <1>7, <1>9, WordsDiffer DEF LocalsWild, Owns
<1> QED  BY <1>2, <1>6, <1>7, <1>8, <1>10, WildClosure DEF ClosureStep

\* The release of the lock.
LEMMA WildUnlock ==
  ASSUME WildInv, NEW t \in App, NEW p, p = A(t), Unlock(p)
  PROVE  WildInv'
<1> USE WildFacts
<1>1. pc[p] = "unlock" /\ pc' = [pc EXCEPT ![p] = "return"] /\ UNCHANGED <<memVars, loc, log>>
  BY DEF Unlock, Goto
<1>2. call[p] \in Asked /\ loc[p].hv \in Bucket /\ loc[p].head \in Places(obj)
  BY <1>1 DEF LocalsWild
<1>3. LocalsWild(cell, obj, "return", call[p], loc[p], log[p]) /\ ~Owns("return", loc[p])
  BY <1>2 DEF LocalsWild, Owns
<1>4. pc'[p] = "return" /\ loc'[p] = loc[p] /\ log'[p] = log[p]  BY <1>1
<1> QED  BY <1>1, <1>3, <1>4, WildClosure DEF ClosureStep

\* Cells that are taken, written and given to an entry.
LEMMA CellAdded ==
  ASSUME NEW m, NEW n, HeapInv(m, n), NEW q, CellInv(q, m, n), NEW q2, q2 = Extend(q, n + 1, 0)
  PROVE  /\ CellInv(q2, m, n + 1) /\ DOMAIN q \subseteq DOMAIN q2
         /\ \A a \in DOMAIN q : q2[a] = q[a] /\ a # n + 1
         /\ n + 1 \in DOMAIN q2 \ Bucket
         /\ \A e \in EntriesIn(m) : CellOf(m, e) # n + 1
<1>1. n \in Nat /\ Buckets \in Nat /\ Buckets <= n  BY SizesAssumption DEF HeapInv
<1>2. DOMAIN q \subseteq 1 .. n /\ Bucket \subseteq DOMAIN q  BY DEF CellInv
<1>3. DOMAIN q2 = DOMAIN q \cup {n + 1} /\ n + 1 \notin DOMAIN q /\ q2[n + 1] = 0
  BY <1>1, <1>2 DEF Extend
<1>4. \A a \in DOMAIN q : q2[a] = q[a] /\ a # n + 1  BY <1>3 DEF Extend
<1>5. n + 1 \in DOMAIN q2 \ Bucket  BY <1>2, <1>3
<1>6. DOMAIN q2 \subseteq 1 .. n + 1  BY <1>1, <1>2, <1>3
<1>7. \A e \in EntriesIn(m) : CellOf(m, e) \in DOMAIN q \ Bucket  BY DEF CellInv
<1>8. CellInv(q2, m, n + 1)
  BY <1>2, <1>3, <1>4, <1>6, <1>7 DEF CellInv, Addr
<1> QED  BY <1>3, <1>4, <1>5, <1>7, <1>8

\* A cell is written.
LEMMA CellWritten ==
  ASSUME NEW m, NEW n, HeapInv(m, n), NEW q, CellInv(q, m, n),
         NEW a \in DOMAIN q, NEW x,
         (a \notin Bucket /\ x \in ValuesIn(m)) \/ (a \in Bucket /\ x \in Places(m)),
         NEW q2, q2 = [q EXCEPT ![a] = x]
  PROVE  /\ CellInv(q2, m, n) /\ DOMAIN q2 = DOMAIN q
         /\ q2[a] = x /\ \A d \in DOMAIN q : d # a => q2[d] = q[d]
<1>1. DOMAIN q2 = DOMAIN q /\ q2[a] = x /\ \A d \in DOMAIN q : d # a => q2[d] = q[d]
  OBVIOUS
<1>2. x \in Addr  BY HeapKinds DEF Addr
<1>3. \A d \in DOMAIN q2 : q2[d] \in Addr  BY <1>1, <1>2 DEF CellInv
<1>4. \A b \in Bucket : q2[b] \in Places(m)  BY <1>1 DEF CellInv
<1>5. \A e \in EntriesIn(m) : /\ CellOf(m, e) \in DOMAIN q2 \ Bucket
                              /\ q2[CellOf(m, e)] \in ValuesIn(m)
  BY <1>1 DEF CellInv
<1> QED  BY <1>1, <1>3, <1>4, <1>5 DEF CellInv

\* A value comes.
LEMMA CellsKept ==
  ASSUME NEW m, NEW n, HeapInv(m, n), NEW q, CellInv(q, m, n), NEW m2, Grows(m, m2),
         EntriesIn(m2) = EntriesIn(m)
  PROVE  CellInv(q, m2, n + 1)
<1>1. n \in Nat /\ 1 .. n \subseteq 1 .. n + 1  BY DEF HeapInv
<1>2. /\ ValuesIn(m) \subseteq ValuesIn(m2) /\ Places(m) \subseteq Places(m2)
      /\ \A e \in EntriesIn(m) : CellOf(m2, e) = CellOf(m, e)
  BY Kept
<1> QED  BY <1>1, <1>2 DEF CellInv

\* An entry comes, and takes a cell.
LEMMA CellGiven ==
  ASSUME NEW m, NEW n, HeapInv(m, n), NEW q, CellInv(q, m, n), NEW m2, Grows(m, m2),
         EntriesIn(m2) = EntriesIn(m) \cup {n + 1}, CellOf(m2, n + 1) \in DOMAIN q \ Bucket,
         q[CellOf(m2, n + 1)] \in ValuesIn(m),
         \A e \in EntriesIn(m) : CellOf(m, e) # CellOf(m2, n + 1)
  PROVE  CellInv(q, m2, n + 1)
<1>1. n \in Nat /\ 1 .. n \subseteq 1 .. n + 1  BY DEF HeapInv
<1>2. /\ ValuesIn(m) \subseteq ValuesIn(m2) /\ Places(m) \subseteq Places(m2)
      /\ \A e \in EntriesIn(m) : CellOf(m2, e) = CellOf(m, e)
  BY Kept
<1>3. \A e \in EntriesIn(m2) : /\ CellOf(m2, e) \in DOMAIN q \ Bucket
                               /\ q[CellOf(m2, e)] \in ValuesIn(m2)
  BY <1>2 DEF CellInv
<1>4. \A d, e \in EntriesIn(m2) : CellOf(m2, d) = CellOf(m2, e) => d = e
  BY <1>2 DEF CellInv
<1> QED  BY <1>1, <1>2, <1>3, <1>4 DEF CellInv

\* What others have in their hands.
LEMMA OthersAre ==
  ASSUME WildInv, NEW t \in App, NEW u \in App, u # t
  PROVE  /\ pc[A(u)] = "makeEntry" => /\ loc[A(u)].dest \in DOMAIN cell \ Bucket
                                      /\ cell[loc[A(u)].dest] \in ValuesIn(obj)
         /\ Owns(pc[A(u)], loc[A(u)]) =>
              /\ loc[A(u)].dest \in DOMAIN cell \ Bucket
              /\ \A e \in EntriesIn(obj) : CellOf(obj, e) # loc[A(u)].dest
              /\ Owns(pc[A(t)], loc[A(t)]) => loc[A(t)].dest # loc[A(u)].dest
<1>1. LocalsWild(cell, obj, pc[A(u)], call[A(u)], loc[A(u)], log[A(u)])  BY DEF WildInv
<1>2. Owns(pc[A(u)], loc[A(u)]) /\ Owns(pc[A(t)], loc[A(t)]) =>
        loc[A(t)].dest # loc[A(u)].dest
  BY DEF WildInv
<1> QED  BY <1>1, <1>2 DEF LocalsWild, Owns

\* A step of a closure that changes the memory.
LEMMA WildWriter ==
  ASSUME WildInv, NEW t \in App, NEW p, p = A(t), ClosureStep(p),
         HeapInv(obj', top'), CellInv(cell', obj', top'), Grows(obj, obj'),
         DOMAIN cell \subseteq DOMAIN cell',
         loc'[p] \in Locals, log'[p] \in Seq(Word),
         LocalsWild(cell', obj', pc'[p], call[p], loc'[p], log'[p]), OthersWild(t)
  PROVE  WildInv'
<1>1. Steps(p)  BY WildFacts, ClosureSteps
<1>2. pending' \in [App -> Seq([call : Asked, struck : BOOLEAN, words : Seq(Word)])]
  BY <1>1 DEF Steps, WildInv
<1>3. call'[p] = call[p] /\ call[p] \in Call \cup {NoCall}  BY <1>1 DEF Steps, WildInv
<1> QED  BY <1>1, <1>2, <1>3, WildFrame DEF Steps

\* A cell comes, and nobody else has it.
LEMMA WildNewCell ==
  ASSUME WildInv, NEW t \in App, NEW p, p = A(t), NewCell(p)
  PROVE  WildInv'
<1> USE WildFacts
<1>1. PICK a : a = top + 1  OBVIOUS
<1>2. /\ Logged(p, <<a>>) /\ loc' = [loc EXCEPT ![p].dest = a, ![p].ret = kCreated]
      /\ cell' = Extend(cell, a, 0) /\ top' = a
  BY <1>1 DEF NewCell, Allocated
<1>3. pc[p] = "newCell" /\ pc' = [pc EXCEPT ![p] = "makeVal"] /\ obj' = obj
  BY DEF NewCell, Goto
<1>4. /\ call[p] \in Asked /\ loc[p].hv \in Bucket /\ loc[p].head \in Places(obj)
      /\ call[p].op = "set"
  BY <1>3 DEF LocalsWild
<1>5. HeapInv(obj', top') /\ Grows(obj, obj')  BY <1>1, <1>2, <1>3, HeapUp DEF Grows
<1>6. /\ CellInv(cell', obj', top') /\ DOMAIN cell \subseteq DOMAIN cell'
      /\ \A d \in DOMAIN cell : cell'[d] = cell[d] /\ d # a
      /\ a \in DOMAIN cell' \ Bucket
      /\ \A e \in EntriesIn(obj) : CellOf(obj, e) # a
  BY <1>1, <1>2, <1>3, CellAdded
<1>7. PICK l : l = [loc[p] EXCEPT !.dest = a, !.ret = kCreated]  OBVIOUS
<1>8. loc'[p] = l /\ pc'[p] = "makeVal"  BY <1>2, <1>3, <1>7
<1>9. a \in Word /\ kCreated \in Word  BY <1>1 DEF HeapInv, Word, Addr
<1>10. loc[p] \in Locals  OBVIOUS
<1>11. l \in Locals /\ l.hv = loc[p].hv /\ l.head = loc[p].head /\ l.dest = a /\ l.ret = kCreated
  BY ONLY <1>7, <1>9, <1>10 DEF Locals
<1>12. log'[p] \in Seq(Word)
  <2>1. PICK x, y : x = << >> /\ y = <<a>>  OBVIOUS
  <2>2. Args(p) = x /\ x \in Seq(Word) /\ y \in Seq(Word) /\ Logged(p, y)
    BY <1>2, <1>3, <1>9, <2>1, ArgsAre
  <2> QED  BY ONLY WildInv, t \in App, p = A(t), <2>2, WildWrites
<1>13. LocalsWild(cell', obj', "makeVal", call[p], l, log'[p])
  BY <1>3, <1>4, <1>6, <1>11 DEF LocalsWild
<1>14. OthersWild(t)
  <2>1. ASSUME NEW u \in App, u # t
        PROVE  /\ pc[A(u)] = "makeEntry" => cell'[loc[A(u)].dest] \in ValuesIn(obj)
               /\ Owns(pc[A(u)], loc[A(u)]) =>
                    /\ \A e \in EntriesIn(obj) : CellOf(obj, e) # loc[A(u)].dest
                    /\ a # loc[A(u)].dest
    BY <1>6, <2>1, OthersAre
  <2> QED  BY <1>3, <1>8, <1>11, <2>1 DEF OthersWild
<1> QED  BY <1>5, <1>6, <1>8, <1>11, <1>12, <1>13, <1>14, WildWriter DEF ClosureStep

\* The object that make_obj(val) makes, whatever strikes it.
LEMMA WildValue ==
  ASSUME WildInv, NEW t \in App, NEW p, p = A(t), MakeVal(p)
  PROVE  /\ HeapInv(obj', top') /\ Grows(obj, obj')
         /\ ValuesIn(obj') = ValuesIn(obj) \cup {top + 1} /\ EntriesIn(obj') = EntriesIn(obj)
<1> USE WildFacts
<1>1. PICK v, wrongs, o :
        /\ v = call[p].val
        /\ wrongs = Wrong("value", {[data |-> w, sum |-> w] : w \in Val})
              \cup Wrong("copy",  {[data |-> w, sum |-> v] : w \in Val})
              \cup Wrong("sum",   {[data |-> v, sum |-> w] : w \in Val})
        /\ o \in Outcomes(p, [data |-> v, sum |-> v], wrongs)
        /\ obj' = Extend(obj, top + 1, o[1]) /\ top' = top + 1
  <2>1. p[2] = "app"  OBVIOUS
  <2> QED  BY ONLY MakeVal(p), <2>1, ZenonT(60) DEF MakeVal, Allocated
<1>2. pc[p] = "makeVal"  BY DEF MakeVal
<1>3. v \in Val
  <2>1. call[p] \in Asked /\ call[p].op = "set"  BY <1>2 DEF LocalsWild
  <2> QED  BY <1>1, <2>1 DEF Asked, Call
<1>4. \A o1 \in wrongs : \E d \in Val, x \in Val : o1 = [data |-> d, sum |-> x]
  BY <1>1, <1>3 DEF Wrong
<1>5. PICK d \in Val, x \in Val : o[1] = [data |-> d, sum |-> x]
  <2>1. o[1] \in wrongs \/ o[1] = [data |-> v, sum |-> v]  BY <1>1, OutcomeIs
  <2> QED  BY <1>3, <1>4, <2>1
<1>6. obj' = Extend(obj, top + 1, [data |-> d, sum |-> x])  BY <1>1, <1>5
<1> QED  BY <1>1, <1>6, AddValue

\* The value may be wrong, or its sum.
LEMMA WildMakeVal ==
  ASSUME WildInv, NEW t \in App, NEW p, p = A(t), MakeVal(p)
  PROVE  WildInv'
<1> USE WildFacts
<1>1. PICK a, l : a = top + 1 /\ l = [loc[p] EXCEPT !.made = a]  OBVIOUS
<1>2. Logged(p, <<a>>) /\ loc' = [loc EXCEPT ![p] = l] /\ top' = a
  BY <1>1 DEF MakeVal, Allocated
<1>3. pc[p] = "makeVal" /\ pc' = [pc EXCEPT ![p] = "store"] /\ cell' = cell
  BY DEF MakeVal, Goto
<1>4. /\ call[p] \in Asked /\ loc[p].hv \in Bucket /\ loc[p].head \in Places(obj)
      /\ call[p].op = "set" /\ loc[p].dest \in DOMAIN cell \ Bucket
      /\ loc[p].ret \in {kStored, kCreated}
      /\ Owns("makeVal", loc[p]) => \A e \in EntriesIn(obj) : CellOf(obj, e) # loc[p].dest
  BY <1>3 DEF LocalsWild
<1>5. /\ HeapInv(obj', top') /\ Grows(obj, obj')
      /\ ValuesIn(obj') = ValuesIn(obj) \cup {a} /\ EntriesIn(obj') = EntriesIn(obj)
  BY <1>1, WildValue
<1>6. CellInv(cell', obj', top')  BY <1>1, <1>2, <1>3, <1>5, CellsKept
<1>7. /\ \A e \in EntriesIn(obj) : CellOf(obj', e) = CellOf(obj, e)
      /\ Places(obj') = Places(obj)
  BY <1>5, Kept DEF Places
<1>8. a \in Word /\ SizeOfVal \in Word  BY <1>1 DEF HeapInv, Word, Addr
<1>9. loc'[p] = l /\ pc'[p] = "store"  BY <1>2, <1>3
<1>10. /\ l \in Locals /\ l.hv = loc[p].hv /\ l.head = loc[p].head /\ l.dest = loc[p].dest
       /\ l.ret = loc[p].ret /\ l.made = a
  BY <1>1, <1>8 DEF Locals
<1>11. log'[p] \in Seq(Word)
  <2>1. PICK x, y : x = <<SizeOfVal>> /\ y = <<a>>  OBVIOUS
  <2>2. Args(p) = x /\ x \in Seq(Word) /\ y \in Seq(Word) /\ Logged(p, y)
    BY <1>2, <1>3, <1>8, <2>1, ArgsAre
  <2> QED  BY ONLY WildInv, t \in App, p = A(t), <2>2, WildWrites
<1>12. LocalsWild(cell', obj', "store", call[p], l, log'[p])
  BY <1>3, <1>4, <1>5, <1>7, <1>10 DEF LocalsWild, Owns
<1>13. OthersWild(t)
  <2>1. Owns("store", l) => Owns(pc[p], loc[p])  BY <1>3, <1>10 DEF Owns
  <2>2. ASSUME NEW u \in App, u # t
        PROVE  /\ pc[A(u)] = "makeEntry" => cell[loc[A(u)].dest] \in ValuesIn(obj)
               /\ Owns(pc[A(u)], loc[A(u)]) =>
                    /\ \A e \in EntriesIn(obj) : CellOf(obj, e) # loc[A(u)].dest
                    /\ Owns("store", l) => l.dest # loc[A(u)].dest
    BY <1>10, <2>1, <2>2, OthersAre
  <2> QED  BY <1>3, <1>5, <1>7, <1>9, <2>2 DEF OthersWild
<1> QED
  BY <1>3, <1>5, <1>6, <1>9, <1>10, <1>11, <1>12, <1>13, WildWriter DEF ClosureStep

\* A value is stored into the cell, maybe another one.
LEMMA WildStore ==
  ASSUME WildInv, NEW t \in App, NEW p, p = A(t), Store(p)
  PROVE  WildInv'
<1> USE WildFacts
<1>1. PICK s, o :
        /\ o \in Outcomes(p, loc[p].made, Wrong("store", Values))
        /\ cell' = [cell EXCEPT ![loc[p].dest] = o[1]]
        /\ s = (IF loc[p].ret = kStored THEN "unlock" ELSE "makeEntry")
        /\ pc' = [pc EXCEPT ![p] = s]
  BY DEF Store, Goto
<1>2. pc[p] = "store" /\ UNCHANGED <<obj, top, loc>> /\ Logged(p, << >>)  BY DEF Store
<1>3. /\ call[p] \in Asked /\ loc[p].hv \in Bucket /\ loc[p].head \in Places(obj)
      /\ call[p].op = "set" /\ loc[p].dest \in DOMAIN cell \ Bucket
      /\ loc[p].ret \in {kStored, kCreated} /\ loc[p].made \in ValuesIn(obj)
      /\ Owns("store", loc[p]) => \A e \in EntriesIn(obj) : CellOf(obj, e) # loc[p].dest
  BY <1>2 DEF LocalsWild
<1>4. o[1] \in ValuesIn(obj)  BY <1>1, <1>3, OutcomeIs DEF Wrong, Values, ValuesIn
<1>5. /\ CellInv(cell', obj', top') /\ DOMAIN cell' = DOMAIN cell
      /\ cell'[loc[p].dest] = o[1]
      /\ \A d \in DOMAIN cell : d # loc[p].dest => cell'[d] = cell[d]
  <2>1. HeapInv(obj, top) /\ CellInv(cell, obj, top) /\ obj' = obj /\ top' = top  BY <1>2
  <2>2. PICK d, x, q : d = loc[p].dest /\ x = o[1] /\ q = cell'  OBVIOUS
  <2>3. q = [cell EXCEPT ![d] = x] /\ d \in DOMAIN cell /\ d \notin Bucket /\ x \in ValuesIn(obj)
    BY <1>1, <1>3, <1>4, <2>2
  <2>4. /\ CellInv(q, obj, top) /\ DOMAIN q = DOMAIN cell /\ q[d] = x
        /\ \A e \in DOMAIN cell : e # d => q[e] = cell[e]
    BY ONLY <2>1, <2>3, CellWritten
  <2> QED  BY <2>1, <2>2, <2>4
<1>6. HeapInv(obj', top') /\ Grows(obj, obj')  BY <1>2 DEF Grows
<1>7. pc'[p] = s /\ loc'[p] = loc[p]  BY <1>1, <1>2
<1>8. s = "makeEntry" => loc[p].ret = kCreated /\ Owns("store", loc[p])
  BY <1>1, <1>3 DEF Owns
<1>9. log'[p] \in Seq(Word)
  <2>1. PICK x, y : x = <<loc[p].dest, loc[p].made>> /\ y = << >>  OBVIOUS
  <2>2. loc[p].dest \in Word /\ loc[p].made \in Word  BY DEF Locals
  <2>3. Args(p) = x /\ x \in Seq(Word) /\ y \in Seq(Word) /\ Logged(p, y)
    BY <1>2, <2>1, <2>2, ArgsAre
  <2> QED  BY ONLY WildInv, t \in App, p = A(t), <2>3, WildWrites
<1>10. LocalsWild(cell', obj', s, call[p], loc[p], log'[p])
  BY <1>1, <1>2, <1>3, <1>4, <1>5, <1>8 DEF LocalsWild, Owns
<1>11. OthersWild(t)
  <2>1. Owns(s, loc[p]) => Owns(pc[p], loc[p])  BY <1>1, <1>2, <1>8 DEF Owns
  <2>2. ASSUME NEW u \in App, u # t
        PROVE  /\ pc[A(u)] = "makeEntry" => cell'[loc[A(u)].dest] \in ValuesIn(obj)
               /\ Owns(pc[A(u)], loc[A(u)]) =>
                    /\ \A e \in EntriesIn(obj) : CellOf(obj, e) # loc[A(u)].dest
                    /\ Owns(s, loc[p]) => loc[p].dest # loc[A(u)].dest
    BY <1>4, <1>5, <2>1, <2>2, OthersAre
  <2> QED  BY <1>2, <1>7, <2>2 DEF OthersWild
<1> QED  BY <1>5, <1>6, <1>7, <1>9, <1>10, <1>11, WildWriter DEF ClosureStep

\* What a fault makes of the entry e and its checksum.
WrongEntries(e) ==
  LET others == {[e EXCEPT !.key = k] : k \in Key \ {e.key}} IN
  Wrong("value", {[data |-> w, sum |-> w] : w \in others})
    \cup Wrong("sum", {[data |-> e, sum |-> w] : w \in others})

\* The object that make_obj(entry) makes, whatever strikes it.
LEMMA WildEntry ==
  ASSUME WildInv, NEW t \in App, NEW p, p = A(t), MakeEntry(p)
  PROVE  /\ HeapInv(obj', top') /\ Grows(obj, obj')
         /\ ValuesIn(obj') = ValuesIn(obj) /\ EntriesIn(obj') = EntriesIn(obj) \cup {top + 1}
         /\ CellOf(obj', top + 1) = loc[p].dest
<1> USE WildFacts
<1>1. PICK e, o :
        /\ e = NewEntry(p) /\ o \in Outcomes(p, [data |-> e, sum |-> e], WrongEntries(e))
        /\ obj' = Extend(obj, top + 1, o[1]) /\ top' = top + 1
  <2>1. PICK e : e = NewEntry(p)  OBVIOUS
  <2>2. PICK o \in Outcomes(p, [data |-> NewEntry(p), sum |-> NewEntry(p)], WrongEntries(NewEntry(p))) :
          obj' = Extend(obj, top + 1, o[1]) /\ top' = top + 1
    <3>1. p[2] = "app"  OBVIOUS
    <3> QED  BY ONLY MakeEntry(p), <3>1 DEF MakeEntry, Allocated, WrongEntries
  <2> QED  BY <2>1, <2>2
<1>2. pc[p] = "makeEntry"  BY DEF MakeEntry
<1>3. call[p].key \in Key /\ loc[p].dest \in DOMAIN cell /\ loc[p].head \in Places(obj)
  BY <1>2 DEF LocalsWild
<1>4. loc[p].dest \in Addr /\ loc[p].head \in Addr
  BY <1>3, HeapKinds DEF CellInv, Addr
<1>5. PICK k, d, h : k = call[p].key /\ d = loc[p].dest /\ h = loc[p].head  OBVIOUS
<1>6. e = [key |-> k, cell |-> d, next |-> h]  BY <1>1, <1>5 DEF NewEntry
<1>7. PICK others : others = {[e EXCEPT !.key = k1] : k1 \in Key \ {e.key}}  OBVIOUS
<1>8. \A o1 \in WrongEntries(e) : \E j \in Key : \E x :
        o1 = [data |-> [key |-> j, cell |-> d, next |-> h], sum |-> x]
  <2>1. k \in Key  BY <1>3, <1>5
  <2>2. \A w \in others : \E j \in Key : w = [key |-> j, cell |-> d, next |-> h]
    BY <1>6, <1>7
  <2>3. WrongEntries(e) \subseteq {[data |-> w, sum |-> w] : w \in others}
                                \cup {[data |-> e, sum |-> w] : w \in others}
    BY <1>7 DEF WrongEntries, Wrong
  <2> QED  BY <1>6, <2>1, <2>2, <2>3
<1>9. PICK j, x : j \in Key /\ o[1] = [data |-> [key |-> j, cell |-> d, next |-> h], sum |-> x]
  <2>1. CASE o[1] \in WrongEntries(e)
    <3>1. PICK j \in Key : \E x : o[1] = [data |-> [key |-> j, cell |-> d, next |-> h], sum |-> x]
      BY <1>8, <2>1
    <3> QED  BY <3>1
  <2>2. CASE o[1] = [data |-> e, sum |-> e]
    <3>1. k \in Key  BY <1>3, <1>5
    <3> QED  BY <1>6, <2>2, <3>1
  <2>3. o[1] \in WrongEntries(e) \/ o[1] = [data |-> e, sum |-> e]  BY <1>1, OutcomeIs
  <2> QED  BY <2>1, <2>2, <2>3
<1>10. PICK f : f = [key |-> j, cell |-> d, next |-> h]  OBVIOUS
<1>11. f \in Entry /\ f.next \in Places(obj) /\ f.cell = d
  BY <1>3, <1>4, <1>5, <1>9, <1>10 DEF Entry
<1>12. obj' = Extend(obj, top + 1, [data |-> f, sum |-> x])  BY <1>1, <1>9, <1>10
<1>13. HeapInv(obj, top) /\ top' = top + 1  BY <1>1
<1>14. PICK m2 : m2 = obj'  OBVIOUS
<1>15. /\ HeapInv(m2, top + 1) /\ Grows(obj, m2)
       /\ ValuesIn(m2) = ValuesIn(obj) /\ EntriesIn(m2) = EntriesIn(obj) \cup {top + 1}
       /\ m2[top + 1].data = f
  BY ONLY <1>11, <1>12, <1>13, <1>14, AddEntry
<1> QED  BY <1>5, <1>11, <1>13, <1>14, <1>15 DEF CellOf

\* A new entry, whose cell no other entry has.
LEMMA WildMakeEntry ==
  ASSUME WildInv, NEW t \in App, NEW p, p = A(t), MakeEntry(p)
  PROVE  WildInv'
<1> USE WildFacts
<1>1. PICK a, l : a = top + 1 /\ l = [loc[p] EXCEPT !.made = a]  OBVIOUS
<1>2. Logged(p, <<a>>) /\ loc' = [loc EXCEPT ![p] = l] /\ top' = a
  BY <1>1 DEF MakeEntry, Allocated
<1>3. pc[p] = "makeEntry" /\ pc' = [pc EXCEPT ![p] = "link"] /\ cell' = cell
  BY DEF MakeEntry, Goto
<1>4. /\ call[p] \in Asked /\ loc[p].hv \in Bucket /\ loc[p].head \in Places(obj)
      /\ call[p].op = "set" /\ loc[p].dest \in DOMAIN cell \ Bucket
      /\ loc[p].ret = kCreated /\ cell[loc[p].dest] \in ValuesIn(obj)
      /\ Owns("makeEntry", loc[p])
      /\ \A e \in EntriesIn(obj) : CellOf(obj, e) # loc[p].dest
  BY <1>3 DEF LocalsWild, Owns
<1>5. /\ HeapInv(obj', top') /\ Grows(obj, obj')
      /\ ValuesIn(obj') = ValuesIn(obj) /\ EntriesIn(obj') = EntriesIn(obj) \cup {a}
      /\ CellOf(obj', a) = loc[p].dest
  BY <1>1, WildEntry
<1>6. CellInv(cell', obj', top')
  <2>1. HeapInv(obj, top) /\ CellInv(cell, obj, top) /\ cell' = cell /\ top' = top + 1
    BY <1>1, <1>2, <1>3
  <2>2. PICK m2 : m2 = obj'  OBVIOUS
  <2>3. /\ Grows(obj, m2) /\ EntriesIn(m2) = EntriesIn(obj) \cup {top + 1}
        /\ CellOf(m2, top + 1) \in DOMAIN cell \ Bucket
        /\ cell[CellOf(m2, top + 1)] \in ValuesIn(obj)
        /\ \A e \in EntriesIn(obj) : CellOf(obj, e) # CellOf(m2, top + 1)
    BY <1>1, <1>4, <1>5, <2>2
  <2>4. CellInv(cell, m2, top + 1)  BY ONLY <2>1, <2>3, CellGiven
  <2> QED  BY <2>1, <2>2, <2>4
<1>7. /\ \A e \in EntriesIn(obj) : CellOf(obj', e) = CellOf(obj, e)
      /\ Places(obj) \subseteq Places(obj')
  BY <1>5, Kept
<1>8. a \in Word /\ SizeOfEntry \in Word  BY <1>1 DEF HeapInv, Word, Addr
<1>9. loc'[p] = l /\ pc'[p] = "link"  BY <1>2, <1>3
<1>10. /\ l \in Locals /\ l.hv = loc[p].hv /\ l.head = loc[p].head /\ l.dest = loc[p].dest
       /\ l.ret = loc[p].ret /\ l.made = a
  BY <1>1, <1>8 DEF Locals
<1>11. log'[p] \in Seq(Word)
  <2>1. PICK x, y : x = <<SizeOfEntry>> /\ y = <<a>>  OBVIOUS
  <2>2. Args(p) = x /\ x \in Seq(Word) /\ y \in Seq(Word) /\ Logged(p, y)
    BY <1>2, <1>3, <1>8, <2>1, ArgsAre
  <2> QED  BY ONLY WildInv, t \in App, p = A(t), <2>2, WildWrites
<1>12. LocalsWild(cell', obj', "link", call[p], l, log'[p]) /\ ~Owns("link", l)
  BY <1>3, <1>4, <1>5, <1>7, <1>10 DEF LocalsWild, Owns
<1>13. OthersWild(t)
  <2>1. ASSUME NEW u \in App, u # t
        PROVE  /\ pc[A(u)] = "makeEntry" => cell[loc[A(u)].dest] \in ValuesIn(obj)
               /\ Owns(pc[A(u)], loc[A(u)]) =>
                    \A e \in EntriesIn(obj) \cup {a} : CellOf(obj', e) # loc[A(u)].dest
    BY <1>3, <1>4, <1>5, <1>7, <2>1, OthersAre
  <2> QED  BY <1>3, <1>5, <1>9, <1>12, <2>1 DEF OthersWild
<1> QED
  BY <1>3, <1>5, <1>6, <1>9, <1>10, <1>11, <1>12, <1>13, WildWriter DEF ClosureStep

\* The chain of a bucket begins with some entry, or is empty.
LEMMA WildLink ==
  ASSUME WildInv, NEW t \in App, NEW p, p = A(t), Link(p)
  PROVE  WildInv'
<1> USE WildFacts
<1>1. PICK o :
        /\ o \in Outcomes(p, loc[p].made, Wrong("store", Entries \cup {0}))
        /\ cell' = [cell EXCEPT ![loc[p].hv] = o[1]]
  BY DEF Link
<1>2. pc[p] = "link" /\ UNCHANGED <<obj, top, loc>> /\ Logged(p, << >>)
      /\ pc' = [pc EXCEPT ![p] = "unlock"]
  BY DEF Link, Goto
<1>3. /\ call[p] \in Asked /\ loc[p].hv \in Bucket /\ loc[p].head \in Places(obj)
      /\ loc[p].made \in EntriesIn(obj)
  BY <1>2 DEF LocalsWild
<1>4. o[1] \in Places(obj)
  BY <1>1, <1>3, OutcomeIs DEF Wrong, Entries, Values, Places, EntriesIn, ValuesIn
<1>5. /\ CellInv(cell', obj', top') /\ DOMAIN cell' = DOMAIN cell
      /\ \A d \in DOMAIN cell : d # loc[p].hv => cell'[d] = cell[d]
  <2>1. HeapInv(obj, top) /\ CellInv(cell, obj, top) /\ obj' = obj /\ top' = top  BY <1>2
  <2>2. PICK d, x, q : d = loc[p].hv /\ x = o[1] /\ q = cell'  OBVIOUS
  <2>3. q = [cell EXCEPT ![d] = x] /\ d \in DOMAIN cell /\ d \in Bucket /\ x \in Places(obj)
    BY <1>1, <1>3, <1>4, <2>1, <2>2 DEF CellInv
  <2>4. /\ CellInv(q, obj, top) /\ DOMAIN q = DOMAIN cell
        /\ \A e \in DOMAIN cell : e # d => q[e] = cell[e]
    BY ONLY <2>1, <2>3, CellWritten
  <2> QED  BY <2>1, <2>2, <2>4
<1>6. HeapInv(obj', top') /\ Grows(obj, obj')  BY <1>2 DEF Grows
<1>7. pc'[p] = "unlock" /\ loc'[p] = loc[p]  BY <1>2
<1>8. log'[p] \in Seq(Word)
  <2>1. PICK x, y : x = <<loc[p].hv, loc[p].made>> /\ y = << >>  OBVIOUS
  <2>2. loc[p].hv \in Word /\ loc[p].made \in Word  BY DEF Locals
  <2>3. Args(p) = x /\ x \in Seq(Word) /\ y \in Seq(Word) /\ Logged(p, y)
    BY <1>2, <2>1, <2>2, ArgsAre
  <2> QED  BY ONLY WildInv, t \in App, p = A(t), <2>3, WildWrites
<1>9. LocalsWild(cell', obj', "unlock", call[p], loc[p], log'[p]) /\ ~Owns("unlock", loc[p])
  BY <1>2, <1>3, <1>5 DEF LocalsWild, Owns
<1>10. OthersWild(t)
  <2>1. ASSUME NEW u \in App, u # t
        PROVE  /\ pc[A(u)] = "makeEntry" => cell'[loc[A(u)].dest] \in ValuesIn(obj)
               /\ Owns(pc[A(u)], loc[A(u)]) =>
                    \A e \in EntriesIn(obj) : CellOf(obj, e) # loc[A(u)].dest
    BY <1>3, <1>5, <2>1, OthersAre
  <2> QED  BY <1>2, <1>7, <1>9, <2>1 DEF OthersWild
<1> QED  BY <1>2, <1>5, <1>6, <1>7, <1>8, <1>9, <1>10, WildWriter DEF ClosureStep

\* run2 begins the log of a closure.
LEMMA WildInvoke ==
  ASSUME WildInv, NEW t \in App, Invoke(t)
  PROVE  WildInv' /\ Alone(A(t)) /\ Grows(obj, obj') /\ UNCHANGED <<pending, hit, struck>>
<1>1. PICK p : p = A(t)  OBVIOUS
<1> USE WildFacts, <1>1
<1>2. PICK c \in Call : (c.val = NoVal <=> c.op = "get") /\ call' = [call EXCEPT ![p] = c]
  BY DEF Invoke, A
<1>3. /\ pc[p] = "idle" /\ pc' = [pc EXCEPT ![p] = "lock"] /\ UNCHANGED <<memVars, loc, log>>
      /\ UNCHANGED <<pending, hit, struck>>
  BY DEF Invoke, Goto, A
<1>4. c \in Asked  BY <1>2 DEF Asked
<1>5. loc[p] = Fresh /\ log[p] = << >>  BY <1>3 DEF LocalsWild
<1>6. pc'[p] = "lock" /\ call'[p] = c /\ loc'[p] = loc[p] /\ log'[p] = log[p]
  BY <1>2, <1>3
<1>7. LocalsWild(cell, obj, "lock", c, loc[p], log[p]) /\ ~Owns("lock", loc[p])
  BY <1>4, <1>5 DEF LocalsWild, Owns
<1>8. Shape' /\ Alone(p)
  <2>1. \A q \in Proc : q # p => /\ pc'[q] = pc[q] /\ call'[q] = call[q]
                                 /\ loc'[q] = loc[q] /\ log'[q] = log[q]
    BY <1>2, <1>3
  <2>2. "lock" \in Labels  BY DEF Labels
  <2>3. pc' \in [Proc -> Labels]  BY <1>3, <2>2 DEF Shape
  <2>4. DOMAIN call' = Proc  BY <1>2 DEF Shape
  <2> QED  BY <1>3, <2>1, <2>3, <2>4 DEF Shape, Alone
<1>9. pending' \in [App -> Seq([call : Asked, struck : BOOLEAN, words : Seq(Word)])]
  BY <1>3 DEF WildInv
<1>10. WildInv'  BY <1>3, <1>4, <1>6, <1>7, <1>8, <1>9, WildQuiet DEF Asked
<1>11. Grows(obj, obj')  BY <1>3 DEF Grows, memVars
<1> QED  BY <1>3, <1>8, <1>10, <1>11

\* What Return tells the client, and what it logs.
Returns(t, x, b) ==
  LET p == A(t) IN
  /\ pending' = [pending EXCEPT ![t] =
       Append(@, [call |-> call[p], struck |-> struck[p] \/ b,
                  words |-> log[p] \o <<x, Magic>>])]
  /\ wrong' = (wrong \/ Answer(call[p].op, x) # owed[t]) /\ hit' = (hit \/ b)

\* It may tell and log something wrong.
LEMMA ReturnIs ==
  ASSUME NEW t \in App, NEW p, p = A(t), Return(t)
  PROVE  \E x, b :
           /\ b \in BOOLEAN /\ Returns(t, x, b)
           /\ b => /\ ~hit /\ x # loc[p].ret /\ "return" \in Faults
                   /\ x \in IF call[p].op = "set" THEN {kStored, kCreated} ELSE Values \cup {0}
           /\ ~b => x = loc[p].ret
<1>1. PICK wrongs : wrongs = IF call[p].op = "set" THEN {kStored, kCreated} ELSE Values \cup {0}
  OBVIOUS
<1>2. PICK o \in Outcomes(p, loc[p].ret, Wrong("return", wrongs)) : Returns(t, o[1], o[2])
  BY <1>1 DEF Return, Returns, A
<1>3. /\ o[2] \in BOOLEAN /\ (~o[2] => o[1] = loc[p].ret)
      /\ o[2] => ~hit /\ o[1] \in Wrong("return", wrongs) /\ o[1] # loc[p].ret
  BY OutcomeIs
<1>4. o[2] => "return" \in Faults /\ o[1] \in wrongs  BY <1>3 DEF Wrong
<1>5. CASE o[2] = TRUE  BY <1>1, <1>2, <1>3, <1>4, <1>5
<1>6. CASE o[2] = FALSE  BY <1>1, <1>2, <1>3, <1>6
<1> QED  BY <1>3, <1>5, <1>6

\* The log is committed.
LEMMA WildReturn ==
  ASSUME WildInv, NEW t \in App, Return(t)
  PROVE  WildInv' /\ Alone(A(t)) /\ obj' = obj /\ Grows(obj, obj')
<1>1. PICK p : p = A(t)  OBVIOUS
<1> USE WildFacts, <1>1
<1>2. PICK x, b :
           /\ b \in BOOLEAN /\ Returns(t, x, b)
           /\ b => x \in IF call[p].op = "set" THEN {kStored, kCreated} ELSE Values \cup {0}
           /\ ~b => x = loc[p].ret
  BY ReturnIs
<1>3. /\ pc[p] = "return" /\ pc' = [pc EXCEPT ![p] = "idle"]
      /\ call' = [call EXCEPT ![p] = NoCall] /\ loc' = [loc EXCEPT ![p] = Fresh]
      /\ log' = [log EXCEPT ![p] = << >>] /\ struck' = [struck EXCEPT ![p] = FALSE]
      /\ UNCHANGED memVars
  BY DEF Return, Goto, A
<1>4. call[p] \in Asked  BY <1>3
<1>5. x \in Word
  <2>1. Values \cup {0} \subseteq Word /\ {kStored, kCreated} \subseteq Word
    <3>1. Values = ValuesIn(obj)  BY DEF Values, ValuesIn
    <3> QED  BY <3>1, HeapWords DEF Word, Addr
  <2>2. loc[p].ret \in Word  BY DEF Locals
  <2>3. CASE b  BY <1>2, <2>1, <2>3
  <2>4. CASE ~b  BY <1>2, <2>2, <2>4
  <2> QED  BY <2>3, <2>4
<1>6. PICK c : c = [call |-> call[p], struck |-> struck[p] \/ b, words |-> log[p] \o <<x, Magic>>]
  OBVIOUS
<1>7. c \in [call : Asked, struck : BOOLEAN, words : Seq(Word)]
  <2>1. <<x, Magic>> \in Seq(Word)  BY <1>5 DEF Word
  <2>2. log[p] \in Seq(Word)  OBVIOUS
  <2>3. log[p] \o <<x, Magic>> \in Seq(Word)  BY <2>1, <2>2, ConcatProperties
  <2>4. struck[p] \in BOOLEAN  BY DEF Shape
  <2>5. (struck[p] \/ b) \in BOOLEAN  BY <1>2, <2>4
  <2> QED  BY <1>4, <1>6, <2>3, <2>5
<1>8. pending' \in [App -> Seq([call : Asked, struck : BOOLEAN, words : Seq(Word)])]
  <2>1. pending \in [App -> Seq([call : Asked, struck : BOOLEAN, words : Seq(Word)])]
    BY DEF WildInv
  <2>2. pending' = [pending EXCEPT ![t] = Append(pending[t], c)]  BY <1>2, <1>6 DEF Returns
  <2>3. Append(pending[t], c) \in Seq([call : Asked, struck : BOOLEAN, words : Seq(Word)])
    BY <1>7, <2>1, AppendProperties
  <2> QED  BY <2>1, <2>2, <2>3
<1>9. pc'[p] = "idle" /\ call'[p] = NoCall /\ loc'[p] = Fresh /\ log'[p] = << >>
  BY <1>3
<1>10. LocalsWild(cell, obj, "idle", NoCall, Fresh, << >>) /\ ~Owns("idle", Fresh)
  BY DEF LocalsWild, Owns
<1>11. Fresh \in Locals /\ << >> \in Seq(Word)  BY DEF Fresh, Locals, Word, Addr
<1>12. Alone(p)  BY <1>3 DEF Alone
<1>13. Shape'
  <2>1. "idle" \in Labels  BY DEF Labels
  <2>2. pc' \in [Proc -> Labels] /\ DOMAIN call' = Proc /\ DOMAIN loc' = Proc /\ DOMAIN log' = Proc
    BY <1>3, <2>1 DEF Shape
  <2>3. struck' \in [Proc -> BOOLEAN]  BY <1>3 DEF Shape
  <2>4. hit' \in BOOLEAN  BY <1>2 DEF Returns
  <2> QED  BY <2>2, <2>3, <2>4 DEF Shape
<1>14. obj' = obj /\ Grows(obj, obj')  BY <1>3 DEF Grows, memVars
<1>15. WildInv'  BY <1>3, <1>8, <1>9, <1>10, <1>11, <1>12, <1>13, WildQuiet
<1> QED  BY <1>12, <1>14, <1>15

\* No step of the application breaks what it relies on, whatever strikes it.
LEMMA WildApp ==
  ASSUME WildInv, NEW t \in App, NEW p, p = A(t), ClosureStep(p)
  PROVE  WildInv' /\ Grows(obj, obj')
<1>1. CASE MakeVal(p)  BY <1>1, WildMakeVal, WildValue
<1>2. CASE MakeEntry(p)  BY <1>2, WildMakeEntry, WildEntry
<1>3. ASSUME UNCHANGED obj PROVE Grows(obj, obj')  BY <1>3 DEF Grows
<1>4. CASE Lock(p) \/ ReadHead(p) \/ Find(p) \/ Skip(p) \/ Miss(p) \/ Load(p) \/ Unlock(p)
  <2>1. WildInv'
    BY <1>4, WildLock, WildReadHead, WildFind, WildSkip, WildMiss, WildLoad, WildUnlock
  <2>2. UNCHANGED obj
    BY <1>4 DEF Lock, ReadHead, Find, Skip, Miss, Load, Unlock, memVars
  <2> QED  BY <1>3, <2>1, <2>2
<1>5. CASE NewCell(p) \/ Store(p) \/ Link(p)
  <2>1. WildInv'  BY <1>5, WildNewCell, WildStore, WildLink
  <2>2. UNCHANGED obj  BY <1>5 DEF NewCell, Store, Link
  <2> QED  BY <1>3, <2>1, <2>2
<1> QED  BY <1>1, <1>2, <1>4, <1>5 DEF ClosureStep

\* A step of a validator leaves the application and the memory alone.
LEMMA WildVal ==
  ASSUME WildInv, NEW t \in App, ValStep(t)
  PROVE  /\ WildInv' /\ obj' = obj /\ Grows(obj, obj') /\ Shape'
         /\ \A u \in App : /\ pc'[A(u)] = pc[A(u)] /\ call'[A(u)] = call[A(u)]
                           /\ loc'[A(u)] = loc[A(u)] /\ log'[A(u)] = log[A(u)]
         /\ hit' = hit
         /\ \A u \in App : u # t => pending'[u] = pending[u]
<1>1. PICK p : p = V(t)  OBVIOUS
<1>2. p \in Proc /\ p[2] = "val"  BY <1>1, Procs
<1>3. Shape /\ pending \in [App -> Seq([call : Asked, struck : BOOLEAN, words : Seq(Word)])]
  BY DEF WildInv
<1>4. ASSUME UNCHANGED memVars, Shape', Alone(p), hit' = hit,
             pending' \in [App -> Seq([call : Asked, struck : BOOLEAN, words : Seq(Word)])],
             \A u \in App : u # t => pending'[u] = pending[u],
             pc'[p] = "idle" => loc'[p] = Fresh
      PROVE  /\ WildInv' /\ obj' = obj /\ Grows(obj, obj') /\ Shape'
             /\ \A u \in App : /\ pc'[A(u)] = pc[A(u)] /\ call'[A(u)] = call[A(u)]
                               /\ loc'[A(u)] = loc[A(u)] /\ log'[A(u)] = log[A(u)]
             /\ hit' = hit
             /\ \A u \in App : u # t => pending'[u] = pending[u]
  <2>1. cell' = cell /\ obj' = obj /\ top' = top  BY <1>4 DEF memVars
  <2>2. \A u \in App : /\ pc'[A(u)] = pc[A(u)] /\ call'[A(u)] = call[A(u)]
                       /\ loc'[A(u)] = loc[A(u)] /\ log'[A(u)] = log[A(u)]
    BY <1>1, <1>4, Procs DEF Alone
  <2>3. \A u \in App : pc'[V(u)] = "idle" => loc'[V(u)] = Fresh
    <3>1. SUFFICES ASSUME NEW u \in App, pc'[V(u)] = "idle" PROVE loc'[V(u)] = Fresh
      OBVIOUS
    <3>2. CASE V(u) = p  BY <1>4, <3>1, <3>2
    <3>3. CASE V(u) # p
      <4>1. pc'[V(u)] = pc[V(u)] /\ loc'[V(u)] = loc[V(u)]  BY <1>4, <3>3, Procs DEF Alone
      <4> QED  BY <3>1, <4>1 DEF WildInv
    <3> QED  BY <3>2, <3>3
  <2>4. WildInv'
    <3>1. HeapInv(obj', top') /\ CellInv(cell', obj', top')  BY <2>1 DEF WildInv
    <3>2. \A u \in App :
            /\ call'[A(u)] \in Call \cup {NoCall}
            /\ loc'[A(u)] \in Locals /\ log'[A(u)] \in Seq(Word)
            /\ LocalsWild(cell', obj', pc'[A(u)], call'[A(u)], loc'[A(u)], log'[A(u)])
      BY <2>1, <2>2 DEF WildInv
    <3>3. \A u, v \in App :
            /\ Owns(pc'[A(u)], loc'[A(u)]) /\ Owns(pc'[A(v)], loc'[A(v)])
            /\ loc'[A(u)].dest = loc'[A(v)].dest
            => u = v
      BY <2>2 DEF WildInv
    <3> QED  BY <1>4, <2>3, <3>1, <3>2, <3>3 DEF WildInv
  <2>5. Grows(obj, obj')  BY <2>1 DEF Grows
  <2> QED  BY <1>4, <2>1, <2>2, <2>4, <2>5
<1>5. CASE Open(t)
  <2>1. /\ pc' = [pc EXCEPT ![p] = "lock"] /\ pending[t] # << >>
        /\ call' = [call EXCEPT ![p] = Head(pending[t]).call]
        /\ log' = [log EXCEPT ![p] = Head(pending[t]).words]
        /\ struck' = [struck EXCEPT ![p] = Head(pending[t]).struck]
        /\ pending' = [pending EXCEPT ![t] = Tail(pending[t])]
        /\ UNCHANGED memVars /\ hit' = hit /\ loc' = loc
    BY <1>1, <1>5 DEF Open, Goto, V
  <2>2. pending[t] \in Seq([call : Asked, struck : BOOLEAN, words : Seq(Word)])  BY <1>3
  <2>3. /\ Head(pending[t]) \in [call : Asked, struck : BOOLEAN, words : Seq(Word)]
        /\ Tail(pending[t]) \in Seq([call : Asked, struck : BOOLEAN, words : Seq(Word)])
    BY <2>1, <2>2, HeadTailProperties
  <2>4. pending' \in [App -> Seq([call : Asked, struck : BOOLEAN, words : Seq(Word)])]
    BY <1>3, <2>1, <2>3
  <2>5. \A u \in App : u # t => pending'[u] = pending[u]  BY <1>3, <2>1
  <2>6. Alone(p)  BY <2>1 DEF Alone
  <2>7. Shape' /\ pc'[p] = "lock"
    <3>1. "lock" \in Labels /\ Head(pending[t]).struck \in BOOLEAN  BY <2>3 DEF Labels
    <3>2. pc' \in [Proc -> Labels] /\ pc'[p] = "lock"  BY <1>2, <1>3, <2>1, <3>1 DEF Shape
    <3>3. DOMAIN call' = Proc /\ DOMAIN loc' = Proc /\ DOMAIN log' = Proc
      BY <1>3, <2>1 DEF Shape
    <3>4. struck' \in [Proc -> BOOLEAN] /\ hit' \in BOOLEAN  BY <1>3, <2>1, <3>1 DEF Shape
    <3> QED  BY <3>2, <3>3, <3>4 DEF Shape
  <2> QED  BY <1>4, <2>1, <2>4, <2>5, <2>6, <2>7
<1>6. CASE ClosureStep(p)
  <2>1. Steps(p)  BY <1>2, <1>3, <1>6, ClosureSteps
  <2>2. hit' = hit  BY <1>2, <2>1 DEF Steps, Strikes
  <2>3. UNCHANGED memVars
    BY <1>2, <1>6 DEF ClosureStep, Lock, ReadHead, Find, Skip, Miss, Load, NewCell, MakeVal, Store,
                MakeEntry, Link, Unlock, memVars
  <2> QED  BY <1>3, <1>4, <2>1, <2>2, <2>3 DEF Steps
<1>7. CASE Close(t)
  <2>1. /\ pc' = [pc EXCEPT ![p] = "idle"] /\ call' = [call EXCEPT ![p] = NoCall]
        /\ loc' = [loc EXCEPT ![p] = Fresh] /\ log' = [log EXCEPT ![p] = << >>]
        /\ struck' = [struck EXCEPT ![p] = FALSE]
        /\ UNCHANGED memVars /\ hit' = hit /\ pending' = pending
    BY <1>1, <1>7 DEF Close, Goto, V
  <2>2. Alone(p)  BY <2>1 DEF Alone
  <2>3. Shape' /\ loc'[p] = Fresh
    <3>1. "idle" \in Labels  BY DEF Labels
    <3>2. pc' \in [Proc -> Labels]  BY <1>2, <1>3, <2>1, <3>1 DEF Shape
    <3>3. /\ DOMAIN call' = Proc /\ DOMAIN loc' = Proc /\ DOMAIN log' = Proc /\ loc'[p] = Fresh
      BY <1>2, <1>3, <2>1 DEF Shape
    <3>4. struck' \in [Proc -> BOOLEAN] /\ hit' \in BOOLEAN  BY <1>3, <2>1 DEF Shape
    <3> QED  BY <3>2, <3>3, <3>4 DEF Shape
  <2> QED  BY <1>3, <1>4, <2>1, <2>2, <2>3
<1>8. CASE Report(t)
  <2>1. UNCHANGED <<memVars, pc, call, loc, log, pending, hit, struck>>
    BY <1>8 DEF Report, runVars
  <2>2. Alone(p)  BY <2>1 DEF Alone
  <2>3. Shape'  BY <1>3, <2>1 DEF Shape
  <2>4. pc'[p] = "idle" => loc'[p] = Fresh  BY <1>1, <2>1 DEF WildInv
  <2> QED  BY <1>3, <1>4, <2>1, <2>2, <2>3, <2>4
<1> QED  BY <1>1, <1>5, <1>6, <1>7, <1>8 DEF ValStep, V

\* What holds while nothing has struck is more.
LEMMA RightIsWild ==
  ASSUME RightInv
  PROVE  WildInv
<1>1. TypesInv /\ ObjInv(obj, top) /\ CellInv(cell, obj, top)  BY DEF RightInv
<1>2. HeapInv(obj, top)  BY <1>1 DEF ObjInv
<1>3. Shape  BY <1>1 DEF TypesInv, Shape
<1>4. ASSUME NEW t \in App
      PROVE  /\ call[A(t)] \in Call \cup {NoCall}
             /\ loc[A(t)] \in Locals /\ log[A(t)] \in Seq(Word)
             /\ LocalsWild(cell, obj, pc[A(t)], call[A(t)], loc[A(t)], log[A(t)])
             /\ pc[V(t)] = "idle" => loc[V(t)] = Fresh
  <2>1. PICK s, c, l, w : s = pc[A(t)] /\ c = call[A(t)] /\ l = loc[A(t)] /\ w = log[A(t)]
    OBVIOUS
  <2>2. /\ LocalsAt(obj, s, c, l) /\ WroteAt(obj, s, c, l, w)
        /\ HoldsAt(cell, obj, lock, s, c, l, t)
    BY <2>1, Procs DEF RightInv
  <2>3. /\ c \in Call \cup {NoCall} /\ l \in Locals /\ w \in Seq(Word) /\ s \in Labels
    BY <1>1, <2>1, Procs DEF TypesInv
  <2>4. pc[V(t)] = "idle" => loc[V(t)] = Fresh
    <3>1. LocalsAt(obj, pc[V(t)], call[V(t)], loc[V(t)])  BY Procs DEF RightInv
    <3> QED  BY <3>1 DEF LocalsAt
  <2>5. s # "idle" => c \in Asked /\ c.key \in Key /\ Hash[c.key] \in Bucket
    BY <2>2, HashAssumption DEF LocalsAt, Asked, Call
  <2>6. s \notin {"idle", "lock"} => l.hv \in Bucket  BY <2>2, <2>5 DEF LocalsAt
  <2>7. s \notin {"idle", "lock", "head"} => l.head \in Places(obj)  BY <2>2 DEF LocalsAt
  <2>8. s \notin {"idle", "lock", "head"} /\ Hit(obj, c, l) =>
          CellOf(obj, Found(obj, c, l)) \in DOMAIN cell \ Bucket
    <3>1. SUFFICES ASSUME s \notin {"idle", "lock", "head"}, Hit(obj, c, l)
                   PROVE  CellOf(obj, Found(obj, c, l)) \in DOMAIN cell \ Bucket
      OBVIOUS
    <3>2. c.key \in Key  BY <2>5, <3>1
    <3>3. Found(obj, c, l) \in EntriesIn(obj)
      BY <1>2, <2>7, <3>1, <3>2, HeapLook DEF Found, Hit
    <3> QED  BY <1>1, <3>3 DEF CellInv
  <2>9. Owns(s, l) => /\ l.dest \in DOMAIN cell \ Bucket
                      /\ \A e \in EntriesIn(obj) : CellOf(obj, e) # l.dest
    BY <2>2 DEF HoldsAt
  <2>10. s \in {"load", "makeVal", "store", "makeEntry"} => l.dest \in DOMAIN cell \ Bucket
    <3>1. CASE s = "load"  BY <2>2, <2>8, <3>1 DEF LocalsAt
    <3>2. CASE s \in {"makeVal", "store"}
      <4>1. \/ l.ret = kStored /\ Hit(obj, c, l) /\ l.dest = CellOf(obj, Found(obj, c, l))
            \/ l.ret = kCreated
        BY <2>2, <3>2 DEF LocalsAt
      <4> QED  BY <2>8, <2>9, <3>2, <4>1 DEF Owns
    <3>3. CASE s = "makeEntry"
      <4>1. l.ret = kCreated  BY <2>2, <3>3 DEF LocalsAt
      <4> QED  BY <2>9, <3>3, <4>1 DEF Owns
    <3> QED  BY <3>1, <3>2, <3>3
  <2>11. /\ s = "store" => l.made \in ValuesIn(obj)
         /\ s = "makeEntry" => cell[l.dest] \in ValuesIn(obj)
         /\ s = "link" => l.made \in EntriesIn(obj)
    BY <2>2 DEF LocalsAt, HoldsAt, IsVal, IsEntry
  <2>12. s \in {"idle", "lock", "head"} => w = << >>  BY <2>2 DEF WroteAt
  <2>13. LocalsWild(cell, obj, s, c, l, w)
    <3>1. /\ s = "idle" => c = NoCall /\ l = Fresh
          /\ s # "idle" => c \in Asked
          /\ s = "lock" => l = Fresh
          /\ s = "head" => l.ret = 0
          /\ s = "walk" => l.at \in Places(obj) /\ l.ret = 0
          /\ s \in {"newCell", "makeVal", "store", "makeEntry", "link"} => c.op = "set"
          /\ s \in {"makeVal", "store"} => l.ret \in {kStored, kCreated}
          /\ s \in {"makeEntry", "link"} => l.ret = kCreated
      BY <2>2 DEF LocalsAt
    <3> QED  BY <2>6, <2>7, <2>9, <2>10, <2>11, <2>12, <3>1 DEF LocalsWild
  <2> QED  BY <2>1, <2>3, <2>4, <2>13
<1> QED  BY <1>1, <1>2, <1>3, <1>4 DEF WildInv, RightInv, TypesInv

-----------------------------------------------------------------------------
(* A log that is doomed stays so. *)

\* Its words stay as bad as they are when objects come ...
LEMMA BadKept ==
  ASSUME NEW m, NEW n, HeapInv(m, n), NEW m2, Grows(m, m2), NEW c \in Asked,
         NEW w, NEW j \in Nat, Bad(m, c, w, j)
  PROVE  Bad(m2, c, w, j)
<1>1. c.key \in Key  BY DEF Asked, Call
<1>2. CASE j = 1 /\ w[1] # Hash[c.key]  BY <1>2 DEF Bad
<1>3. CASE ~(j = 1 /\ w[1] # Hash[c.key])
  <2>1. j >= 3 /\ w[2] \in Places(m)  BY <1>3 DEF Bad
  <2>2. PICK f : f = Look(m, c.key)[w[2]]  OBVIOUS
  <2>3. Look(m2, c.key)[w[2]] = f /\ w[2] \in Places(m2)
    BY <1>1, <2>1, <2>2, Kept DEF Grows
  <2>4. f # 0 => f \in EntriesIn(m) /\ CellOf(m2, f) = CellOf(m, f)
    BY <1>1, <2>1, <2>2, HeapLook, Kept
  <2>5. \A a \in DOMAIN m : a \in DOMAIN m2 /\ m2[a] = m[a]  BY DEF Grows
  <2>6. CASE f # 0
    <3>1. \/ j = 3 /\ w[3] # CellOf(m, f)
          \/ j = 5 /\ c.op = "get" /\ w[5] # w[4]
          \/ j = 6 /\ c.op = "set" /\ w[6] \in DOMAIN m /\ m[w[6]].sum # c.val
          \/ j = 9 /\ c.op = "set" /\ w[9] # kStored
      BY <1>3, <2>2, <2>6 DEF Bad
    <3>2. \/ j = 3 /\ w[3] # CellOf(m2, f)
          \/ j = 5 /\ c.op = "get" /\ w[5] # w[4]
          \/ j = 6 /\ c.op = "set" /\ w[6] \in DOMAIN m2 /\ m2[w[6]].sum # c.val
          \/ j = 9 /\ c.op = "set" /\ w[9] # kStored
      BY <2>4, <2>5, <2>6, <3>1
    <3> QED  BY <2>1, <2>3, <2>6, <3>2 DEF Bad
  <2>7. CASE f = 0
    <3>1. \/ j = 3 /\ c.op = "get" /\ w[3] # 0
          \/ j = 4 /\ c.op = "set" /\ w[4] # SizeOfVal
          \/ j = 5 /\ c.op = "set" /\ w[5] \in DOMAIN m /\ m[w[5]].sum # c.val
          \/ /\ j = 9 /\ c.op = "set" /\ w[9] \in DOMAIN m
             /\ m[w[9]].sum # [key |-> c.key, cell |-> w[3], next |-> w[2]]
          \/ j = 12 /\ c.op = "set" /\ w[12] # kCreated
      BY <1>3, <2>2, <2>7 DEF Bad
    <3>2. \/ j = 3 /\ c.op = "get" /\ w[3] # 0
          \/ j = 4 /\ c.op = "set" /\ w[4] # SizeOfVal
          \/ j = 5 /\ c.op = "set" /\ w[5] \in DOMAIN m2 /\ m2[w[5]].sum # c.val
          \/ /\ j = 9 /\ c.op = "set" /\ w[9] \in DOMAIN m2
             /\ m2[w[9]].sum # [key |-> c.key, cell |-> w[3], next |-> w[2]]
          \/ j = 12 /\ c.op = "set" /\ w[12] # kCreated
      BY <2>5, <3>1
    <3> QED  BY <2>1, <2>3, <2>7, <3>2 DEF Bad
  <2> QED  BY <2>6, <2>7
<1> QED  BY <1>2, <1>3

\* So does a doomed log ...
LEMMA DoomedKept ==
  ASSUME NEW m, NEW n, HeapInv(m, n), NEW m2, Grows(m, m2), NEW c \in Asked,
         NEW w, Len(w) \in Nat, Doomed(m, c, w)
  PROVE  Doomed(m2, c, w)
BY BadKept DEF Doomed

\* ... and when words are added.
Longer(w, w2) == /\ Len(w) \in Nat /\ Len(w2) \in Nat /\ Len(w) <= Len(w2)
                 /\ \A j \in 1 .. Len(w) : w2[j] = w[j]

\* A doomed log stays so when words are added.
LEMMA DoomedLonger ==
  ASSUME NEW m, NEW c, NEW w, NEW w2, Longer(w, w2), Doomed(m, c, w)
  PROVE  Doomed(m, c, w2)
<1>1. PICK j \in 1 .. Len(w) : Bad(m, c, w, j)  BY DEF Doomed
<1>2. j \in 1 .. Len(w2) /\ w2[j] = w[j] /\ j \in Nat /\ j >= 1  BY DEF Longer
<1>3. j >= 3 => w2[2] = w[2] /\ w2[3] = w[3]  BY DEF Longer
<1>4. j >= 4 => w2[4] = w[4]  BY DEF Longer
<1>5. Bad(m, c, w2, j)
  <2>1. CASE j = 1  BY <1>1, <1>2, <2>1 DEF Bad
  <2>2. CASE j = 3  BY <1>1, <1>2, <1>3, <2>2 DEF Bad
  <2>3. CASE j = 4  BY <1>1, <1>2, <1>3, <2>3 DEF Bad
  <2>4. CASE j = 5  BY <1>1, <1>2, <1>3, <1>4, <2>4 DEF Bad
  <2>5. CASE j = 6  BY <1>1, <1>2, <1>3, <2>5 DEF Bad
  <2>6. CASE j = 9  BY <1>1, <1>2, <1>3, <2>6 DEF Bad
  <2>7. CASE j = 12  BY <1>1, <1>2, <1>3, <2>7 DEF Bad
  <2>8. j \in {1, 3, 4, 5, 6, 9, 12}  BY <1>1 DEF Bad
  <2> QED  BY <2>1, <2>2, <2>3, <2>4, <2>5, <2>6, <2>7, <2>8
<1> QED  BY <1>2, <1>5 DEF Doomed

\* Words are added at the end.
LEMMA JoinLonger ==
  ASSUME NEW S, NEW w \in Seq(S), NEW x \in Seq(S), NEW y \in Seq(S)
  PROVE  Longer(w, w) /\ Longer(w, w \o x) /\ Longer(w, w \o x \o y)
<1>1. w \o x \in Seq(S) /\ Len(w \o x) = Len(w) + Len(x) /\ \A j \in 1 .. Len(w) : (w \o x)[j] = w[j]
  OBVIOUS
<1>2. PICK z : z = w \o x  OBVIOUS
<1>3. /\ z \o y \in Seq(S) /\ Len(z \o y) = Len(z) + Len(y)
      /\ \A j \in 1 .. Len(z) : (z \o y)[j] = z[j]
  BY <1>1, <1>2
<1>4. Len(w) \in Nat /\ Len(x) \in Nat /\ Len(y) \in Nat  OBVIOUS
<1> QED  BY <1>1, <1>2, <1>3, <1>4 DEF Longer

\* What is astray stays so.
LEMMA AstrayKept ==
  ASSUME NEW m, NEW n, HeapInv(m, n), NEW m2, Grows(m, m2), NEW s \in Labels, NEW c \in Asked,
         NEW l, NEW w, Len(w) \in Nat, s \notin {"idle", "lock", "head"} => l.head \in Places(m),
         s \notin {"idle", "lock"}, Astray(m, s, c, l, w)
  PROVE  Astray(m2, s, c, l, w)
<1>1. CASE Doomed(m, c, w)  BY <1>1, DoomedKept DEF Astray
<1>2. CASE s = "head" /\ l.hv # Hash[c.key]  BY <1>2 DEF Astray
<1>3. CASE s # "head"
  <2>1. Found(m2, c, l) = Found(m, c, l) /\ (Hit(m, c, l) => CellOf(m2, Found(m, c, l)) = CellOf(m, Found(m, c, l)))
    BY <1>3, HeapFound
  <2>2. PICK f : f = Found(m, c, l)  OBVIOUS
  <2>3. Found(m2, c, l) = f /\ (f # 0 => CellOf(m2, f) = CellOf(m, f))  BY <2>1, <2>2 DEF Hit
  <2>4. CASE Doomed(m, c, w)  BY <1>1, <2>4
  <2>5. CASE ~Doomed(m, c, w)
    <3>1. /\ w = <<Hash[c.key], l.head>>
          /\ \/ s = "walk" /\ f # 0 /\ l.at < f
             \/ s = "load" /\ (f # 0 => l.dest # CellOf(m, f))
             \/ s = "newCell" /\ f # 0
             \/ s \in {"unlock", "return"} /\ c.op = "get" /\ f # 0 /\ l.ret = 0
      BY <1>3, <2>2, <2>5 DEF Astray
    <3>2. \/ s = "walk" /\ f # 0 /\ l.at < f
          \/ s = "load" /\ (f # 0 => l.dest # CellOf(m2, f))
          \/ s = "newCell" /\ f # 0
          \/ s \in {"unlock", "return"} /\ c.op = "get" /\ f # 0 /\ l.ret = 0
      BY <2>3, <3>1
    <3> QED  BY <2>3, <3>1, <3>2 DEF Astray
  <2> QED  BY <2>4, <2>5
<1> QED  BY <1>1, <1>2, <1>3 DEF Astray

\* The replay of a struck closure goes on as it did.
LEMMA ReadsKept ==
  ASSUME NEW m, NEW n, HeapInv(m, n), NEW m2, Grows(m, m2), NEW s \in Labels, NEW c,
         NEW l, NEW u, Reads(m, s, c, l, u)
  PROVE  Reads(m2, s, c, l, u)
<1>1. PICK w \in Seq(Word), i \in 1 .. 12 :
        /\ s # "idle" /\ c \in Asked /\ l \in Locals /\ \E j \in i .. Len(w) : Bad(m, c, w, j)
        /\ u = SubSeq(w, i, Len(w)) /\ ReadsAt(m, s, c, l, w, i)
  BY DEF Reads
<1>2. \E j \in i .. Len(w) : Bad(m2, c, w, j)
  <2>1. PICK j \in i .. Len(w) : Bad(m, c, w, j)  BY <1>1
  <2>2. j \in Nat  BY <2>1
  <2> QED  BY <1>1, <2>1, <2>2, BadKept
<1>3. ReadsAt(m2, s, c, l, w, i)
  <2>1. c.key \in Key  BY <1>1 DEF Asked, Call
  <2>2. CASE s \in {"lock", "head"}  BY <1>1, <2>2 DEF ReadsAt
  <2>3. CASE s \notin {"lock", "head"}
    <3>1. w[2] \in Places(m)  BY <1>1, <2>3 DEF ReadsAt
    <3>2. PICK f : f = Look(m, c.key)[w[2]]  OBVIOUS
    <3>3. Look(m2, c.key)[w[2]] = f /\ Places(m) \subseteq Places(m2)
      BY <2>1, <3>1, <3>2, Kept DEF Grows
    <3>4. f # 0 => CellOf(m2, f) = CellOf(m, f)  BY <2>1, <3>1, <3>2, HeapLook, Kept
    <3>5. \A a \in Places(m) : Look(m2, c.key)[a] = Look(m, c.key)[a]  BY <2>1 DEF Grows
    <3> QED  BY <1>1, <2>3, <3>2, <3>3, <3>4, <3>5 DEF ReadsAt
  <2> QED  BY <2>2, <2>3
<1> QED  BY <1>1, <1>2, <1>3 DEF Reads

\* A step of one thread's closure leaves others as struck as they were.
LEMMA DoomFrame ==
  ASSUME WildInv, DoomInv, NEW t \in App, Alone(A(t)), Grows(obj, obj'),
         \A q \in Proc : q # A(t) => struck'[q] = struck[q],
         struck'[A(t)] =>
           /\ pc'[A(t)] \notin {"idle", "lock"}
           /\ Astray(obj', pc'[A(t)], call'[A(t)], loc'[A(t)], log'[A(t)]),
         \A u \in App : \A i \in DOMAIN pending'[u] : pending'[u][i].struck =>
           \/ i \in DOMAIN pending[u] /\ pending'[u][i] = pending[u][i]
           \/ Doomed(obj', pending'[u][i].call, pending'[u][i].words)
  PROVE  DoomInv'
<1>1. HeapInv(obj, top) /\ Shape  BY DEF WildInv
<1>2. ASSUME NEW u \in App, struck'[A(u)]
      PROVE  /\ pc'[A(u)] \notin {"idle", "lock"}
             /\ Astray(obj', pc'[A(u)], call'[A(u)], loc'[A(u)], log'[A(u)])
  <2>1. CASE u = t  BY <1>2, <2>1
  <2>2. CASE u # t
    <3>1. PICK q : q = A(u)  OBVIOUS
    <3>2. q \in Proc /\ q # A(t)  BY <2>2, <3>1, Procs
    <3>3. /\ pc'[q] = pc[q] /\ call'[q] = call[q] /\ loc'[q] = loc[q] /\ log'[q] = log[q]
          /\ struck[q]
      BY <1>2, <3>1, <3>2 DEF Alone
    <3>4. pc[q] \notin {"idle", "lock"} /\ Astray(obj, pc[q], call[q], loc[q], log[q])
      BY <3>1, <3>3 DEF DoomInv
    <3>5. /\ pc[q] \in Labels /\ call[q] \in Asked
          /\ pc[q] \notin {"idle", "lock", "head"} => loc[q].head \in Places(obj)
      BY <3>1, <3>4, WildFacts DEF LocalsWild
    <3>6. Len(log[q]) \in Nat
      <4>1. log[q] \in Seq(Word)  BY <3>1, WildFacts
      <4> QED  BY <4>1
    <3>7. Astray(obj', pc[q], call[q], loc[q], log[q])
      BY <1>1, <3>4, <3>5, <3>6, AstrayKept
    <3> QED  BY <3>1, <3>3, <3>4, <3>7
  <2> QED  BY <2>1, <2>2
<1>3. ASSUME NEW u \in App, struck'[V(u)]
      PROVE  Reads(obj', pc'[V(u)], call'[V(u)], loc'[V(u)], log'[V(u)])
  <2>1. PICK q : q = V(u)  OBVIOUS
  <2>2. q \in Proc /\ q # A(t)  BY <2>1, Procs
  <2>3. /\ pc'[q] = pc[q] /\ call'[q] = call[q] /\ loc'[q] = loc[q] /\ log'[q] = log[q]
        /\ struck[q] /\ pc[q] \in Labels
    BY <1>1, <1>3, <2>1, <2>2 DEF Alone, Shape
  <2>4. Reads(obj, pc[q], call[q], loc[q], log[q])  BY <2>1, <2>3 DEF DoomInv
  <2>5. Reads(obj', pc[q], call[q], loc[q], log[q])  BY <1>1, <2>3, <2>4, ReadsKept
  <2> QED  BY <2>1, <2>3, <2>5
<1>4. ASSUME NEW u \in App, NEW i \in DOMAIN pending'[u], pending'[u][i].struck
      PROVE  Doomed(obj', pending'[u][i].call, pending'[u][i].words)
  <2>1. CASE i \in DOMAIN pending[u] /\ pending'[u][i] = pending[u][i]
    <3>1. PICK c : c = pending[u][i]  OBVIOUS
    <3>2. c.struck /\ Doomed(obj, c.call, c.words)  BY <1>4, <2>1, <3>1 DEF DoomInv
    <3>3. c \in [call : Asked, struck : BOOLEAN, words : Seq(Word)]
      <4>1. PICK S, x : S = [call : Asked, struck : BOOLEAN, words : Seq(Word)] /\ x = pending[u]
        OBVIOUS
      <4>2. x \in Seq(S) /\ i \in DOMAIN x /\ c = x[i]  BY <2>1, <3>1, <4>1 DEF WildInv
      <4>3. c \in S  BY ONLY <4>2
      <4> QED  BY <4>1, <4>3
    <3>4. c.call \in Asked /\ Len(c.words) \in Nat  BY <3>3
    <3>5. Doomed(obj', c.call, c.words)  BY <1>1, <3>2, <3>4, DoomedKept
    <3> QED  BY <2>1, <3>1, <3>5
  <2> QED  BY <1>4, <2>1
<1> QED  BY <1>2, <1>3, <1>4 DEF DoomInv

-----------------------------------------------------------------------------
(* A struck closure goes on to log a bad word. *)

\* A log that has a bad head, a bad cell, or none where there is one.
LEMMA BadWords ==
  ASSUME NEW m, NEW c, NEW w, Len(w) \in Nat, NEW f
  PROVE  /\ 1 <= Len(w) /\ w[1] # Hash[c.key] => Doomed(m, c, w)
         /\ w[2] \in Places(m) /\ f = Look(m, c.key)[w[2]] =>
              /\ 3 <= Len(w) /\ f # 0 /\ w[3] # CellOf(m, f) => Doomed(m, c, w)
              /\ 3 <= Len(w) /\ f = 0 /\ c.op = "get" /\ w[3] # 0 => Doomed(m, c, w)
              /\ 4 <= Len(w) /\ f = 0 /\ c.op = "set" /\ w[4] # SizeOfVal => Doomed(m, c, w)
<1>1. \A j \in Nat : 1 <= j /\ j <= Len(w) /\ Bad(m, c, w, j) => Doomed(m, c, w)  BY DEF Doomed
<1>2. ASSUME 1 <= Len(w), w[1] # Hash[c.key] PROVE Doomed(m, c, w)
  <2>1. Bad(m, c, w, 1)  BY <1>2 DEF Bad
  <2> QED  BY <1>1, <1>2, <2>1
<1>3. ASSUME w[2] \in Places(m), f = Look(m, c.key)[w[2]], 3 <= Len(w),
             (f # 0 /\ w[3] # CellOf(m, f)) \/ (f = 0 /\ c.op = "get" /\ w[3] # 0)
      PROVE  Doomed(m, c, w)
  <2>1. Bad(m, c, w, 3)  BY <1>3 DEF Bad
  <2> QED  BY <1>1, <1>3, <2>1
<1>4. ASSUME w[2] \in Places(m), f = Look(m, c.key)[w[2]], 4 <= Len(w),
             f = 0, c.op = "set", w[4] # SizeOfVal
      PROVE  Doomed(m, c, w)
  <2>1. Bad(m, c, w, 4)  BY <1>4 DEF Bad
  <2> QED  BY <1>1, <1>4, <2>1
<1> QED  BY <1>2, <1>3, <1>4

\* The application adds words.
LEMMA WildLonger ==
  ASSUME WildInv, NEW t \in App, NEW p, p = A(t), NEW x \in Seq(Word), Args(p) = x,
         NEW y \in Seq(Word), Logged(p, y)
  PROVE  Longer(log[p], log'[p])
<1>1. log'[p] = log[p] \o x \o y
  <2>1. Joins(log'[p], log[p], x, y)  BY WildJoins
  <2> QED  BY <2>1 DEF Joins
<1>2. log[p] \in Seq(Word)  BY WildFacts
<1> QED  BY <1>1, <1>2, JoinLonger

\* A step of a closure adds words to its log.
LEMMA WildLogs ==
  ASSUME WildInv, NEW t \in App, NEW p, p = A(t), ClosureStep(p)
  PROVE  Longer(log[p], log'[p]) /\ Len(log[p]) \in Nat
<1> USE WildFacts
<1>2. log[p] \in Seq(Word) /\ loc[p] \in Locals /\ {SizeOfVal, SizeOfEntry} \subseteq Word /\ << >> \in Seq(Word)
  BY DEF Word
<1>3. loc[p].hv \in Word /\ loc[p].dest \in Word /\ loc[p].made \in Word  BY <1>2 DEF Locals
<1>4. top + 1 \in Word /\ Entries \cup {0} \subseteq Word /\ Values \subseteq Word
  <2>1. Values = ValuesIn(obj) /\ Entries \cup {0} = Places(obj)
    BY DEF Entries, Values, Places, EntriesIn, ValuesIn
  <2>2. top + 1 \in Nat  BY DEF HeapInv
  <2> QED  BY <2>1, <2>2, HeapWords
<1>5. CASE UNCHANGED log
  <2>1. log'[p] = log[p]  BY <1>5
  <2> QED  BY <1>2, <2>1, JoinLonger
<1>6. CASE ReadHead(p)
  <2>1. PICK o \in Loaded(p, loc[p].hv, Entries \cup {0}) : Logged(p, <<o[1]>>)
    BY <1>6 DEF ReadHead
  <2>2. pc[p] = "head"  BY <1>6 DEF ReadHead
  <2>3. loc[p].hv \in Bucket  BY <2>2 DEF LocalsWild
  <2>4. cell[loc[p].hv] \in Word  BY <2>3 DEF CellInv, Word
  <2>5. o[1] \in Word  BY <1>4, <2>1, <2>4, LoadedIs
  <2>7. PICK x, y : x = <<loc[p].hv>> /\ y = <<o[1]>>  OBVIOUS
  <2>8. Args(p) = x /\ x \in Seq(Word) /\ y \in Seq(Word) /\ Logged(p, y)
    BY <1>3, <2>1, <2>2, <2>5, <2>7, ArgsAre
  <2> QED  BY ONLY WildInv, t \in App, p = A(t), <2>8, WildLonger
<1>7. CASE Load(p)
  <2>1. PICK o \in Loaded(p, loc[p].dest, Values) : Logged(p, <<o[1]>>)
    BY <1>7 DEF Load
  <2>2. pc[p] = "load"  BY <1>7 DEF Load
  <2>3. loc[p].dest \in DOMAIN cell  BY <2>2 DEF LocalsWild
  <2>4. cell[loc[p].dest] \in Word  BY <2>3 DEF CellInv, Word
  <2>5. o[1] \in Word  BY <1>4, <2>1, <2>4, LoadedIs
  <2>7. PICK x, y : x = <<loc[p].dest>> /\ y = <<o[1]>>  OBVIOUS
  <2>8. Args(p) = x /\ x \in Seq(Word) /\ y \in Seq(Word) /\ Logged(p, y)
    BY <1>3, <2>1, <2>2, <2>5, <2>7, ArgsAre
  <2> QED  BY ONLY WildInv, t \in App, p = A(t), <2>8, WildLonger
<1>8. CASE NewCell(p)
  <2>1. pc[p] = "newCell" /\ Logged(p, <<top + 1>>)  BY <1>8 DEF NewCell, Allocated
  <2>7. PICK x, y : x = << >> /\ y = <<top + 1>>  OBVIOUS
  <2>8. Args(p) = x /\ x \in Seq(Word) /\ y \in Seq(Word) /\ Logged(p, y)
    BY <1>2, <1>3, <1>4, <2>1, <2>7, ArgsAre
  <2> QED  BY ONLY WildInv, t \in App, p = A(t), <2>8, WildLonger
<1>9. CASE MakeVal(p)
  <2>1. pc[p] = "makeVal" /\ Logged(p, <<top + 1>>)  BY <1>9 DEF MakeVal, Allocated
  <2>7. PICK x, y : x = <<SizeOfVal>> /\ y = <<top + 1>>  OBVIOUS
  <2>8. Args(p) = x /\ x \in Seq(Word) /\ y \in Seq(Word) /\ Logged(p, y)
    BY <1>2, <1>3, <1>4, <2>1, <2>7, ArgsAre
  <2> QED  BY ONLY WildInv, t \in App, p = A(t), <2>8, WildLonger
<1>10. CASE Store(p)
  <2>1. pc[p] = "store" /\ Logged(p, << >>)  BY <1>10 DEF Store
  <2>7. PICK x, y : x = <<loc[p].dest, loc[p].made>> /\ y = << >>  OBVIOUS
  <2>8. Args(p) = x /\ x \in Seq(Word) /\ y \in Seq(Word) /\ Logged(p, y)
    BY <1>2, <1>3, <1>4, <2>1, <2>7, ArgsAre
  <2> QED  BY ONLY WildInv, t \in App, p = A(t), <2>8, WildLonger
<1>11. CASE MakeEntry(p)
  <2>1. pc[p] = "makeEntry" /\ Logged(p, <<top + 1>>)  BY <1>11 DEF MakeEntry, Allocated
  <2>7. PICK x, y : x = <<SizeOfEntry>> /\ y = <<top + 1>>  OBVIOUS
  <2>8. Args(p) = x /\ x \in Seq(Word) /\ y \in Seq(Word) /\ Logged(p, y)
    BY <1>2, <1>3, <1>4, <2>1, <2>7, ArgsAre
  <2> QED  BY ONLY WildInv, t \in App, p = A(t), <2>8, WildLonger
<1>12. CASE Link(p)
  <2>1. pc[p] = "link" /\ Logged(p, << >>)  BY <1>12 DEF Link
  <2>7. PICK x, y : x = <<loc[p].hv, loc[p].made>> /\ y = << >>  OBVIOUS
  <2>8. Args(p) = x /\ x \in Seq(Word) /\ y \in Seq(Word) /\ Logged(p, y)
    BY <1>2, <1>3, <1>4, <2>1, <2>7, ArgsAre
  <2> QED  BY ONLY WildInv, t \in App, p = A(t), <2>8, WildLonger
<1>13. CASE Lock(p) \/ Find(p) \/ Skip(p) \/ Miss(p) \/ Unlock(p)
  BY <1>5, <1>13 DEF Lock, Find, Skip, Miss, Unlock
<1>14. Len(log[p]) \in Nat  BY <1>2
<1> QED
  BY <1>6, <1>7, <1>8, <1>9, <1>10, <1>11, <1>12, <1>13, <1>14 DEF ClosureStep

\* A fault that has struck does not strike again.
LEMMA Spared ==
  ASSUME hit, NEW p, NEW right, NEW wrongs, NEW o \in Outcomes(p, right, wrongs)
  PROVE  o[1] = right /\ ~o[2]
BY OutcomeIs

\* A wrong bucket is logged.
LEMMA AstrayHead ==
  ASSUME WildInv, NEW t \in App, NEW p, p = A(t), ReadHead(p), loc[p].hv # Hash[call[p].key]
  PROVE  Doomed(obj', call[p], log'[p])
<1> USE WildFacts
<1>1. PICK o \in Loaded(p, loc[p].hv, Entries \cup {0}) : Logged(p, <<o[1]>>)
  BY DEF ReadHead
<1>2. pc[p] = "head" /\ obj' = obj  BY DEF ReadHead, memVars
<1>3. loc[p].hv \in Bucket /\ log[p] = << >>  BY <1>2 DEF LocalsWild
<1>4. loc[p].hv \in Word /\ o[1] \in Word
  <2>1. Entries \cup {0} = Places(obj)  BY DEF Entries, Values, Places, EntriesIn, ValuesIn
  <2>2. cell[loc[p].hv] \in Word  BY <1>3 DEF CellInv, Word
  <2>3. o[1] \in Word  BY <1>1, <2>1, <2>2, LoadedIs, HeapWords
  <2> QED  BY <2>3 DEF Locals
<1>5. PICK x, y, w : x = <<loc[p].hv>> /\ y = <<o[1]>> /\ w = <<loc[p].hv, o[1]>>  OBVIOUS
<1>6. Args(p) = x /\ x \in Seq(Word) /\ y \in Seq(Word) /\ Logged(p, y)
  BY <1>1, <1>2, <1>4, <1>5, ArgsAre
<1>7. log'[p] = log[p] \o x \o y
  <2>1. Joins(log'[p], log[p], x, y)  BY ONLY WildInv, t \in App, p = A(t), <1>6, WildJoins
  <2> QED  BY <2>1 DEF Joins
<1>8. log'[p] = w
  <2>1. << >> \o x \o y = w  BY <1>5, Join0_1_1
  <2> QED  BY <1>3, <1>7, <2>1
<1>9. Len(w) = 2 /\ w[1] # Hash[call[p].key]  BY <1>5
<1>10. Doomed(obj, call[p], w)  BY <1>9, BadWords
<1> QED  BY <1>2, <1>8, <1>10

\* The entry that the closure should find.
LEMMA FoundIs ==
  ASSUME WildInv, NEW t \in App, NEW p, p = A(t), pc[p] \notin {"idle", "lock", "head"},
         NEW f, f = Found(obj, call[p], loc[p])
  PROVE  /\ loc[p].head \in Places(obj) /\ f = Look(obj, call[p].key)[loc[p].head]
         /\ f # 0 => /\ f \in EntriesIn(obj) /\ f \in Nat /\ obj[f].data.key = call[p].key
                     /\ CellOf(obj, f) \in DOMAIN cell \ Bucket
                     /\ CellOf(obj, f) # 0 /\ CellOf(obj, f) # top + 1
                     /\ \A e \in EntriesIn(obj) : CellOf(obj, e) = CellOf(obj, f) => e = f
<1> USE WildFacts
<1>1. loc[p].head \in Places(obj) /\ call[p].key \in Key  BY DEF LocalsWild
<1>2. f # 0 => f \in EntriesIn(obj) /\ f \in Nat /\ obj[f].data.key = call[p].key
  BY <1>1, HeapLook, HeapKinds DEF Found
<1>3. f # 0 => CellOf(obj, f) \in DOMAIN cell \ Bucket  BY <1>2 DEF CellInv
<1>4. DOMAIN cell \subseteq 1 .. top /\ top \in Nat  BY DEF CellInv, HeapInv
<1>5. f # 0 => CellOf(obj, f) # 0 /\ CellOf(obj, f) # top + 1  BY <1>3, <1>4
<1>6. f # 0 => \A e \in EntriesIn(obj) : CellOf(obj, e) = CellOf(obj, f) => e = f
  BY <1>2 DEF CellInv
<1> QED  BY <1>1, <1>2, <1>3, <1>5, <1>6 DEF Found

\* A walk that has passed the entry it should find.
LEMMA AstrayWalk ==
  ASSUME WildInv, hit, NEW t \in App, NEW p, p = A(t), Find(p) \/ Skip(p) \/ Miss(p),
         log[p] = <<Hash[call[p].key], loc[p].head>>,
         NEW f, f = Found(obj, call[p], loc[p]), f # 0, loc[p].at < f
  PROVE  Astray(obj', pc'[p], call[p], loc'[p], log'[p])
<1> USE WildFacts
<1>1. pc[p] = "walk" /\ obj' = obj /\ log' = log  BY DEF Find, Skip, Miss, memVars
<1>2. /\ f \in EntriesIn(obj) /\ f \in Nat
      /\ \A e \in EntriesIn(obj) : CellOf(obj, e) = CellOf(obj, f) => e = f
  BY <1>1, FoundIs
<1>3. /\ loc[p].ret = 0 /\ loc[p].at \in Places(obj)
      /\ loc[p].at # 0 => /\ loc[p].at \in EntriesIn(obj)
                          /\ obj[loc[p].at].data.next \in Places(obj)
                          /\ obj[loc[p].at].data.next < loc[p].at
  BY <1>1, WildWalk
<1>4. \A a \in Places(obj) : a \in Nat  BY HeapKinds
<1>5. CASE Find(p)
  <2>1. PICK e : e = obj[loc[p].at].data  OBVIOUS
  <2>2. PICK o \in Outcomes(p, e.cell, Wrong("address", ValueCells)) :
          loc' = [loc EXCEPT ![p].dest = o[1]]
    BY <1>5, <2>1 DEF Find
  <2>3. loc[p].at # 0 /\ pc' = [pc EXCEPT ![p] = "load"]  BY <1>5 DEF Find, Goto
  <2>4. PICK l : l = [loc[p] EXCEPT !.dest = o[1]]  OBVIOUS
  <2>5. loc'[p] = l /\ pc'[p] = "load"  BY <2>2, <2>3, <2>4
  <2>6. l.head = loc[p].head /\ l.dest = CellOf(obj, loc[p].at)
    BY <2>1, <2>2, <2>4, Spared DEF Locals, CellOf
  <2>7. l.dest # CellOf(obj, f)  BY <1>2, <1>3, <1>4, <2>3, <2>6
  <2>8. Found(obj, call[p], l) = f  BY <2>6 DEF Found
  <2>9. Astray(obj, "load", call[p], l, log[p])  BY <2>6, <2>7, <2>8 DEF Astray
  <2> QED  BY <1>1, <2>5, <2>9
<1>6. CASE Skip(p)
  <2>1. PICK a : a = obj[loc[p].at].data.next  OBVIOUS
  <2>2. loc' = [loc EXCEPT ![p].at = a] /\ loc[p].at # 0 /\ pc' = pc  BY <1>6, <2>1 DEF Skip
  <2>3. PICK l : l = [loc[p] EXCEPT !.at = a]  OBVIOUS
  <2>4. loc'[p] = l /\ pc'[p] = "walk"  BY <1>1, <2>2, <2>3
  <2>5. l.head = loc[p].head /\ l.at = a  BY <2>3 DEF Locals
  <2>6. a < f  BY <1>2, <1>3, <1>4, <2>1, <2>2
  <2>7. Found(obj, call[p], l) = f  BY <2>5 DEF Found
  <2>8. Astray(obj, "walk", call[p], l, log[p])  BY <2>5, <2>6, <2>7 DEF Astray
  <2> QED  BY <1>1, <2>4, <2>8
<1>7. CASE Miss(p)
  <2>1. PICK s : s = IF call[p].op = "get" THEN "unlock" ELSE "newCell"  OBVIOUS
  <2>2. loc' = loc /\ pc' = [pc EXCEPT ![p] = s]  BY <1>7, <2>1 DEF Miss, Goto
  <2>3. loc'[p] = loc[p] /\ pc'[p] = s  BY <2>2
  <2>4. Astray(obj, s, call[p], loc[p], log[p])  BY <1>3, <2>1 DEF Astray
  <2> QED  BY <1>1, <2>3, <2>4
<1> QED  BY <1>5, <1>6, <1>7

\* A wrong cell is logged.
LEMMA AstrayLoad ==
  ASSUME WildInv, hit, NEW t \in App, NEW p, p = A(t), Load(p),
         log[p] = <<Hash[call[p].key], loc[p].head>>,
         NEW f, f = Found(obj, call[p], loc[p]), f # 0 => loc[p].dest # CellOf(obj, f)
  PROVE  Doomed(obj', call[p], log'[p])
<1> USE WildFacts
<1>1. PICK o \in Loaded(p, loc[p].dest, Values) : Logged(p, <<o[1]>>)
  BY DEF Load
<1>2. pc[p] = "load" /\ obj' = obj  BY DEF Load, memVars
<1>3. loc[p].dest \in DOMAIN cell /\ loc[p].dest # 0
  <2>1. loc[p].dest \in DOMAIN cell  BY <1>2 DEF LocalsWild
  <2> QED  BY <2>1 DEF CellInv
<1>4. o[1] = cell[loc[p].dest] /\ o[1] \in Nat
  BY <1>1, <1>3, LoadedIs DEF CellInv, Addr
<1>5. loc[p].head \in Places(obj) /\ f = Look(obj, call[p].key)[loc[p].head]  BY <1>2, FoundIs
<1>6. PICK h, g, d : h = Hash[call[p].key] /\ g = loc[p].head /\ d = loc[p].dest  OBVIOUS
<1>7. PICK x, y, w : x = <<d>> /\ y = <<o[1]>> /\ w = <<h, g, d, o[1]>>  OBVIOUS
<1>8. Args(p) = x /\ x \in Seq(Word) /\ y \in Seq(Word) /\ Logged(p, y)
  <2>1. d \in Word /\ o[1] \in Word  BY <1>4, <1>6 DEF Locals, Word, Addr
  <2> QED  BY <1>1, <1>2, <1>6, <1>7, <2>1, ArgsAre
<1>9. log'[p] = log[p] \o x \o y
  <2>1. Joins(log'[p], log[p], x, y)  BY ONLY WildInv, t \in App, p = A(t), <1>8, WildJoins
  <2> QED  BY <2>1 DEF Joins
<1>10. log'[p] = w
  <2>1. <<h, g>> \o x \o y = w  BY <1>7, Join2_1_1
  <2> QED  BY <1>6, <1>9, <2>1
<1>11. Len(w) = 4 /\ w[2] = loc[p].head /\ w[3] = loc[p].dest /\ w[4] = o[1]  BY <1>6, <1>7
<1>12. w[4] # SizeOfVal  BY <1>4, <1>11, WordsDiffer
<1>13. Doomed(obj, call[p], w)
  <2>1. PICK c : c = call[p]  OBVIOUS
  <2>2. /\ Len(w) \in Nat /\ 3 <= Len(w) /\ 4 <= Len(w) /\ w[2] \in Places(obj)
        /\ f = Look(obj, c.key)[w[2]]
    BY <1>5, <1>11, <2>1
  <2>3. (f # 0 => w[3] # CellOf(obj, f)) /\ w[3] # 0 /\ w[4] # SizeOfVal
    BY <1>3, <1>11, <1>12
  <2>4. c.op = "get" \/ c.op = "set"  BY <1>2, <2>1
  <2>5. Doomed(obj, c, w)  BY ONLY <2>2, <2>3, <2>4, BadWords
  <2> QED  BY <2>1, <2>5
<1> QED  BY <1>2, <1>10, <1>13

\* A new cell is logged, where the key has one.
LEMMA AstrayNewCell ==
  ASSUME WildInv, NEW t \in App, NEW p, p = A(t), NewCell(p),
         log[p] = <<Hash[call[p].key], loc[p].head>>, Found(obj, call[p], loc[p]) # 0
  PROVE  Doomed(obj', call[p], log'[p])
<1> USE WildFacts
<1>1. Logged(p, <<top + 1>>) /\ pc[p] = "newCell" /\ obj' = obj  BY DEF NewCell, Allocated
<1>2. PICK f, h, g, a :
        f = Found(obj, call[p], loc[p]) /\ h = Hash[call[p].key] /\ g = loc[p].head /\ a = top + 1
  OBVIOUS
<1>3. /\ g \in Places(obj) /\ f = Look(obj, call[p].key)[g] /\ f # 0 /\ CellOf(obj, f) # a
  BY <1>1, <1>2, FoundIs
<1>4. PICK x, y, w : x = << >> /\ y = <<a>> /\ w = <<h, g, a>>  OBVIOUS
<1>5. Args(p) = x /\ x \in Seq(Word) /\ y \in Seq(Word) /\ Logged(p, y)
  <2>1. a \in Word  BY <1>2 DEF HeapInv, Word, Addr
  <2> QED  BY <1>1, <1>2, <1>4, <2>1, ArgsAre
<1>6. log'[p] = log[p] \o x \o y
  <2>1. Joins(log'[p], log[p], x, y)  BY ONLY WildInv, t \in App, p = A(t), <1>5, WildJoins
  <2> QED  BY <2>1 DEF Joins
<1>7. log'[p] = w
  <2>1. <<h, g>> \o x \o y = w  BY <1>4, Join2_0_1
  <2> QED  BY <1>2, <1>6, <2>1
<1>8. Len(w) = 3 /\ w[2] = g /\ w[3] = a  BY <1>4
<1>9. Doomed(obj, call[p], w)  BY <1>3, <1>8, BadWords
<1> QED  BY <1>1, <1>7, <1>9

\* What is astray stays so, or has logged a bad word.
LEMMA AstrayOn ==
  ASSUME WildInv, hit, NEW t \in App, NEW p, p = A(t), ClosureStep(p),
         pc[p] \notin {"idle", "lock"}, Astray(obj, pc[p], call[p], loc[p], log[p])
  PROVE  pc'[p] \notin {"idle", "lock"} /\ Astray(obj', pc'[p], call'[p], loc'[p], log'[p])
<1> USE WildFacts
<1>1. Steps(p) /\ Grows(obj, obj')  BY ClosureSteps, WildApp
<1>2. pc'[p] \notin {"idle", "lock"} /\ call'[p] = call[p]  BY <1>1 DEF Steps
<1>3. call[p] \in Asked  OBVIOUS
<1>4. CASE Doomed(obj, call[p], log[p])
  <2>1. Longer(log[p], log'[p]) /\ Len(log[p]) \in Nat  BY WildLogs
  <2>2. Doomed(obj', call[p], log[p])  BY <1>1, <1>3, <1>4, <2>1, DoomedKept
  <2>3. Doomed(obj', call[p], log'[p])  BY <2>1, <2>2, DoomedLonger
  <2> QED  BY <1>2, <2>3 DEF Astray
<1>5. CASE pc[p] = "head" /\ loc[p].hv # Hash[call[p].key]
  <2>1. ReadHead(p)
    BY <1>5 DEF ClosureStep, Lock, ReadHead, Find, Skip, Miss, Load, NewCell, MakeVal, Store,
                MakeEntry, Link, Unlock
  <2>2. Doomed(obj', call[p], log'[p])  BY <1>5, <2>1, AstrayHead
  <2> QED  BY <1>2, <2>2 DEF Astray
<1>6. PICK f : f = Found(obj, call[p], loc[p])  OBVIOUS
<1>7. CASE log[p] = <<Hash[call[p].key], loc[p].head>> /\ pc[p] = "walk" /\ f # 0 /\ loc[p].at < f
  <2>1. Find(p) \/ Skip(p) \/ Miss(p)
    BY <1>7 DEF ClosureStep, Lock, ReadHead, Find, Skip, Miss, Load, NewCell, MakeVal, Store,
                MakeEntry, Link, Unlock
  <2> QED  BY <1>2, <1>6, <1>7, <2>1, AstrayWalk
<1>8. CASE /\ log[p] = <<Hash[call[p].key], loc[p].head>> /\ pc[p] = "load"
           /\ (f # 0 => loc[p].dest # CellOf(obj, f))
  <2>1. Load(p)
    BY <1>8 DEF ClosureStep, Lock, ReadHead, Find, Skip, Miss, Load, NewCell, MakeVal, Store,
                MakeEntry, Link, Unlock
  <2>2. Doomed(obj', call[p], log'[p])  BY <1>6, <1>8, <2>1, AstrayLoad
  <2> QED  BY <1>2, <2>2 DEF Astray
<1>9. CASE log[p] = <<Hash[call[p].key], loc[p].head>> /\ pc[p] = "newCell" /\ f # 0
  <2>1. NewCell(p)
    BY <1>9 DEF ClosureStep, Lock, ReadHead, Find, Skip, Miss, Load, NewCell, MakeVal, Store,
                MakeEntry, Link, Unlock
  <2>2. Doomed(obj', call[p], log'[p])  BY <1>6, <1>9, <2>1, AstrayNewCell
  <2> QED  BY <1>2, <2>2 DEF Astray
<1>10. CASE /\ log[p] = <<Hash[call[p].key], loc[p].head>> /\ pc[p] \in {"unlock", "return"}
            /\ call[p].op = "get" /\ f # 0 /\ loc[p].ret = 0
  <2>1. Unlock(p)
    BY <1>10 DEF ClosureStep, Lock, ReadHead, Find, Skip, Miss, Load, NewCell, MakeVal, Store,
                MakeEntry, Link, Unlock
  <2>2. pc' = [pc EXCEPT ![p] = "return"] /\ obj' = obj /\ loc' = loc /\ log' = log
    BY <2>1 DEF Unlock, Goto, memVars
  <2>3. pc'[p] = "return" /\ loc'[p] = loc[p] /\ log'[p] = log[p]  BY <2>2
  <2>4. Astray(obj, "return", call[p], loc[p], log[p])  BY <1>6, <1>10 DEF Astray
  <2> QED  BY <1>2, <2>2, <2>3, <2>4
<1> QED  BY <1>4, <1>5, <1>6, <1>7, <1>8, <1>9, <1>10 DEF Astray

\* What is astray ends with a bad word in its log.
LEMMA AstrayReturns ==
  ASSUME WildInv, NEW t \in App, NEW p, p = A(t), Return(t), NEW x \in Word, x = loc[p].ret,
         Astray(obj, pc[p], call[p], loc[p], log[p])
  PROVE  Doomed(obj, call[p], log[p] \o <<x, Magic>>)
<1> USE WildFacts
<1>1. pc[p] = "return"  BY DEF Return, A
<1>2. CASE Doomed(obj, call[p], log[p])
  <2>1. <<x, Magic>> \in Seq(Word)  BY DEF Word
  <2>2. log[p] \in Seq(Word)  OBVIOUS
  <2>3. Longer(log[p], log[p] \o <<x, Magic>>)  BY <2>1, <2>2, JoinLonger
  <2> QED  BY <1>2, <2>3, DoomedLonger
<1>3. CASE ~Doomed(obj, call[p], log[p])
  <2>1. PICK f, h, g, w : /\ f = Found(obj, call[p], loc[p]) /\ h = Hash[call[p].key]
                          /\ g = loc[p].head /\ w = <<h, g, x, Magic>>
    OBVIOUS
  <2>2. log[p] = <<h, g>> /\ call[p].op = "get" /\ f # 0 /\ x = 0
    BY <1>1, <1>3, <2>1 DEF Astray
  <2>3. g \in Places(obj) /\ f = Look(obj, call[p].key)[g] /\ CellOf(obj, f) # 0
    BY <1>1, <2>1, <2>2, FoundIs
  <2>4. log[p] \o <<x, Magic>> = w  BY <2>1, <2>2, Ends2
  <2>5. PICK c : c = call[p]  OBVIOUS
  <2>6. Len(w) \in Nat /\ 3 <= Len(w) /\ w[2] = g /\ w[3] = x  BY <2>1
  <2>7. /\ w[2] \in Places(obj) /\ f = Look(obj, c.key)[w[2]] /\ f # 0
        /\ w[3] # CellOf(obj, f)
    BY <2>2, <2>3, <2>5, <2>6
  <2>8. Doomed(obj, c, w)  BY ONLY <2>6, <2>7, BadWords
  <2> QED  BY <2>4, <2>5, <2>8
<1> QED  BY <1>2, <1>3

\* A log that waits, or a closure, was struck.
LEMMA SuspectIs ==
  Suspect <=> \/ \E p \in Proc : struck[p]
              \/ \E t \in App : \E i \in DOMAIN pending[t] : pending[t][i].struck
BY DEF Suspect, Range

\* The same after a step.
LEMMA SuspectWillBe ==
  Suspect' <=> \/ \E p \in Proc : struck'[p]
               \/ \E t \in App : \E i \in DOMAIN pending'[t] : pending'[t][i].struck
BY DEF Suspect, Range

\* The log that is committed.
LEMMA Committed ==
  ASSUME WildInv, NEW t \in App, NEW c, pending'[t] = Append(pending[t], c)
  PROVE  /\ \A i \in DOMAIN pending[t] : i \in DOMAIN pending'[t] /\ pending'[t][i] = pending[t][i]
         /\ \A i \in DOMAIN pending'[t] : \/ i \in DOMAIN pending[t] /\ pending'[t][i] = pending[t][i]
                                          \/ pending'[t][i] = c
         /\ \E i \in DOMAIN pending'[t] : pending'[t][i] = c
<1>1. PICK S, w : S = [call : Asked, struck : BOOLEAN, words : Seq(Word)] /\ w = pending[t]
  OBVIOUS
<1>2. pending \in [App -> Seq(S)] /\ w \in Seq(S)  BY <1>1 DEF WildInv
<1>5. pending'[t] = Append(w, c)  BY <1>1
<1>6. PICK v : v = Append(w, c)  OBVIOUS
<1>7. Len(w) \in Nat /\ DOMAIN w = 1 .. Len(w)  BY <1>2
<1>8. /\ DOMAIN v = 1 .. Len(w) + 1 /\ v[Len(w) + 1] = c
      /\ \A i \in 1 .. Len(w) : v[i] = w[i]
  BY ONLY <1>2, <1>6, <1>7
<1>9. /\ \A i \in DOMAIN w : i \in DOMAIN v /\ v[i] = w[i]
      /\ \A i \in DOMAIN v : (i \in DOMAIN w /\ v[i] = w[i]) \/ v[i] = c
      /\ \E i \in DOMAIN v : v[i] = c
  BY ONLY <1>7, <1>8
<1>10. pending'[t] = v /\ pending[t] = w  BY <1>1, <1>5, <1>6
<1> QED  BY ONLY <1>9, <1>10

\* Steps of the application after a fault.
LEMMA DoomApp ==
  ASSUME WildInv, DoomInv, hit, Suspect, NEW t \in App, Invoke(t) \/ AppStep(t)
  PROVE  hit' /\ WildInv' /\ DoomInv' /\ Suspect'
<1>1. PICK p : p = A(t)  OBVIOUS
<1>2. /\ p \in Proc /\ p[2] = "app" /\ Shape /\ HeapInv(obj, top)
      /\ DOMAIN pc = Proc /\ struck \in [Proc -> BOOLEAN]
  BY <1>1, WildFacts DEF Shape
<1>3. struck[p] => pc[p] \notin {"idle", "lock"} /\ Astray(obj, pc[p], call[p], loc[p], log[p])
  BY <1>1 DEF DoomInv
<1>4. CASE Invoke(t)
  <2>1. WildInv' /\ Alone(p) /\ Grows(obj, obj') /\ pending' = pending /\ hit' = hit /\ struck' = struck
    BY <1>1, <1>4, WildInvoke
  <2>2. ~struck[p]
    <3>1. pc[p] = "idle"  BY <1>1, <1>4 DEF Invoke, A
    <3> QED  BY <1>3, <3>1
  <2>3. \A q \in Proc : struck'[q] = struck[q]  BY <2>1
  <2>4. \A u \in App : \A i \in DOMAIN pending'[u] :
          i \in DOMAIN pending[u] /\ pending'[u][i] = pending[u][i]
    BY <2>1
  <2>5. ~struck'[p]  BY <2>1, <2>2
  <2>6. DoomInv'  BY <1>1, <2>1, <2>3, <2>4, <2>5, DoomFrame
  <2>7. Suspect'  BY <2>1, SuspectIs, SuspectWillBe
  <2> QED  BY <2>1, <2>6, <2>7
<1>5. CASE ClosureStep(p)
  <2>1. Steps(p) /\ WildInv' /\ Grows(obj, obj')  BY <1>1, <1>2, <1>5, ClosureSteps, WildApp
  <2>2. struck' = struck /\ hit' = hit /\ pending' = pending /\ Alone(p)
    BY <2>1 DEF Steps, Strikes
  <2>3. struck'[p] => /\ pc'[p] \notin {"idle", "lock"}
                      /\ Astray(obj', pc'[p], call'[p], loc'[p], log'[p])
    BY <1>1, <1>3, <1>5, <2>2, AstrayOn
  <2>4. \A u \in App : \A i \in DOMAIN pending'[u] :
          i \in DOMAIN pending[u] /\ pending'[u][i] = pending[u][i]
    BY <2>2
  <2>5. \A q \in Proc : struck'[q] = struck[q]  BY <2>2
  <2>6. DoomInv'  BY <1>1, <2>1, <2>2, <2>3, <2>4, <2>5, DoomFrame
  <2>7. Suspect'  BY <2>2, SuspectIs, SuspectWillBe
  <2> QED  BY <2>1, <2>2, <2>6, <2>7
<1>6. CASE Return(t)
  <2>1. WildInv' /\ Alone(p) /\ obj' = obj /\ Grows(obj, obj')  BY <1>1, <1>6, WildReturn
  <2>2. PICK x, b : b \in BOOLEAN /\ Returns(t, x, b) /\ (b => ~hit) /\ (~b => x = loc[p].ret)
    BY <1>1, <1>6, ReturnIs
  <2>3. ~b /\ x = loc[p].ret  BY <2>2
  <2>4. pc[p] = "return" /\ struck' = [struck EXCEPT ![p] = FALSE]  BY <1>1, <1>6 DEF Return, A
  <2>5. hit'  BY <2>2 DEF Returns
  <2>6. PICK c : c = [call |-> call[p], struck |-> struck[p] \/ b, words |-> log[p] \o <<x, Magic>>]
    OBVIOUS
  <2>7. c.call = call[p] /\ c.words = log[p] \o <<x, Magic>> /\ (c.struck <=> struck[p])
    <3>1. (struck[p] \/ b) = struck[p]  BY <1>2, <2>3
    <3> QED  BY <2>6, <3>1
  <2>8. c.struck => Doomed(obj, c.call, c.words)
    <3>1. x \in Word  BY <1>1, <2>3, WildFacts DEF Locals
    <3> QED  BY <1>1, <1>3, <1>6, <2>3, <2>7, <3>1, AstrayReturns
  <2>9. /\ \A u \in App : u # t => pending'[u] = pending[u]
        /\ \A i \in DOMAIN pending[t] : i \in DOMAIN pending'[t] /\ pending'[t][i] = pending[t][i]
        /\ \A i \in DOMAIN pending'[t] : \/ i \in DOMAIN pending[t] /\ pending'[t][i] = pending[t][i]
                                         \/ pending'[t][i] = c
        /\ \E i \in DOMAIN pending'[t] : pending'[t][i] = c
    <3>1. pending' = [pending EXCEPT ![t] = Append(pending[t], c)]
      BY <1>1, <2>2, <2>6 DEF Returns
    <3>2. pending \in [App -> Seq([call : Asked, struck : BOOLEAN, words : Seq(Word)])]
      BY DEF WildInv
    <3>3. pending'[t] = Append(pending[t], c) /\ \A u \in App : u # t => pending'[u] = pending[u]
      BY <3>1, <3>2
    <3> QED  BY <3>3, Committed
  <2>10. \A q \in Proc : q # p => struck'[q] = struck[q]  BY <2>4
  <2>11. ~struck'[p]  BY <1>2, <2>4
  <2>12. ASSUME NEW u \in App, NEW i \in DOMAIN pending'[u], pending'[u][i].struck
         PROVE  \/ i \in DOMAIN pending[u] /\ pending'[u][i] = pending[u][i]
                \/ Doomed(obj', pending'[u][i].call, pending'[u][i].words)
    <3>1. CASE u # t  BY <2>9, <2>12, <3>1
    <3>2. CASE u = t  BY <2>1, <2>8, <2>9, <2>12, <3>2
    <3> QED  BY <3>1, <3>2
  <2>13. DoomInv'  BY <1>1, <2>1, <2>10, <2>11, <2>12, DoomFrame
  <2>14. Suspect'
    <3>1. CASE \E q \in Proc : q # p /\ struck[q]  BY <2>10, <3>1, SuspectWillBe
    <3>2. CASE struck[p]  BY <2>7, <2>9, <3>2, SuspectWillBe
    <3>3. CASE \E u \in App : \E i \in DOMAIN pending[u] : pending[u][i].struck
      <4>1. PICK u, i : u \in App /\ i \in DOMAIN pending[u] /\ pending[u][i].struck  BY <3>3
      <4>2. i \in DOMAIN pending'[u] /\ pending'[u][i] = pending[u][i]  BY <2>9, <4>1
      <4> QED  BY <4>1, <4>2, SuspectWillBe
    <3> QED  BY <3>1, <3>2, <3>3, SuspectIs
  <2> QED  BY <2>1, <2>5, <2>13, <2>14
<1> QED  BY <1>1, <1>4, <1>5, <1>6 DEF AppStep, A

-----------------------------------------------------------------------------
(* The replay of a struck closure does not get past its bad word. *)

\* The words that can be bad.
LEMMA WhatIsBad ==
  ASSUME NEW m, NEW c, NEW w, NEW j \in Nat, Bad(m, c, w, j)
  PROVE  /\ j \in {1, 3, 4, 5, 6, 9, 12}
         /\ j = 1 => w[1] # Hash[c.key]
         /\ j # 1 => w[2] \in Places(m)
BY DEF Bad

\* How a word is bad when the key is in the map.
LEMMA BadFound ==
  ASSUME NEW m, NEW c, NEW w, NEW j \in Nat, j # 1, Bad(m, c, w, j),
         NEW f, f = Look(m, c.key)[w[2]], f # 0
  PROVE  \/ j = 3 /\ w[3] # CellOf(m, f)
         \/ j = 5 /\ c.op = "get" /\ w[5] # w[4]
         \/ j = 6 /\ c.op = "set" /\ m[w[6]].sum # c.val
         \/ j = 9 /\ c.op = "set" /\ w[9] # kStored
BY DEF Bad

\* How a word is bad when the key is not in the map.
LEMMA BadMissed ==
  ASSUME NEW m, NEW c, NEW w, NEW j \in Nat, j # 1, Bad(m, c, w, j),
         Look(m, c.key)[w[2]] = 0
  PROVE  /\ j = 3 => c.op = "get" /\ w[3] # 0
         /\ j # 3 => c.op = "set"
         /\ j = 4 => w[4] # SizeOfVal
         /\ j = 5 => m[w[5]].sum # c.val
         /\ j = 12 => w[12] # kCreated
BY DEF Bad

\* The entry is bad if its checksum is not that of the entry it should be.
LEMMA BadEntry ==
  ASSUME NEW m, NEW c, NEW w, Bad(m, c, w, 9), Look(m, c.key)[w[2]] = 0
  PROVE  m[w[9]].sum # [key |-> c.key, cell |-> w[3], next |-> w[2]]
BY DEF Bad

\* A validator that has read n words more.
LEMMA Onwards ==
  ASSUME NEW w \in Seq(Word), NEW i \in 1 .. 12, NEW n \in 0 .. 3, NEW j \in Nat,
         i + n <= j, j <= Len(w), NEW u, u = SubSeq(w, i, Len(w))
  PROVE  /\ SubSeq(u, n + 1, Len(u)) = SubSeq(w, i + n, Len(w)) /\ n + 1 <= Len(u)
         /\ \A k \in 1 .. n + 1 : u[k] = w[i + k - 1] /\ u[k] \in Word
<1>1. w \in Seq(Word) /\ i \in 1 .. Len(w) /\ Len(w) \in Nat /\ u = SubSeq(w, i, Len(w))  OBVIOUS
<1>2. u \in Seq(Word) /\ Len(u) = Len(w) - i + 1 /\ \A k \in 1 .. Len(u) : u[k] = w[i + k - 1]
  BY ONLY <1>1, Ahead
<1>3. n + 1 \in 1 .. Len(u)  BY <1>1, <1>2
<1>4. PICK a, m, v : a = n + 1 /\ m = i + n /\ v = SubSeq(w, m, Len(w))  OBVIOUS
<1>5. SubSeq(u, n + 1, Len(u)) = SubSeq(w, i + n, Len(w))
  <2>1. a \in 1 .. Len(u) /\ m = i + a - 1  BY <1>3, <1>4
  <2>2. SubSeq(u, a, Len(u)) = v  BY ONLY <1>1, <1>4, <2>1, Further
  <2> QED  BY ONLY <1>4, <2>2
<1>6. ASSUME NEW k \in 1 .. n + 1 PROVE u[k] = w[i + k - 1] /\ u[k] \in Word
  <2>1. k \in 1 .. Len(u)  BY <1>3
  <2>2. u[k] \in Word  BY ONLY <1>2, <2>1
  <2> QED  BY <1>2, <2>1, <2>2
<1>7. n + 1 <= Len(u)  BY ONLY <1>2, <1>3
<1> QED  BY ONLY <1>5, <1>6, <1>7

\* The head of its log, when the next word is not the bad one ...
LEMMA ReadsOne ==
  ASSUME NEW w \in Seq(Word), NEW i \in 1 .. 12, NEW j \in i .. Len(w),
         i + 1 <= j, NEW u, u = SubSeq(w, i, Len(w))
  PROVE  /\ SubSeq(u, 2, Len(u)) = SubSeq(w, i + 1, Len(w))
         /\ u[1] = w[i] /\ u[1] \in Word /\ u[2] = w[i + 1] /\ u[2] \in Word
<1>1. PICK n : n = 1  OBVIOUS
<1>2. /\ j \in Nat /\ j <= Len(w) /\ n \in 0 .. 3 /\ w \in Seq(Word) /\ i \in 1 .. 12 /\ i + n <= j
      /\ u = SubSeq(w, i, Len(w))
  BY <1>1
<1>3. /\ SubSeq(u, n + 1, Len(u)) = SubSeq(w, i + n, Len(w)) /\ n + 1 <= Len(u)
      /\ \A k \in 1 .. n + 1 : u[k] = w[i + k - 1] /\ u[k] \in Word
  BY ONLY <1>2, Onwards
<1>4. 1 \in 1 .. n + 1 /\ 2 \in 1 .. n + 1 /\ i + 1 - 1 = i /\ i + 2 - 1 = i + 1 /\ n + 1 = 2
  BY <1>1
<1> QED  BY ONLY <1>1, <1>3, <1>4

\* ... or the next two are not.
LEMMA ReadsTwo ==
  ASSUME NEW w \in Seq(Word), NEW i \in 1 .. 12, NEW j \in i .. Len(w),
         i + 2 <= j, NEW u, u = SubSeq(w, i, Len(w))
  PROVE  /\ SubSeq(u, 3, Len(u)) = SubSeq(w, i + 2, Len(w))
         /\ u[1] = w[i] /\ u[1] \in Word /\ u[2] = w[i + 1] /\ u[2] \in Word
<1>1. PICK n : n = 2  OBVIOUS
<1>2. /\ j \in Nat /\ j <= Len(w) /\ n \in 0 .. 3 /\ w \in Seq(Word) /\ i \in 1 .. 12 /\ i + n <= j
      /\ u = SubSeq(w, i, Len(w))
  BY <1>1
<1>3. /\ SubSeq(u, n + 1, Len(u)) = SubSeq(w, i + n, Len(w)) /\ n + 1 <= Len(u)
      /\ \A k \in 1 .. n + 1 : u[k] = w[i + k - 1] /\ u[k] \in Word
  BY ONLY <1>2, Onwards
<1>4. 1 \in 1 .. n + 1 /\ 2 \in 1 .. n + 1 /\ i + 1 - 1 = i /\ i + 2 - 1 = i + 1 /\ n + 1 = 3
  BY <1>1
<1> QED  BY ONLY <1>1, <1>3, <1>4

\* What a validator's step does to its log.
LEMMA ValLogged ==
  ASSUME NEW p \in Proc, p[2] = "val", p \in DOMAIN log, NEW n, NEW res,
         n = Len(Args(p)) + Len(res), Logged(p, res)
  PROVE  log'[p] = SubSeq(log[p], n + 1, Len(log[p]))
BY DEF Logged

\* What is known of a validator that replays a struck closure.
LEMMA ReadsFacts ==
  ASSUME WildInv, NEW t \in App, NEW p, p = V(t), NEW s, s = pc[p], NEW c, c = call[p],
         NEW l, l = loc[p], NEW u, u = log[p], Reads(obj, s, c, l, u)
  PROVE  /\ p \in Proc /\ p[2] = "val" /\ p[2] # "app" /\ s \in Labels
         /\ DOMAIN pc = Proc /\ DOMAIN loc = Proc /\ DOMAIN log = Proc
         /\ HeapInv(obj, top) /\ l \in Locals /\ c \in Asked /\ c.key \in Key
         /\ c.op \in {"get", "set"} /\ u \in Seq(Word)
<1>1. PICK w \in Seq(Word), i \in 1 .. 12 :
        /\ c \in Asked /\ l \in Locals /\ \E j \in i .. Len(w) : Bad(obj, c, w, j)
        /\ u = SubSeq(w, i, Len(w))
  BY DEF Reads
<1>2. w \in Seq(Word) /\ i \in 1 .. Len(w) /\ u = SubSeq(w, i, Len(w))  BY <1>1
<1>3. u \in Seq(Word)  BY ONLY <1>2, Ahead
<1> QED  BY <1>1, <1>3, Procs DEF WildInv, Shape, Asked, Call

\* The bucket of the key.
LEMMA ReadsLock ==
  ASSUME WildInv, NEW t \in App, NEW p, p = V(t), Reads(obj, pc[p], call[p], loc[p], log[p]),
         Lock(p)
  PROVE  Reads(obj, pc'[p], call[p], loc'[p], log'[p])
<1>1. PICK s, c, l, u : s = pc[p] /\ c = call[p] /\ l = loc[p] /\ u = log[p]  OBVIOUS
<1>2. Reads(obj, s, c, l, u)  BY <1>1
<1>3. /\ p \in Proc /\ p[2] # "app" /\ DOMAIN pc = Proc /\ DOMAIN loc = Proc
      /\ HeapInv(obj, top) /\ l \in Locals /\ c.key \in Key
  BY <1>1, <1>2, ReadsFacts
<1>4. PICK w \in Seq(Word), i \in 1 .. 12 :
        /\ s # "idle" /\ c \in Asked /\ l \in Locals /\ \E j \in i .. Len(w) : Bad(obj, c, w, j)
        /\ u = SubSeq(w, i, Len(w)) /\ ReadsAt(obj, s, c, l, w, i)
  BY <1>2 DEF Reads
<1>5. PICK o \in Outcomes(p, Hash[call[p].key], Wrong("hash", Bucket)) :
        loc' = [loc EXCEPT ![p].hv = o[1]]
  BY DEF Lock
<1>6. s = "lock" /\ pc' = [pc EXCEPT ![p] = "head"] /\ log' = log  BY <1>1 DEF Lock, Goto
<1>7. o[1] = Hash[c.key] /\ o[1] \in Word
  <2>1. o[1] = Hash[c.key]  BY <1>1, <1>3, <1>5, OutcomeIs
  <2>2. Hash[c.key] \in Bucket  BY <1>3, HashAssumption
  <2> QED  BY <1>3, <2>1, <2>2, HeapWords
<1>8. PICK k : k = [l EXCEPT !.hv = o[1]]  OBVIOUS
<1>9. k \in Locals /\ k.hv = Hash[c.key] /\ k.ret = l.ret  BY <1>3, <1>7, <1>8 DEF Locals
<1>10. ReadsAt(obj, "head", c, k, w, i)  BY <1>4, <1>6, <1>9 DEF ReadsAt
<1>11. Reads(obj, "head", c, k, u)  BY <1>4, <1>9, <1>10 DEF Reads
<1>12. pc'[p] = "head" /\ loc'[p] = k /\ log'[p] = u  BY <1>1, <1>3, <1>5, <1>6, <1>8
<1> QED  BY <1>1, <1>11, <1>12

\* The head of its chain: the word before it has been compared.
LEMMA ReadsHead ==
  ASSUME WildInv, NEW t \in App, NEW p, p = V(t), Reads(obj, pc[p], call[p], loc[p], log[p]),
         ReadHead(p)
  PROVE  Reads(obj, pc'[p], call[p], loc'[p], log'[p])
<1>1. PICK s, c, l, u : s = pc[p] /\ c = call[p] /\ l = loc[p] /\ u = log[p]  OBVIOUS
<1>2. Reads(obj, s, c, l, u)  BY <1>1
<1>3. /\ p \in Proc /\ p[2] = "val" /\ DOMAIN pc = Proc /\ DOMAIN loc = Proc /\ DOMAIN log = Proc
      /\ HeapInv(obj, top) /\ l \in Locals /\ c \in Asked /\ c.key \in Key /\ u \in Seq(Word)
  BY <1>1, <1>2, ReadsFacts
<1>4. PICK w \in Seq(Word), i \in 1 .. 12 :
        /\ \E j \in i .. Len(w) : Bad(obj, c, w, j)
        /\ u = SubSeq(w, i, Len(w)) /\ ReadsAt(obj, s, c, l, w, i)
  BY <1>2 DEF Reads
<1>5. PICK j \in i .. Len(w) : Bad(obj, c, w, j)  BY <1>4
<1>6. PICK o \in Loaded(p, loc[p].hv, Entries \cup {0}) :
        Logged(p, <<o[1]>>) /\ loc' = [loc EXCEPT ![p].head = o[1], ![p].at = o[1]]
  BY DEF ReadHead
<1>7. s = "head" /\ pc' = [pc EXCEPT ![p] = "walk"] /\ Agrees(p)
  BY <1>1, <1>3 DEF ReadHead, Goto, Passes
<1>8. i = 1 /\ l.hv = Hash[c.key] /\ l.ret = 0  BY <1>4, <1>7 DEF ReadsAt
<1>9. Args(p) = <<l.hv>>  BY <1>1, <1>7, ArgsAre
<1>10. u[1] = l.hv
  <2>1. IsPrefix(<<l.hv>>, u)  BY <1>1, <1>7, <1>9 DEF Agrees
  <2> QED  BY <1>3, <2>1, Leads
<1>11. w[1] = l.hv
  <2>1. 1 \in 1 .. Len(w) /\ Len(w) \in Nat  BY <1>5, <1>8
  <2> QED  BY <1>4, <1>8, <1>10, <2>1, Ahead
<1>13. j \in Nat /\ j <= Len(w) /\ i + 2 <= j /\ w[2] \in Places(obj)
  <2>1. j \in Nat /\ j <= Len(w)  BY <1>5
  <2>2. /\ j \in {1, 3, 4, 5, 6, 9, 12} /\ (j = 1 => w[1] # Hash[c.key])
        /\ (j # 1 => w[2] \in Places(obj))
    <3>1. Bad(obj, c, w, j)  BY <1>5
    <3> QED  BY <2>1, <3>1, WhatIsBad
  <2> QED  BY <1>8, <1>11, <2>1, <2>2
<1>14. SubSeq(u, 3, Len(u)) = SubSeq(w, 3, Len(w)) /\ u[2] = w[2] /\ w[2] \in Word
  <2>1. /\ w \in Seq(Word) /\ i \in 1 .. 12 /\ j \in i .. Len(w) /\ u = SubSeq(w, i, Len(w))
        /\ i + 2 <= j
    BY <1>4, <1>13
  <2>2. /\ SubSeq(u, 3, Len(u)) = SubSeq(w, i + 2, Len(w))
        /\ u[1] = w[i] /\ u[1] \in Word /\ u[2] = w[i + 1] /\ u[2] \in Word
    BY ONLY <2>1, ReadsTwo
  <2>3. i + 2 = 3 /\ i + 1 = 2  BY <1>8
  <2> QED  BY <2>2, <2>3
<1>15. o[1] = w[2]
  <2>1. Len(<<l.hv>>) + 1 = 2  OBVIOUS
  <2>2. Fetched(p) = u[2]  BY <1>1, <1>9, <2>1 DEF Fetched
  <2> QED  BY <1>3, <1>6, <1>14, <2>2, LoadedIs
<1>16. log'[p] = SubSeq(w, 3, Len(w))
  <2>1. 2 = Len(Args(p)) + Len(<<o[1]>>) /\ 2 + 1 = 3  BY <1>9
  <2>2. log'[p] = SubSeq(log[p], 2 + 1, Len(log[p]))  BY <1>3, <1>6, <2>1, ValLogged
  <2> QED  BY <1>1, <1>14, <2>1, <2>2
<1>17. PICK k : k = [l EXCEPT !.head = o[1], !.at = o[1]]  OBVIOUS
<1>18. k \in Locals /\ k.hv = l.hv /\ k.ret = l.ret /\ k.head = w[2] /\ k.at = w[2]
  BY <1>3, <1>14, <1>15, <1>17 DEF Locals
<1>19. ReadsAt(obj, "walk", c, k, w, 3)  BY <1>8, <1>11, <1>13, <1>18 DEF ReadsAt
<1>20. Reads(obj, "walk", c, k, SubSeq(w, 3, Len(w)))
  <2>1. j \in 3 .. Len(w) /\ 3 \in 1 .. 12  BY <1>8, <1>13
  <2> QED  BY <1>3, <1>5, <1>18, <1>19, <2>1 DEF Reads
<1>21. pc'[p] = "walk" /\ loc'[p] = k  BY <1>1, <1>3, <1>6, <1>7, <1>17
<1> QED  BY <1>1, <1>16, <1>20, <1>21

\* Where a validator is in the log of a struck closure.
LEMMA ReadsIs ==
  ASSUME WildInv, NEW t \in App, NEW p, p = V(t), NEW c, c = call[p], NEW l, l = loc[p],
         NEW u, u = log[p], Reads(obj, pc[p], call[p], loc[p], log[p])
  PROVE  /\ p \in Proc /\ p[2] = "val" /\ p[2] # "app"
         /\ DOMAIN pc = Proc /\ DOMAIN loc = Proc /\ DOMAIN log = Proc
         /\ HeapInv(obj, top) /\ l \in Locals /\ c \in Asked /\ c.key \in Key
         /\ c.op \in {"get", "set"} /\ u \in Seq(Word)
         /\ \E w \in Seq(Word), i \in 1 .. 12 : \E j \in i .. Len(w) :
              Bad(obj, c, w, j) /\ u = SubSeq(w, i, Len(w)) /\ ReadsAt(obj, pc[p], c, l, w, i)
<1>1. PICK s : s = pc[p]  OBVIOUS
<1>2. Reads(obj, s, c, l, u)  BY <1>1
<1>3. /\ p \in Proc /\ p[2] = "val" /\ p[2] # "app"
      /\ DOMAIN pc = Proc /\ DOMAIN loc = Proc /\ DOMAIN log = Proc
      /\ HeapInv(obj, top) /\ l \in Locals /\ c \in Asked /\ c.key \in Key
      /\ c.op \in {"get", "set"} /\ u \in Seq(Word)
  BY <1>1, <1>2, ReadsFacts
<1>4. \E w \in Seq(Word), i \in 1 .. 12 : \E j \in i .. Len(w) :
        Bad(obj, c, w, j) /\ u = SubSeq(w, i, Len(w)) /\ ReadsAt(obj, s, c, l, w, i)
  BY <1>2 DEF Reads
<1> QED  BY <1>1, <1>3, <1>4

\* It moves on to label s, having read n words that are not the bad one.
LEMMA ReadsGo ==
  ASSUME NEW p, NEW c \in Asked, c = call[p], NEW w \in Seq(Word), NEW i \in 1 .. 12,
         NEW n \in 0 .. 3, NEW j \in i .. Len(w), Bad(obj, c, w, j), i + n <= j,
         NEW k \in Locals, NEW s, s # "idle", ReadsAt(obj, s, c, k, w, i + n),
         pc'[p] = s, loc'[p] = k, log'[p] = SubSeq(w, i + n, Len(w))
  PROVE  Reads(obj, pc'[p], call[p], loc'[p], log'[p])
<1>1. j \in Nat /\ j <= Len(w) /\ Len(w) \in Nat  OBVIOUS
<1>2. j <= 12  BY <1>1, WhatIsBad
<1>3. i + n \in 1 .. 12 /\ j \in (i + n) .. Len(w)  BY <1>1, <1>2
<1>4. Reads(obj, s, c, k, SubSeq(w, i + n, Len(w)))  BY <1>3 DEF Reads
<1> QED  BY <1>4

\* It walks as the key of the closure tells, in objects that are what they were.
LEMMA ReadsWalk ==
  ASSUME WildInv, NEW t \in App, NEW p, p = V(t), Reads(obj, pc[p], call[p], loc[p], log[p]),
         Find(p) \/ Skip(p) \/ Miss(p)
  PROVE  Reads(obj, pc'[p], call[p], loc'[p], log'[p])
<1>1. PICK c, l, u : c = call[p] /\ l = loc[p] /\ u = log[p]  OBVIOUS
<1>2. /\ p \in Proc /\ p[2] = "val" /\ p[2] # "app"
      /\ DOMAIN pc = Proc /\ DOMAIN loc = Proc /\ DOMAIN log = Proc
      /\ HeapInv(obj, top) /\ l \in Locals /\ c \in Asked /\ c.key \in Key
      /\ c.op \in {"get", "set"} /\ u \in Seq(Word)
  BY <1>1, ReadsIs
<1>3. PICK w \in Seq(Word), i \in 1 .. 12 : \E j \in i .. Len(w) :
        Bad(obj, c, w, j) /\ u = SubSeq(w, i, Len(w)) /\ ReadsAt(obj, pc[p], c, l, w, i)
  BY <1>1, ReadsIs
<1>4. PICK j \in i .. Len(w) :
        Bad(obj, c, w, j) /\ u = SubSeq(w, i, Len(w)) /\ ReadsAt(obj, pc[p], c, l, w, i)
  BY <1>3
<1>5. pc[p] = "walk" /\ log' = log  BY DEF Find, Skip, Miss
<1>6. PICK f : f = Look(obj, c.key)[w[2]]  OBVIOUS
<1>7. /\ i = 3 /\ l.at \in Places(obj) /\ Look(obj, c.key)[l.at] = f /\ l.ret = 0
      /\ l.hv = Hash[c.key] /\ w[2] \in Places(obj) /\ l.head = w[2] /\ w[1] = l.hv
  BY <1>4, <1>5, <1>6 DEF ReadsAt
<1>8. 0 \in 0 .. 3 /\ i + 0 = 3 /\ i + 0 <= j /\ log'[p] = SubSeq(w, i + 0, Len(w))
  <2>1. i + 0 = i  OBVIOUS
  <2>2. log'[p] = SubSeq(w, i, Len(w))  BY <1>1, <1>4, <1>5
  <2> QED  BY <1>7, <2>1, <2>2
<1>9. /\ Look(obj, c.key)[0] = 0
      /\ l.at # 0 => /\ l.at \in EntriesIn(obj)
                     /\ f = IF obj[l.at].data.key = c.key THEN l.at
                            ELSE Look(obj, c.key)[obj[l.at].data.next]
                     /\ obj[l.at].data.next \in Places(obj)
  <2>1. /\ Look(obj, c.key)[0] = 0
        /\ \A a \in EntriesIn(obj) :
             Look(obj, c.key)[a] = IF obj[a].data.key = c.key THEN a
                                   ELSE Look(obj, c.key)[obj[a].data.next]
    BY <1>2, HeapLook
  <2>2. l.at # 0 => l.at \in EntriesIn(obj)  BY <1>7 DEF Places
  <2> QED  BY <1>2, <1>7, <2>1, <2>2 DEF HeapInv
<1>10. CASE Find(p)
  <2>1. PICK e : e = obj[loc[p].at].data /\ e = obj[l.at].data  BY <1>1
  <2>2. PICK b \in Outcomes(p, e.key = call[p].key, Wrong("branch", BOOLEAN)),
             o \in Outcomes(p, e.cell, Wrong("address", ValueCells)) :
          b[1] /\ ~(b[2] /\ o[2]) /\ loc' = [loc EXCEPT ![p].dest = o[1]]
    BY ONLY <1>10, <2>1 DEF Find
  <2>3. l.at # 0 /\ pc' = [pc EXCEPT ![p] = "load"]  BY <1>1, <1>10 DEF Find, Goto
  <2>4. b[1] = (e.key = c.key) /\ o[1] = e.cell  BY <1>1, <1>2, OutcomeIs
  <2>5. f = l.at /\ f # 0 /\ o[1] = CellOf(obj, f) /\ o[1] \in Word
    <3>1. f = l.at /\ f \in EntriesIn(obj)  BY <1>9, <2>1, <2>2, <2>3, <2>4
    <3>2. o[1] = CellOf(obj, f)  BY <2>1, <2>4, <3>1 DEF CellOf
    <3>3. CellOf(obj, f) \in Word  BY <1>2, <3>1, HeapWords
    <3> QED  BY <2>3, <3>1, <3>2, <3>3
  <2>6. PICK k : k = [l EXCEPT !.dest = o[1]]  OBVIOUS
  <2>7. k \in Locals /\ k.hv = l.hv /\ k.head = l.head /\ k.dest = o[1]
    BY <1>2, <2>5, <2>6 DEF Locals
  <2>8. ReadsAt(obj, "load", c, k, w, i + 0)  BY <1>6, <1>7, <2>5, <2>7 DEF ReadsAt
  <2>9. pc'[p] = "load" /\ loc'[p] = k  BY <1>1, <1>2, <2>2, <2>3, <2>6
  <2> QED  BY <1>1, <1>2, <1>4, <1>8, <2>7, <2>8, <2>9, ReadsGo
<1>11. CASE Skip(p)
  <2>1. PICK e : e = obj[l.at].data  OBVIOUS
  <2>2. PICK b \in Outcomes(p, e.key = c.key, Wrong("branch", BOOLEAN)) :
          ~b[1] /\ loc' = [loc EXCEPT ![p].at = e.next]
    BY <1>1, <1>11, <2>1 DEF Skip
  <2>3. l.at # 0 /\ pc' = pc  BY <1>1, <1>11 DEF Skip
  <2>4. b[1] = (e.key = c.key)  BY <1>2, OutcomeIs
  <2>5. e.next \in Places(obj) /\ f = Look(obj, c.key)[e.next] /\ e.next \in Word
    <3>1. e.next \in Places(obj) /\ f = Look(obj, c.key)[e.next]
      BY <1>9, <2>1, <2>2, <2>3, <2>4
    <3> QED  BY <1>2, <3>1, HeapWords
  <2>6. PICK k : k = [l EXCEPT !.at = e.next]  OBVIOUS
  <2>7. k \in Locals /\ k.hv = l.hv /\ k.head = l.head /\ k.at = e.next /\ k.ret = l.ret
    BY <1>2, <2>5, <2>6 DEF Locals
  <2>8. ReadsAt(obj, "walk", c, k, w, i + 0)  BY <1>6, <1>7, <2>5, <2>7 DEF ReadsAt
  <2>9. pc'[p] = "walk" /\ loc'[p] = k  BY <1>1, <1>2, <1>5, <2>2, <2>3, <2>6
  <2> QED  BY <1>1, <1>2, <1>4, <1>8, <2>7, <2>8, <2>9, ReadsGo
<1>12. CASE Miss(p)
  <2>1. PICK s : s = IF c.op = "get" THEN "unlock" ELSE "newCell"  OBVIOUS
  <2>2. l.at = 0 /\ loc' = loc /\ pc' = [pc EXCEPT ![p] = s]
    BY <1>1, <1>12, <2>1 DEF Miss, Goto
  <2>3. f = 0  BY <1>7, <1>9, <2>2
  <2>4. ReadsAt(obj, s, c, l, w, i + 0)
    <3>1. CASE c.op = "get"  BY <1>6, <1>7, <2>1, <2>3, <3>1 DEF ReadsAt
    <3>2. CASE c.op = "set"  BY <1>6, <1>7, <2>1, <2>3, <3>2 DEF ReadsAt
    <3> QED  BY <1>2, <3>1, <3>2
  <2>5. pc'[p] = s /\ loc'[p] = l /\ s # "idle"  BY <1>1, <1>2, <2>1, <2>2
  <2> QED  BY <1>1, <1>2, <1>4, <1>8, <2>4, <2>5, ReadsGo
<1> QED  BY <1>10, <1>11, <1>12

\* The word that begins what is left.
LEMMA ReadsFirst ==
  ASSUME NEW w \in Seq(Word), NEW i \in 1 .. 12, NEW j \in i .. Len(w),
         NEW u, u = SubSeq(w, i, Len(w))
  PROVE  u[1] = w[i] /\ u \in Seq(Word)
<1>1. w \in Seq(Word) /\ i \in 1 .. Len(w) /\ u = SubSeq(w, i, Len(w))  OBVIOUS
<1>2. u \in Seq(Word) /\ Len(u) = Len(w) - i + 1 /\ \A k \in 1 .. Len(u) : u[k] = w[i + k - 1]
  BY ONLY <1>1, Ahead
<1>3. 1 \in 1 .. Len(u) /\ i + 1 - 1 = i  BY <1>1, <1>2
<1> QED  BY <1>2, <1>3

\* The cell is compared, the value in it is read.
LEMMA ReadsLoad ==
  ASSUME WildInv, NEW t \in App, NEW p, p = V(t), Reads(obj, pc[p], call[p], loc[p], log[p]),
         Load(p)
  PROVE  Reads(obj, pc'[p], call[p], loc'[p], log'[p])
<1>1. PICK c, l, u : c = call[p] /\ l = loc[p] /\ u = log[p]  OBVIOUS
<1>2. /\ p \in Proc /\ p[2] = "val" /\ p[2] # "app"
      /\ DOMAIN pc = Proc /\ DOMAIN loc = Proc /\ DOMAIN log = Proc
      /\ HeapInv(obj, top) /\ l \in Locals /\ c \in Asked /\ c.key \in Key
      /\ c.op \in {"get", "set"} /\ u \in Seq(Word)
  BY <1>1, ReadsIs
<1>3. PICK w \in Seq(Word), i \in 1 .. 12 : \E j \in i .. Len(w) :
        Bad(obj, c, w, j) /\ u = SubSeq(w, i, Len(w)) /\ ReadsAt(obj, pc[p], c, l, w, i)
  BY <1>1, ReadsIs
<1>4. PICK j \in i .. Len(w) :
        Bad(obj, c, w, j) /\ u = SubSeq(w, i, Len(w)) /\ ReadsAt(obj, pc[p], c, l, w, i)
  BY <1>3
<1>5. PICK o \in Loaded(p, loc[p].dest, Values) :
        /\ Logged(p, <<o[1]>>)
        /\ loc' = [loc EXCEPT ![p].ret = IF call[p].op = "get" THEN o[1] ELSE kStored]
  BY DEF Load
<1>6. PICK s : s = IF c.op = "get" THEN "unlock" ELSE "makeVal"  OBVIOUS
<1>7. pc[p] = "load" /\ pc' = [pc EXCEPT ![p] = s] /\ Agrees(p)
  BY <1>1, <1>2, <1>6 DEF Load, Goto, Passes
<1>8. PICK f : f = Look(obj, c.key)[w[2]]  OBVIOUS
<1>9. /\ i = 3 /\ f # 0 /\ l.dest = CellOf(obj, f)
      /\ l.hv = Hash[c.key] /\ w[2] \in Places(obj) /\ l.head = w[2] /\ w[1] = l.hv
  BY <1>4, <1>7, <1>8 DEF ReadsAt
<1>10. Args(p) = <<l.dest>>  BY <1>1, <1>7, ArgsAre
<1>11. w[3] = l.dest
  <2>1. IsPrefix(<<l.dest>>, u)  BY <1>1, <1>7, <1>10 DEF Agrees
  <2>2. u[1] = l.dest  BY <1>2, <2>1, Leads
  <2> QED  BY <1>4, <1>9, <2>2, ReadsFirst
<1>12. i + 2 <= j /\ 2 \in 1 .. 3 /\ 2 \in 0 .. 3 /\ i + 2 = 5
  <2>1. j \in Nat /\ 3 <= j /\ j # 1  BY <1>9
  <2>2. j \in {1, 3, 4, 5, 6, 9, 12}  BY <1>4, <2>1, WhatIsBad
  <2>3. j # 3 /\ j # 4  BY <1>4, <1>8, <1>9, <1>11, <2>1, BadFound
  <2> QED  BY <1>9, <2>1, <2>2, <2>3
<1>13. SubSeq(u, 3, Len(u)) = SubSeq(w, i + 2, Len(w)) /\ u[2] = w[4] /\ u[2] \in Word
  <2>1. /\ w \in Seq(Word) /\ i \in 1 .. 12 /\ j \in i .. Len(w) /\ u = SubSeq(w, i, Len(w))
        /\ i + 2 <= j
    BY <1>4, <1>12
  <2>2. /\ SubSeq(u, 3, Len(u)) = SubSeq(w, i + 2, Len(w))
        /\ u[1] = w[i] /\ u[1] \in Word /\ u[2] = w[i + 1] /\ u[2] \in Word
    BY ONLY <2>1, ReadsTwo
  <2> QED  BY <2>2, <1>12
<1>14. o[1] = w[4] /\ o[1] \in Word
  <2>1. Len(<<l.dest>>) + 1 = 2  OBVIOUS
  <2>2. Fetched(p) = u[2]  BY <1>1, <1>10, <2>1 DEF Fetched
  <2> QED  BY <1>2, <1>5, <1>13, <2>2, LoadedIs
<1>15. log'[p] = SubSeq(w, i + 2, Len(w))
  <2>1. 2 = Len(Args(p)) + Len(<<o[1]>>) /\ 2 + 1 = 3  BY <1>10
  <2>2. log'[p] = SubSeq(log[p], 2 + 1, Len(log[p]))  BY <1>2, <1>5, <2>1, ValLogged
  <2> QED  BY <1>1, <1>13, <2>1, <2>2
<1>16. PICK r : r = IF c.op = "get" THEN o[1] ELSE kStored  OBVIOUS
<1>17. PICK k : k = [l EXCEPT !.ret = r]  OBVIOUS
<1>18. k \in Locals /\ k.hv = l.hv /\ k.head = l.head /\ k.dest = l.dest /\ k.ret = r
  <2>1. r \in Word  BY <1>2, <1>14, <1>16, HeapWords
  <2> QED  BY <1>2, <1>17, <2>1 DEF Locals
<1>19. ReadsAt(obj, s, c, k, w, i + 2)
  <2>1. CASE c.op = "get"
    <3>1. s = "unlock" /\ k.ret = w[4]  BY <1>6, <1>14, <1>16, <1>18, <2>1
    <3> QED  BY <1>8, <1>9, <1>12, <1>18, <2>1, <3>1 DEF ReadsAt
  <2>2. CASE c.op = "set"
    <3>1. s = "makeVal" /\ k.ret = kStored  BY <1>6, <1>16, <1>18, <2>2
    <3> QED  BY <1>8, <1>9, <1>11, <1>12, <1>18, <2>2, <3>1 DEF ReadsAt
  <2> QED  BY <1>2, <2>1, <2>2
<1>20. pc'[p] = s /\ loc'[p] = k /\ s # "idle"  BY <1>1, <1>2, <1>5, <1>6, <1>7, <1>16, <1>17
<1> QED  BY <1>1, <1>2, <1>4, <1>12, <1>15, <1>18, <1>19, <1>20, ReadsGo

\* A new cell is read.
LEMMA ReadsNewCell ==
  ASSUME WildInv, NEW t \in App, NEW p, p = V(t), Reads(obj, pc[p], call[p], loc[p], log[p]),
         NewCell(p)
  PROVE  Reads(obj, pc'[p], call[p], loc'[p], log'[p])
<1>1. PICK c, l, u : c = call[p] /\ l = loc[p] /\ u = log[p]  OBVIOUS
<1>2. /\ p \in Proc /\ p[2] = "val" /\ p[2] # "app"
      /\ DOMAIN pc = Proc /\ DOMAIN loc = Proc /\ DOMAIN log = Proc
      /\ HeapInv(obj, top) /\ l \in Locals /\ c \in Asked /\ c.key \in Key
      /\ c.op \in {"get", "set"} /\ u \in Seq(Word)
  BY <1>1, ReadsIs
<1>3. PICK w \in Seq(Word), i \in 1 .. 12 : \E j \in i .. Len(w) :
        Bad(obj, c, w, j) /\ u = SubSeq(w, i, Len(w)) /\ ReadsAt(obj, pc[p], c, l, w, i)
  BY <1>1, ReadsIs
<1>4. PICK j \in i .. Len(w) :
        Bad(obj, c, w, j) /\ u = SubSeq(w, i, Len(w)) /\ ReadsAt(obj, pc[p], c, l, w, i)
  BY <1>3
<1>5. PICK a : a = Allocated(p)  OBVIOUS
<1>6. /\ pc[p] = "newCell" /\ Logged(p, <<a>>) /\ pc' = [pc EXCEPT ![p] = "makeVal"]
      /\ loc' = [loc EXCEPT ![p].dest = a, ![p].ret = kCreated]
  BY <1>5 DEF NewCell, Goto
<1>7. PICK f : f = Look(obj, c.key)[w[2]]  OBVIOUS
<1>8. /\ i = 3 /\ f = 0 /\ c.op = "set"
      /\ l.hv = Hash[c.key] /\ w[2] \in Places(obj) /\ l.head = w[2] /\ w[1] = l.hv
  BY <1>4, <1>6, <1>7 DEF ReadsAt
<1>9. Args(p) = << >>  BY <1>6, ArgsAre
<1>10. i + 1 <= j /\ 1 \in 1 .. 3 /\ 1 \in 0 .. 3 /\ i + 1 = 4
  <2>1. j \in Nat /\ 3 <= j /\ j # 1  BY <1>8
  <2>2. Look(obj, c.key)[w[2]] = 0 /\ Bad(obj, c, w, j)  BY <1>4, <1>7, <1>8
  <2>3. j # 3  BY <1>8, <2>1, <2>2, BadMissed
  <2> QED  BY <1>8, <2>1, <2>3
<1>11. SubSeq(u, 2, Len(u)) = SubSeq(w, i + 1, Len(w)) /\ u[1] = w[3] /\ u[1] \in Word
  <2>1. /\ w \in Seq(Word) /\ i \in 1 .. 12 /\ j \in i .. Len(w) /\ u = SubSeq(w, i, Len(w))
        /\ i + 1 <= j
    BY <1>4, <1>8, <1>10
  <2>2. /\ SubSeq(u, 2, Len(u)) = SubSeq(w, i + 1, Len(w))
        /\ u[1] = w[i] /\ u[1] \in Word /\ u[2] = w[i + 1] /\ u[2] \in Word
    BY ONLY <2>1, ReadsOne
  <2> QED  BY <2>2, <1>8, <1>10
<1>12. a = w[3] /\ a \in Word
  <2>1. Len(<< >>) + 1 = 1  OBVIOUS
  <2>2. Fetched(p) = u[1]  BY <1>1, <1>9, <2>1 DEF Fetched
  <2> QED  BY <1>2, <1>5, <1>11, <2>2 DEF Allocated
<1>13. log'[p] = SubSeq(w, i + 1, Len(w))
  <2>1. 1 = Len(Args(p)) + Len(<<a>>) /\ 1 + 1 = 2  BY <1>9
  <2>2. log'[p] = SubSeq(log[p], 1 + 1, Len(log[p]))  BY <1>2, <1>6, <2>1, ValLogged
  <2> QED  BY <1>1, <1>11, <2>1, <2>2
<1>14. PICK k : k = [l EXCEPT !.dest = a, !.ret = kCreated]  OBVIOUS
<1>15. k \in Locals /\ k.hv = l.hv /\ k.head = l.head /\ k.dest = a /\ k.ret = kCreated
  <2>1. kCreated \in Word  BY <1>2, HeapWords
  <2> QED  BY <1>2, <1>12, <1>14, <2>1 DEF Locals
<1>16. ReadsAt(obj, "makeVal", c, k, w, i + 1)
  BY <1>7, <1>8, <1>10, <1>12, <1>15 DEF ReadsAt
<1>17. pc'[p] = "makeVal" /\ loc'[p] = k  BY <1>1, <1>2, <1>6, <1>14
<1> QED  BY <1>1, <1>2, <1>4, <1>10, <1>13, <1>15, <1>16, <1>17, ReadsGo

\* The value is made of the call again: its size and its checksum are compared.
LEMMA ReadsMakeVal ==
  ASSUME WildInv, NEW t \in App, NEW p, p = V(t), Reads(obj, pc[p], call[p], loc[p], log[p]),
         MakeVal(p)
  PROVE  Reads(obj, pc'[p], call[p], loc'[p], log'[p])
<1>1. PICK c, l, u : c = call[p] /\ l = loc[p] /\ u = log[p]  OBVIOUS
<1>2. /\ p \in Proc /\ p[2] = "val" /\ p[2] # "app"
      /\ DOMAIN pc = Proc /\ DOMAIN loc = Proc /\ DOMAIN log = Proc
      /\ HeapInv(obj, top) /\ l \in Locals /\ c \in Asked /\ c.key \in Key
      /\ c.op \in {"get", "set"} /\ u \in Seq(Word)
  BY <1>1, ReadsIs
<1>3. PICK w \in Seq(Word), i \in 1 .. 12 : \E j \in i .. Len(w) :
        Bad(obj, c, w, j) /\ u = SubSeq(w, i, Len(w)) /\ ReadsAt(obj, pc[p], c, l, w, i)
  BY <1>1, ReadsIs
<1>4. PICK j \in i .. Len(w) :
        Bad(obj, c, w, j) /\ u = SubSeq(w, i, Len(w)) /\ ReadsAt(obj, pc[p], c, l, w, i)
  BY <1>3
<1>5. PICK a : a = Allocated(p)  OBVIOUS
<1>6. /\ pc[p] = "makeVal" /\ Logged(p, <<a>>) /\ pc' = [pc EXCEPT ![p] = "store"]
      /\ loc' = [loc EXCEPT ![p].made = a] /\ Agrees(p)
  BY <1>2, <1>5 DEF MakeVal, Goto, Passes
<1>7. PICK f : f = Look(obj, c.key)[w[2]]  OBVIOUS
<1>8. /\ i = (IF f = 0 THEN 4 ELSE 5) /\ l.ret = (IF f = 0 THEN kCreated ELSE kStored)
      /\ c.op = "set" /\ l.dest = w[3]
      /\ l.hv = Hash[c.key] /\ w[2] \in Places(obj) /\ l.head = w[2] /\ w[1] = l.hv
  BY <1>4, <1>6, <1>7 DEF ReadsAt
<1>9. Args(p) = <<SizeOfVal>>  BY <1>6, ArgsAre
<1>10. w[i] = SizeOfVal
  <2>1. IsPrefix(<<SizeOfVal>>, u)  BY <1>1, <1>6, <1>9 DEF Agrees
  <2>2. u[1] = SizeOfVal  BY <1>2, <2>1, Leads
  <2> QED  BY <1>4, <2>2, ReadsFirst
<1>11. obj[u[2]].sum = c.val  BY <1>1, <1>6 DEF Agrees
<1>12. j \in Nat /\ j # 1 /\ j # i /\ i + 1 <= j
  <2>1. j \in Nat /\ i <= j /\ j # 1  BY <1>8
  <2>2. CASE f = 0
    <3>1. Bad(obj, c, w, j) /\ Look(obj, c.key)[w[2]] = 0 /\ i = 4  BY <1>4, <1>7, <1>8, <2>2
    <3>2. j = 4 => w[4] # SizeOfVal  BY ONLY <2>1, <3>1, BadMissed
    <3> QED  BY <1>10, <2>1, <3>1, <3>2
  <2>3. CASE f # 0
    <3>1. Bad(obj, c, w, j) /\ i = 5 /\ c.op # "get"  BY <1>4, <1>8, <2>3
    <3>2. j # 5  BY ONLY <1>7, <2>1, <2>3, <3>1, BadFound
    <3> QED  BY <2>1, <3>1, <3>2
  <2> QED  BY <2>2, <2>3
<1>13. u[2] = w[i + 1]
  <2>1. w \in Seq(Word) /\ i \in 1 .. 12 /\ j \in i .. Len(w) /\ i + 1 <= j /\ u = SubSeq(w, i, Len(w))
    BY <1>4, <1>12
  <2>2. /\ SubSeq(u, 2, Len(u)) = SubSeq(w, i + 1, Len(w))
        /\ u[1] = w[i] /\ u[1] \in Word /\ u[2] = w[i + 1] /\ u[2] \in Word
    BY ONLY <2>1, ReadsOne
  <2> QED  BY <2>2
<1>14. i + 2 <= j /\ 2 \in 1 .. 3 /\ 2 \in 0 .. 3
  <2>1. obj[w[i + 1]].sum = c.val  BY <1>11, <1>13
  <2>2. CASE f = 0
    <3>1. i + 1 = 5  BY <1>8, <2>2
    <3>2. j \in Nat /\ j # 1 /\ Bad(obj, c, w, j) /\ Look(obj, c.key)[w[2]] = 0
      BY <1>4, <1>7, <1>12, <2>2
    <3>3. j = 5 => obj[w[5]].sum # c.val  BY ONLY <3>2, BadMissed
    <3>4. j # 5  BY <2>1, <3>1, <3>3
    <3> QED  BY <1>12, <3>1, <3>4
  <2>3. CASE f # 0
    <3>1. i + 1 = 6  BY <1>8, <2>3
    <3>2. j \in Nat /\ j # 1 /\ Bad(obj, c, w, j) /\ f = Look(obj, c.key)[w[2]] /\ f # 0
      BY <1>4, <1>7, <1>12, <2>3
    <3>3. j = 6 => obj[w[6]].sum # c.val  BY ONLY <3>2, BadFound
    <3>4. j # 6  BY <2>1, <3>1, <3>3
    <3> QED  BY <1>12, <3>1, <3>4
  <2> QED  BY <2>2, <2>3
<1>15. SubSeq(u, 3, Len(u)) = SubSeq(w, i + 2, Len(w)) /\ u[2] \in Word
  <2>1. /\ w \in Seq(Word) /\ i \in 1 .. 12 /\ j \in i .. Len(w) /\ u = SubSeq(w, i, Len(w))
        /\ i + 2 <= j
    BY <1>4, <1>14
  <2>2. /\ SubSeq(u, 3, Len(u)) = SubSeq(w, i + 2, Len(w))
        /\ u[1] = w[i] /\ u[1] \in Word /\ u[2] = w[i + 1] /\ u[2] \in Word
    BY ONLY <2>1, ReadsTwo
  <2> QED  BY <2>2, <1>14
<1>16. a \in Word
  <2>1. Len(<<SizeOfVal>>) + 1 = 2  OBVIOUS
  <2>2. Fetched(p) = u[2]  BY <1>1, <1>9, <2>1 DEF Fetched
  <2> QED  BY <1>2, <1>5, <1>15, <2>2 DEF Allocated
<1>17. log'[p] = SubSeq(w, i + 2, Len(w))
  <2>1. 2 = Len(Args(p)) + Len(<<a>>) /\ 2 + 1 = 3  BY <1>9
  <2>2. log'[p] = SubSeq(log[p], 2 + 1, Len(log[p]))  BY <1>2, <1>6, <2>1, ValLogged
  <2> QED  BY <1>1, <1>15, <2>1, <2>2
<1>18. PICK k : k = [l EXCEPT !.made = a]  OBVIOUS
<1>19. k \in Locals /\ k.hv = l.hv /\ k.head = l.head /\ k.dest = l.dest /\ k.ret = l.ret
  BY <1>2, <1>16, <1>18 DEF Locals
<1>20. ReadsAt(obj, "store", c, k, w, i + 2)
  <2>1. CASE f = 0
    <3>1. i + 2 = 6  BY <1>8, <2>1
    <3> QED  BY <1>7, <1>8, <1>19, <2>1, <3>1 DEF ReadsAt
  <2>2. CASE f # 0
    <3>1. i + 2 = 7  BY <1>8, <2>2
    <3> QED  BY <1>7, <1>8, <1>19, <2>2, <3>1 DEF ReadsAt
  <2> QED  BY <2>1, <2>2
<1>21. pc'[p] = "store" /\ loc'[p] = k  BY <1>1, <1>2, <1>6, <1>18
<1> QED  BY <1>1, <1>2, <1>4, <1>14, <1>17, <1>19, <1>20, <1>21, ReadsGo

\* What is stored is compared.
LEMMA ReadsStore ==
  ASSUME WildInv, NEW t \in App, NEW p, p = V(t), Reads(obj, pc[p], call[p], loc[p], log[p]),
         Store(p)
  PROVE  Reads(obj, pc'[p], call[p], loc'[p], log'[p])
<1>1. PICK c, l, u : c = call[p] /\ l = loc[p] /\ u = log[p]  OBVIOUS
<1>2. /\ p \in Proc /\ p[2] = "val" /\ p[2] # "app"
      /\ DOMAIN pc = Proc /\ DOMAIN loc = Proc /\ DOMAIN log = Proc
      /\ HeapInv(obj, top) /\ l \in Locals /\ c \in Asked /\ c.key \in Key
      /\ c.op \in {"get", "set"} /\ u \in Seq(Word)
  BY <1>1, ReadsIs
<1>3. PICK w \in Seq(Word), i \in 1 .. 12 : \E j \in i .. Len(w) :
        Bad(obj, c, w, j) /\ u = SubSeq(w, i, Len(w)) /\ ReadsAt(obj, pc[p], c, l, w, i)
  BY <1>1, ReadsIs
<1>4. PICK j \in i .. Len(w) :
        Bad(obj, c, w, j) /\ u = SubSeq(w, i, Len(w)) /\ ReadsAt(obj, pc[p], c, l, w, i)
  BY <1>3
<1>5. PICK s : s = IF l.ret = kStored THEN "unlock" ELSE "makeEntry"  OBVIOUS
<1>6. pc[p] = "store" /\ Logged(p, << >>) /\ pc' = [pc EXCEPT ![p] = s] /\ loc' = loc
  BY <1>1, <1>5 DEF Store, Goto
<1>7. PICK f : f = Look(obj, c.key)[w[2]]  OBVIOUS
<1>8. /\ i = (IF f = 0 THEN 6 ELSE 7) /\ l.ret = (IF f = 0 THEN kCreated ELSE kStored)
      /\ c.op = "set" /\ l.dest = w[3]
      /\ l.hv = Hash[c.key] /\ w[2] \in Places(obj) /\ l.head = w[2] /\ w[1] = l.hv
  BY <1>4, <1>6, <1>7 DEF ReadsAt
<1>9. Args(p) = <<l.dest, l.made>>  BY <1>1, <1>6, ArgsAre
<1>10. i + 2 <= j /\ 2 \in 1 .. 3 /\ 2 \in 0 .. 3
  <2>1. j \in Nat /\ i <= j /\ j # 1  BY <1>8
  <2>2. j \in {1, 3, 4, 5, 6, 9, 12}  BY <1>4, <2>1, WhatIsBad
  <2>3. CASE f = 0
    <3>1. i = 6 /\ j # 6
      <4>1. Look(obj, c.key)[w[2]] = 0 /\ Bad(obj, c, w, j)  BY <1>4, <1>7, <2>3
      <4>2. j # 6  BY ONLY <2>1, <4>1 DEF Bad
      <4> QED  BY <1>8, <2>3, <4>2
    <3> QED  BY <2>1, <2>2, <3>1
  <2>4. CASE f # 0
    <3>1. i = 7  BY <1>8, <2>4
    <3> QED  BY <2>1, <2>2, <3>1
  <2> QED  BY <2>3, <2>4
<1>11. SubSeq(u, 3, Len(u)) = SubSeq(w, i + 2, Len(w))
  <2>1. /\ w \in Seq(Word) /\ i \in 1 .. 12 /\ j \in i .. Len(w) /\ u = SubSeq(w, i, Len(w))
        /\ i + 2 <= j
    BY <1>4, <1>10
  <2>2. /\ SubSeq(u, 3, Len(u)) = SubSeq(w, i + 2, Len(w))
        /\ u[1] = w[i] /\ u[1] \in Word /\ u[2] = w[i + 1] /\ u[2] \in Word
    BY ONLY <2>1, ReadsTwo
  <2> QED  BY <2>2, <1>10
<1>12. log'[p] = SubSeq(w, i + 2, Len(w))
  <2>1. 2 = Len(Args(p)) + Len(<< >>) /\ 2 + 1 = 3  BY <1>9
  <2>2. log'[p] = SubSeq(log[p], 2 + 1, Len(log[p]))  BY <1>2, <1>6, <2>1, ValLogged
  <2> QED  BY <1>1, <1>11, <2>1, <2>2
<1>13. ReadsAt(obj, s, c, l, w, i + 2)
  <2>1. CASE f = 0
    <3>1. i + 2 = 8 /\ s = "makeEntry"  BY <1>5, <1>8, <2>1, WordsDiffer
    <3> QED  BY <1>7, <1>8, <2>1, <3>1 DEF ReadsAt
  <2>2. CASE f # 0
    <3>1. i + 2 = 9 /\ s = "unlock"  BY <1>5, <1>8, <2>2
    <3> QED  BY <1>7, <1>8, <2>2, <3>1 DEF ReadsAt
  <2> QED  BY <2>1, <2>2
<1>14. pc'[p] = s /\ loc'[p] = l /\ s # "idle"  BY <1>1, <1>2, <1>5, <1>6
<1> QED  BY <1>1, <1>2, <1>4, <1>10, <1>12, <1>13, <1>14, ReadsGo

\* The entry is made of the call, the cell and the head again: its checksum is compared.
LEMMA ReadsMakeEntry ==
  ASSUME WildInv, NEW t \in App, NEW p, p = V(t), Reads(obj, pc[p], call[p], loc[p], log[p]),
         MakeEntry(p)
  PROVE  Reads(obj, pc'[p], call[p], loc'[p], log'[p])
<1>1. PICK c, l, u : c = call[p] /\ l = loc[p] /\ u = log[p]  OBVIOUS
<1>2. /\ p \in Proc /\ p[2] = "val" /\ p[2] # "app"
      /\ DOMAIN pc = Proc /\ DOMAIN loc = Proc /\ DOMAIN log = Proc
      /\ HeapInv(obj, top) /\ l \in Locals /\ c \in Asked /\ c.key \in Key
      /\ c.op \in {"get", "set"} /\ u \in Seq(Word)
  BY <1>1, ReadsIs
<1>3. PICK w \in Seq(Word), i \in 1 .. 12 : \E j \in i .. Len(w) :
        Bad(obj, c, w, j) /\ u = SubSeq(w, i, Len(w)) /\ ReadsAt(obj, pc[p], c, l, w, i)
  BY <1>1, ReadsIs
<1>4. PICK j \in i .. Len(w) :
        Bad(obj, c, w, j) /\ u = SubSeq(w, i, Len(w)) /\ ReadsAt(obj, pc[p], c, l, w, i)
  BY <1>3
<1>5. PICK a : a = Allocated(p)  OBVIOUS
<1>6. /\ pc[p] = "makeEntry" /\ Logged(p, <<a>>) /\ pc' = [pc EXCEPT ![p] = "link"]
      /\ loc' = [loc EXCEPT ![p].made = a] /\ Agrees(p)
  BY <1>2, <1>5 DEF MakeEntry, Goto, Passes
<1>7. PICK f : f = Look(obj, c.key)[w[2]]  OBVIOUS
<1>8. /\ i = 8 /\ f = 0 /\ l.ret = kCreated /\ c.op = "set" /\ l.dest = w[3]
      /\ l.hv = Hash[c.key] /\ w[2] \in Places(obj) /\ l.head = w[2] /\ w[1] = l.hv
  BY <1>4, <1>6, <1>7 DEF ReadsAt
<1>9. Args(p) = <<SizeOfEntry>>  BY <1>6, ArgsAre
<1>10. obj[u[2]].sum = NewEntry(p)  BY <1>1, <1>6 DEF Agrees
<1>11. NewEntry(p) = [key |-> c.key, cell |-> w[3], next |-> w[2]]  BY <1>1, <1>8 DEF NewEntry
<1>12. j \in Nat /\ j # 1 /\ i + 1 <= j /\ Look(obj, c.key)[w[2]] = 0
  <2>1. j \in Nat /\ i <= j /\ j # 1  BY <1>8
  <2>2. j \in {1, 3, 4, 5, 6, 9, 12}  BY <1>4, <2>1, WhatIsBad
  <2> QED  BY <1>7, <1>8, <2>1, <2>2
<1>13. u[2] = w[9]
  <2>1. w \in Seq(Word) /\ i \in 1 .. 12 /\ j \in i .. Len(w) /\ i + 1 <= j /\ u = SubSeq(w, i, Len(w))
    BY <1>4, <1>12
  <2>2. /\ SubSeq(u, 2, Len(u)) = SubSeq(w, i + 1, Len(w))
        /\ u[1] = w[i] /\ u[1] \in Word /\ u[2] = w[i + 1] /\ u[2] \in Word
    BY ONLY <2>1, ReadsOne
  <2>3. i + 1 = 9  BY <1>8
  <2> QED  BY <2>2, <2>3
<1>14. i + 2 <= j /\ 2 \in 1 .. 3 /\ 2 \in 0 .. 3 /\ i + 2 = 10
  <2>1. j # 9
    <3>1. obj[w[9]].sum = [key |-> c.key, cell |-> w[3], next |-> w[2]]  BY <1>10, <1>11, <1>13
    <3>2. SUFFICES ASSUME j = 9 PROVE FALSE  OBVIOUS
    <3>3. Bad(obj, c, w, 9)  BY <1>4, <3>2
    <3>4. obj[w[9]].sum # [key |-> c.key, cell |-> w[3], next |-> w[2]]
      BY <1>12, <3>3, BadEntry
    <3> QED  BY <3>1, <3>4
  <2> QED  BY <1>8, <1>12, <2>1
<1>15. SubSeq(u, 3, Len(u)) = SubSeq(w, i + 2, Len(w)) /\ u[2] \in Word
  <2>1. /\ w \in Seq(Word) /\ i \in 1 .. 12 /\ j \in i .. Len(w) /\ u = SubSeq(w, i, Len(w))
        /\ i + 2 <= j
    BY <1>4, <1>14
  <2>2. /\ SubSeq(u, 3, Len(u)) = SubSeq(w, i + 2, Len(w))
        /\ u[1] = w[i] /\ u[1] \in Word /\ u[2] = w[i + 1] /\ u[2] \in Word
    BY ONLY <2>1, ReadsTwo
  <2> QED  BY <2>2, <1>14
<1>16. a \in Word
  <2>1. Len(<<SizeOfEntry>>) + 1 = 2  OBVIOUS
  <2>2. Fetched(p) = u[2]  BY <1>1, <1>9, <2>1 DEF Fetched
  <2> QED  BY <1>2, <1>5, <1>15, <2>2 DEF Allocated
<1>17. log'[p] = SubSeq(w, i + 2, Len(w))
  <2>1. 2 = Len(Args(p)) + Len(<<a>>) /\ 2 + 1 = 3  BY <1>9
  <2>2. log'[p] = SubSeq(log[p], 2 + 1, Len(log[p]))  BY <1>2, <1>6, <2>1, ValLogged
  <2> QED  BY <1>1, <1>15, <2>1, <2>2
<1>18. PICK k : k = [l EXCEPT !.made = a]  OBVIOUS
<1>19. k \in Locals /\ k.hv = l.hv /\ k.head = l.head /\ k.dest = l.dest /\ k.ret = l.ret
  BY <1>2, <1>16, <1>18 DEF Locals
<1>20. ReadsAt(obj, "link", c, k, w, i + 2)  BY <1>7, <1>8, <1>14, <1>19 DEF ReadsAt
<1>21. pc'[p] = "link" /\ loc'[p] = k  BY <1>1, <1>2, <1>6, <1>18
<1> QED  BY <1>1, <1>2, <1>4, <1>14, <1>17, <1>19, <1>20, <1>21, ReadsGo

\* What is linked is compared.
LEMMA ReadsLink ==
  ASSUME WildInv, NEW t \in App, NEW p, p = V(t), Reads(obj, pc[p], call[p], loc[p], log[p]),
         Link(p)
  PROVE  Reads(obj, pc'[p], call[p], loc'[p], log'[p])
<1>1. PICK c, l, u : c = call[p] /\ l = loc[p] /\ u = log[p]  OBVIOUS
<1>2. /\ p \in Proc /\ p[2] = "val" /\ p[2] # "app"
      /\ DOMAIN pc = Proc /\ DOMAIN loc = Proc /\ DOMAIN log = Proc
      /\ HeapInv(obj, top) /\ l \in Locals /\ c \in Asked /\ c.key \in Key
      /\ c.op \in {"get", "set"} /\ u \in Seq(Word)
  BY <1>1, ReadsIs
<1>3. PICK w \in Seq(Word), i \in 1 .. 12 : \E j \in i .. Len(w) :
        Bad(obj, c, w, j) /\ u = SubSeq(w, i, Len(w)) /\ ReadsAt(obj, pc[p], c, l, w, i)
  BY <1>1, ReadsIs
<1>4. PICK j \in i .. Len(w) :
        Bad(obj, c, w, j) /\ u = SubSeq(w, i, Len(w)) /\ ReadsAt(obj, pc[p], c, l, w, i)
  BY <1>3
<1>5. pc[p] = "link" /\ Logged(p, << >>) /\ pc' = [pc EXCEPT ![p] = "unlock"] /\ loc' = loc
  BY DEF Link, Goto
<1>6. PICK f : f = Look(obj, c.key)[w[2]]  OBVIOUS
<1>7. /\ i = 10 /\ f = 0 /\ l.ret = kCreated /\ c.op = "set"
      /\ l.hv = Hash[c.key] /\ w[2] \in Places(obj) /\ l.head = w[2] /\ w[1] = l.hv
  BY <1>4, <1>5, <1>6 DEF ReadsAt
<1>8. Args(p) = <<l.hv, l.made>>  BY <1>1, <1>5, ArgsAre
<1>9. i + 2 <= j /\ 2 \in 1 .. 3 /\ 2 \in 0 .. 3 /\ i + 2 = 12
  <2>1. j \in Nat /\ i <= j /\ j # 1  BY <1>7
  <2>2. j \in {1, 3, 4, 5, 6, 9, 12}  BY <1>4, <2>1, WhatIsBad
  <2> QED  BY <1>7, <2>1, <2>2
<1>10. SubSeq(u, 3, Len(u)) = SubSeq(w, i + 2, Len(w))
  <2>1. /\ w \in Seq(Word) /\ i \in 1 .. 12 /\ j \in i .. Len(w) /\ u = SubSeq(w, i, Len(w))
        /\ i + 2 <= j
    BY <1>4, <1>9
  <2>2. /\ SubSeq(u, 3, Len(u)) = SubSeq(w, i + 2, Len(w))
        /\ u[1] = w[i] /\ u[1] \in Word /\ u[2] = w[i + 1] /\ u[2] \in Word
    BY ONLY <2>1, ReadsTwo
  <2> QED  BY <2>2, <1>9
<1>11. log'[p] = SubSeq(w, i + 2, Len(w))
  <2>1. 2 = Len(Args(p)) + Len(<< >>) /\ 2 + 1 = 3  BY <1>8
  <2>2. log'[p] = SubSeq(log[p], 2 + 1, Len(log[p]))  BY <1>2, <1>5, <2>1, ValLogged
  <2> QED  BY <1>1, <1>10, <2>1, <2>2
<1>12. ReadsAt(obj, "unlock", c, l, w, i + 2)  BY <1>6, <1>7, <1>9 DEF ReadsAt
<1>13. pc'[p] = "unlock" /\ loc'[p] = l  BY <1>1, <1>2, <1>5
<1> QED  BY <1>1, <1>2, <1>4, <1>9, <1>11, <1>12, <1>13, ReadsGo

\* It does not unlock anything.
LEMMA ReadsUnlock ==
  ASSUME WildInv, NEW t \in App, NEW p, p = V(t), Reads(obj, pc[p], call[p], loc[p], log[p]),
         Unlock(p)
  PROVE  Reads(obj, pc'[p], call[p], loc'[p], log'[p])
<1>1. PICK c, l, u : c = call[p] /\ l = loc[p] /\ u = log[p]  OBVIOUS
<1>2. /\ p \in Proc /\ p[2] = "val" /\ p[2] # "app"
      /\ DOMAIN pc = Proc /\ DOMAIN loc = Proc /\ DOMAIN log = Proc
      /\ HeapInv(obj, top) /\ l \in Locals /\ c \in Asked /\ c.key \in Key
      /\ c.op \in {"get", "set"} /\ u \in Seq(Word)
  BY <1>1, ReadsIs
<1>3. PICK w \in Seq(Word), i \in 1 .. 12 : \E j \in i .. Len(w) :
        Bad(obj, c, w, j) /\ u = SubSeq(w, i, Len(w)) /\ ReadsAt(obj, pc[p], c, l, w, i)
  BY <1>1, ReadsIs
<1>4. PICK j \in i .. Len(w) :
        Bad(obj, c, w, j) /\ u = SubSeq(w, i, Len(w)) /\ ReadsAt(obj, pc[p], c, l, w, i)
  BY <1>3
<1>5. pc[p] = "unlock" /\ pc' = [pc EXCEPT ![p] = "return"] /\ loc' = loc /\ log' = log
  BY DEF Unlock, Goto
<1>6. ReadsAt(obj, "unlock", c, l, w, i)  BY <1>4, <1>5
<1>7. ReadsAt(obj, "return", c, l, w, i)  BY <1>6 DEF ReadsAt
<1>8. i + 0 = i /\ 0 \in 0 .. 3 /\ i + 0 <= j  OBVIOUS
<1>9. pc'[p] = "return" /\ loc'[p] = l /\ log'[p] = SubSeq(w, i + 0, Len(w))
  <2>1. log'[p] = SubSeq(w, i, Len(w))  BY <1>1, <1>4, <1>5
  <2> QED  BY <1>1, <1>2, <1>5, <1>8, <2>1
<1>10. ReadsAt(obj, "return", c, l, w, i + 0)  BY <1>7, <1>8
<1> QED  BY <1>1, <1>2, <1>4, <1>8, <1>9, <1>10, ReadsGo

\* Nor does its close() pass: the bad word is the last one that is compared.
LEMMA ReadsClose ==
  ASSUME WildInv, NEW t \in App, NEW p, p = V(t), Reads(obj, pc[p], call[p], loc[p], log[p]),
         Close(t)
  PROVE  FALSE
<1>1. PICK c, l, u : c = call[p] /\ l = loc[p] /\ u = log[p]  OBVIOUS
<1>2. /\ p \in Proc /\ p[2] = "val" /\ p[2] # "app"
      /\ DOMAIN pc = Proc /\ DOMAIN loc = Proc /\ DOMAIN log = Proc
      /\ HeapInv(obj, top) /\ l \in Locals /\ c \in Asked /\ c.key \in Key
      /\ c.op \in {"get", "set"} /\ u \in Seq(Word)
  BY <1>1, ReadsIs
<1>3. PICK w \in Seq(Word), i \in 1 .. 12 : \E j \in i .. Len(w) :
        Bad(obj, c, w, j) /\ u = SubSeq(w, i, Len(w)) /\ ReadsAt(obj, pc[p], c, l, w, i)
  BY <1>1, ReadsIs
<1>4. PICK j \in i .. Len(w) :
        Bad(obj, c, w, j) /\ u = SubSeq(w, i, Len(w)) /\ ReadsAt(obj, pc[p], c, l, w, i)
  BY <1>3
<1>5. pc[p] = "return" /\ Agrees(p)  BY <1>2 DEF Close, Passes, V
<1>6. PICK f : f = Look(obj, c.key)[w[2]]  OBVIOUS
<1>7. /\ l.hv = Hash[c.key] /\ w[2] \in Places(obj) /\ w[1] = l.hv
      /\ \/ c.op = "get" /\ f = 0 /\ i = 3 /\ l.ret = 0
         \/ c.op = "get" /\ f # 0 /\ i = 5 /\ l.ret = w[4]
         \/ c.op = "set" /\ f = 0 /\ i = 12 /\ l.ret = kCreated
         \/ c.op = "set" /\ f # 0 /\ i = 9 /\ l.ret = kStored
  BY <1>4, <1>5, <1>6 DEF ReadsAt
<1>8. Args(p) = <<l.ret>>  BY <1>1, <1>5, ArgsAre
<1>9. w[i] = l.ret
  <2>1. IsPrefix(<<l.ret>>, u)  BY <1>1, <1>5, <1>8 DEF Agrees
  <2>2. u[1] = l.ret  BY <1>2, <2>1, Leads
  <2> QED  BY <1>4, <2>2, ReadsFirst
<1>10. j \in Nat /\ i <= j /\ j # 1  BY <1>7
<1>11. j \in {1, 3, 4, 5, 6, 9, 12}  BY <1>4, <1>10, WhatIsBad
<1>12. CASE c.op = "get" /\ f = 0 /\ i = 3 /\ l.ret = 0
  <2>1. Look(obj, c.key)[w[2]] = 0 /\ Bad(obj, c, w, j)  BY <1>4, <1>6, <1>12
  <2>2. /\ j = 3 => w[3] # 0
        /\ j # 3 => c.op = "set"
    BY ONLY <1>10, <2>1, BadMissed
  <2> QED  BY <1>9, <1>12, <2>2
<1>13. CASE c.op = "get" /\ f # 0 /\ i = 5 /\ l.ret = w[4]
  <2>1. \/ j = 3
        \/ j = 5 /\ w[5] # w[4]
        \/ c.op = "set"
    BY <1>4, <1>6, <1>10, <1>13, BadFound
  <2> QED  BY <1>9, <1>10, <1>13, <2>1
<1>14. CASE c.op = "set" /\ f = 0 /\ i = 12 /\ l.ret = kCreated
  <2>1. Look(obj, c.key)[w[2]] = 0 /\ Bad(obj, c, w, j)  BY <1>4, <1>6, <1>14
  <2>2. j = 12  BY <1>10, <1>11, <1>14
  <2>3. w[12] # kCreated  BY ONLY <1>10, <2>1, <2>2, BadMissed
  <2> QED  BY <1>9, <1>14, <2>3
<1>15. CASE c.op = "set" /\ f # 0 /\ i = 9 /\ l.ret = kStored
  <2>1. \/ j = 3 \/ j = 6 \/ c.op = "get"
        \/ j = 9 /\ w[9] # kStored
    BY <1>4, <1>6, <1>10, <1>15, BadFound
  <2> QED  BY <1>9, <1>10, <1>15, <2>1
<1> QED  BY <1>7, <1>12, <1>13, <1>14, <1>15

\* A replay that has a bad word before it still has, until it is reported.
LEMMA ReadsOn ==
  ASSUME WildInv, NEW t \in App, NEW p, p = V(t), Reads(obj, pc[p], call[p], loc[p], log[p]),
         ClosureStep(p)
  PROVE  Reads(obj, pc'[p], call[p], loc'[p], log'[p])
BY ReadsLock, ReadsHead, ReadsWalk, ReadsLoad, ReadsNewCell, ReadsMakeVal, ReadsStore,
   ReadsMakeEntry, ReadsLink, ReadsUnlock DEF ClosureStep

\* The log that is opened, and those that stay.
LEMMA Opened ==
  ASSUME WildInv, NEW t \in App, NEW w, w = pending[t], w # << >>
  PROVE  /\ w[1] \in [call : Asked, struck : BOOLEAN, words : Seq(Word)] /\ 1 \in DOMAIN w
         /\ Head(w) = w[1]
         /\ \A i \in DOMAIN Tail(w) : i + 1 \in DOMAIN w /\ Tail(w)[i] = w[i + 1]
         /\ \A i \in DOMAIN w : i = 1 \/ (i - 1 \in DOMAIN Tail(w) /\ w[i] = Tail(w)[i - 1])
<1>1. PICK S : S = [call : Asked, struck : BOOLEAN, words : Seq(Word)]  OBVIOUS
<1>2. w \in Seq(S)  BY <1>1 DEF WildInv
<1>3. Len(w) \in Nat /\ DOMAIN w = 1 .. Len(w) /\ Len(w) >= 1  BY <1>2
<1>4. Tail(w) \in Seq(S) /\ Len(Tail(w)) = Len(w) - 1 /\ Head(w) = w[1]
  BY ONLY <1>2, <1>3
<1>5. PICK x : x = Tail(w)  OBVIOUS
<1>6. DOMAIN x = 1 .. Len(w) - 1  BY <1>3, <1>4, <1>5
<1>7. \A i \in 1 .. Len(w) - 1 : x[i] = w[i + 1]  BY ONLY <1>2, <1>3, <1>5
<1>8. w[1] \in S /\ 1 \in DOMAIN w  BY <1>2, <1>3
<1>9. ASSUME NEW i \in DOMAIN w, i # 1 PROVE i - 1 \in DOMAIN x /\ w[i] = x[i - 1]
  <2>1. i - 1 \in 1 .. Len(w) - 1 /\ (i - 1) + 1 = i  BY <1>3, <1>9
  <2> QED  BY <1>6, <1>7, <2>1
<1>10. \A i \in DOMAIN x : i + 1 \in DOMAIN w /\ x[i] = w[i + 1]  BY <1>3, <1>6, <1>7
<1> QED  BY <1>1, <1>4, <1>5, <1>8, <1>9, <1>10

\* A validator's step leaves others as struck as they were.
LEMMA DoomValFrame ==
  ASSUME WildInv, DoomInv, NEW t \in App, obj' = obj,
         \A u \in App : /\ pc'[A(u)] = pc[A(u)] /\ call'[A(u)] = call[A(u)]
                        /\ loc'[A(u)] = loc[A(u)] /\ log'[A(u)] = log[A(u)]
                        /\ struck'[A(u)] = struck[A(u)],
         \A u \in App : u # t =>
           /\ pc'[V(u)] = pc[V(u)] /\ call'[V(u)] = call[V(u)]
           /\ loc'[V(u)] = loc[V(u)] /\ log'[V(u)] = log[V(u)]
           /\ struck'[V(u)] = struck[V(u)],
         struck'[V(t)] => Reads(obj, pc'[V(t)], call'[V(t)], loc'[V(t)], log'[V(t)]),
         \A u \in App : \A i \in DOMAIN pending'[u] :
           \E j \in DOMAIN pending[u] : pending'[u][i] = pending[u][j]
  PROVE  DoomInv'
<1>1. ASSUME NEW u \in App, struck'[A(u)]
      PROVE  /\ pc'[A(u)] \notin {"idle", "lock"}
             /\ Astray(obj', pc'[A(u)], call'[A(u)], loc'[A(u)], log'[A(u)])
  <2>1. PICK q : q = A(u)  OBVIOUS
  <2>2. /\ pc'[q] = pc[q] /\ call'[q] = call[q] /\ loc'[q] = loc[q] /\ log'[q] = log[q]
        /\ struck[q]
    BY <1>1, <2>1
  <2>3. pc[q] \notin {"idle", "lock"} /\ Astray(obj, pc[q], call[q], loc[q], log[q])
    BY <2>1, <2>2 DEF DoomInv
  <2> QED  BY <2>1, <2>2, <2>3
<1>2. ASSUME NEW u \in App, struck'[V(u)]
      PROVE  Reads(obj', pc'[V(u)], call'[V(u)], loc'[V(u)], log'[V(u)])
  <2>1. CASE u = t  BY <1>2, <2>1
  <2>2. CASE u # t
    <3>1. PICK q : q = V(u)  OBVIOUS
    <3>2. /\ pc'[q] = pc[q] /\ call'[q] = call[q] /\ loc'[q] = loc[q] /\ log'[q] = log[q]
          /\ struck[q]
      BY <1>2, <2>2, <3>1
    <3>3. Reads(obj, pc[q], call[q], loc[q], log[q])  BY <3>1, <3>2 DEF DoomInv
    <3> QED  BY <3>1, <3>2, <3>3
  <2> QED  BY <2>1, <2>2
<1>3. ASSUME NEW u \in App, NEW i \in DOMAIN pending'[u], pending'[u][i].struck
      PROVE  Doomed(obj', pending'[u][i].call, pending'[u][i].words)
  <2>1. PICK j \in DOMAIN pending[u] : pending'[u][i] = pending[u][j]  OBVIOUS
  <2>2. pending[u][j].struck => Doomed(obj, pending[u][j].call, pending[u][j].words)
    BY DEF DoomInv
  <2> QED  BY <1>3, <2>1, <2>2
<1> QED  BY <1>1, <1>2, <1>3 DEF DoomInv

\* A struck log is opened.
LEMMA ReadsOpen ==
  ASSUME WildInv, DoomInv, NEW t \in App, NEW p, p = V(t), Open(t), struck'[p]
  PROVE  Reads(obj, pc'[p], call'[p], loc'[p], log'[p])
<1>1. /\ p \in Proc /\ DOMAIN pc = Proc /\ DOMAIN call = Proc /\ DOMAIN loc = Proc
      /\ DOMAIN log = Proc /\ DOMAIN struck = Proc
  BY Procs DEF WildInv, Shape
<1>2. PICK x : x = pending[t]  OBVIOUS
<1>3. PICK h : h = Head(x)  OBVIOUS
<1>4. /\ pc[p] = "idle" /\ x # << >> /\ loc' = loc
      /\ call' = [call EXCEPT ![p] = h.call] /\ log' = [log EXCEPT ![p] = h.words]
      /\ struck' = [struck EXCEPT ![p] = h.struck] /\ pc' = [pc EXCEPT ![p] = "lock"]
  BY <1>2, <1>3 DEF Open, Goto, V
<1>5. 1 \in DOMAIN x /\ h = x[1] /\ h \in [call : Asked, struck : BOOLEAN, words : Seq(Word)]
  BY <1>2, <1>3, <1>4, Opened
<1>6. PICK c, w : c = h.call /\ w = h.words  OBVIOUS
<1>7. c \in Asked /\ w \in Seq(Word) /\ h.struck
  <2>1. struck'[p] = h.struck  BY <1>1, <1>4
  <2> QED  BY <1>5, <1>6, <2>1
<1>8. Doomed(obj, c, w)  BY <1>2, <1>5, <1>6, <1>7 DEF DoomInv
<1>9. PICK j \in 1 .. Len(w) : Bad(obj, c, w, j)  BY <1>8 DEF Doomed
<1>10. loc[p] = Fresh  BY <1>4 DEF WildInv
<1>11. Fresh \in Locals /\ Fresh.ret = 0
  <2>1. 0 \in Word  BY DEF Word, Addr
  <2> QED  BY <2>1 DEF Fresh, Locals
<1>12. w = SubSeq(w, 1, Len(w))
  <2>1. 1 \in 1 .. Len(w) /\ Len(w) = Len(w) - 1 + 1 /\ \A k \in 1 .. Len(w) : w[k] = w[k + 1 - 1]
    BY <1>7, <1>9
  <2> QED  BY <1>7, <2>1, Rest
<1>13. ReadsAt(obj, "lock", c, Fresh, w, 1)  BY <1>11 DEF ReadsAt
<1>14. Reads(obj, "lock", c, Fresh, w)
  <2>1. 1 \in 1 .. 12 /\ j \in 1 .. Len(w)  OBVIOUS
  <2> QED  BY <1>7, <1>9, <1>11, <1>12, <1>13, <2>1 DEF Reads
<1>15. pc'[p] = "lock" /\ call'[p] = c /\ loc'[p] = Fresh /\ log'[p] = w
  BY <1>1, <1>4, <1>6, <1>10
<1> QED  BY <1>14, <1>15

\* Steps of validators after a fault.
LEMMA DoomVal ==
  ASSUME WildInv, DoomInv, hit, Suspect, NEW t \in App, ValStep(t)
  PROVE  reported' \/ (hit' /\ WildInv' /\ DoomInv' /\ Suspect')
<1>1. PICK p : p = V(t)  OBVIOUS
<1>2. /\ p \in Proc /\ p[2] = "val" /\ p[2] # "app" /\ struck \in [Proc -> BOOLEAN]
      /\ DOMAIN pc = Proc /\ DOMAIN call = Proc /\ DOMAIN loc = Proc /\ DOMAIN log = Proc
      /\ \A u \in App : A(u) \in Proc /\ V(u) \in Proc /\ A(u) # p /\ (u # t => V(u) # p)
  <2>1. \A u \in App : A(u) # p /\ (u # t => V(u) # p)  BY <1>1 DEF A, V
  <2> QED  BY <1>1, <2>1, Procs DEF WildInv, Shape
<1>3. /\ WildInv' /\ obj' = obj
      /\ \A u \in App : /\ pc'[A(u)] = pc[A(u)] /\ call'[A(u)] = call[A(u)]
                        /\ loc'[A(u)] = loc[A(u)] /\ log'[A(u)] = log[A(u)]
      /\ hit' = hit
      /\ \A u \in App : u # t => pending'[u] = pending[u]
  BY WildVal
<1>4. struck[p] => Reads(obj, pc[p], call[p], loc[p], log[p])  BY <1>1 DEF DoomInv
<1>5. CASE Open(t)
  <2>1. PICK x : x = pending[t]  OBVIOUS
  <2>2. /\ pc[p] = "idle" /\ x # << >> /\ loc' = loc
        /\ \E c, w : call' = [call EXCEPT ![p] = c] /\ log' = [log EXCEPT ![p] = w]
        /\ struck' = [struck EXCEPT ![p] = Head(x).struck] /\ pc' = [pc EXCEPT ![p] = "lock"]
        /\ pending' = [pending EXCEPT ![t] = Tail(pending[t])]
    BY <1>1, <1>5, <2>1 DEF Open, Goto, V
  <2>3. ~struck[p]  BY <1>4, <2>2 DEF Reads
  <2>4. /\ 1 \in DOMAIN x /\ Head(x) = x[1]
        /\ \A i \in DOMAIN Tail(x) : i + 1 \in DOMAIN x /\ Tail(x)[i] = x[i + 1]
        /\ \A i \in DOMAIN x : i = 1 \/ (i - 1 \in DOMAIN Tail(x) /\ x[i] = Tail(x)[i - 1])
    BY <2>1, <2>2, Opened
  <2>5. pending'[t] = Tail(x)
    <3>1. t \in DOMAIN pending  BY DEF WildInv
    <3> QED  BY <2>1, <2>2, <3>1
  <2>6. \A q \in Proc : q # p => /\ pc'[q] = pc[q] /\ call'[q] = call[q]
                                 /\ loc'[q] = loc[q] /\ log'[q] = log[q]
                                 /\ struck'[q] = struck[q]
    BY <1>2, <2>2
  <2>7. struck'[p] => Reads(obj, pc'[p], call'[p], loc'[p], log'[p])  BY <1>1, <1>5, ReadsOpen
  <2>8. ASSUME NEW u \in App, NEW i \in DOMAIN pending'[u]
        PROVE  \E j \in DOMAIN pending[u] : pending'[u][i] = pending[u][j]
    <3>1. CASE u = t
      <4>1. PICK y : y = Tail(x)  OBVIOUS
      <4>2. pending'[u] = y /\ pending[u] = x  BY <2>1, <2>5, <3>1, <4>1
      <4>3. i \in DOMAIN y  BY <2>8, <4>2
      <4>4. i + 1 \in DOMAIN x /\ y[i] = x[i + 1]  BY <2>4, <4>1, <4>3
      <4> QED  BY <4>2, <4>4
    <3>2. CASE u # t  BY <1>3, <2>8, <3>2
    <3> QED  BY <3>1, <3>2
  <2>9. DoomInv'
    <3>1. \A u \in App : struck'[A(u)] = struck[A(u)]  BY <1>2, <2>6
    <3>2. \A u \in App : u # t =>
            /\ pc'[V(u)] = pc[V(u)] /\ call'[V(u)] = call[V(u)]
            /\ loc'[V(u)] = loc[V(u)] /\ log'[V(u)] = log[V(u)]
            /\ struck'[V(u)] = struck[V(u)]
      BY <1>2, <2>6
    <3> QED  BY <1>1, <1>3, <2>7, <2>8, <3>1, <3>2, DoomValFrame
  <2>10. Suspect'
    <3>1. CASE \E q \in Proc : struck[q]
      <4>1. PICK q \in Proc : struck[q]  BY <3>1
      <4>2. struck'[q]  BY <2>3, <2>6, <4>1
      <4> QED  BY <4>2, SuspectWillBe
    <3>2. CASE \E u \in App : \E i \in DOMAIN pending[u] : pending[u][i].struck
      <4>1. PICK u, i : u \in App /\ i \in DOMAIN pending[u] /\ pending[u][i].struck  BY <3>2
      <4>2. CASE u # t  BY <1>3, <4>1, <4>2, SuspectWillBe
      <4>3. CASE u = t
        <5>1. CASE i = 1
          <6>1. struck'[p]  BY <1>2, <2>1, <2>2, <2>4, <4>1, <4>3, <5>1
          <6> QED  BY <1>2, <6>1, SuspectWillBe
        <5>2. CASE i # 1
          <6>1. i - 1 \in DOMAIN pending'[t] /\ pending'[t][i - 1].struck
            BY <2>1, <2>4, <2>5, <4>1, <4>3, <5>2
          <6> QED  BY <6>1, SuspectWillBe
        <5> QED  BY <5>1, <5>2
      <4> QED  BY <4>2, <4>3
    <3> QED  BY <3>1, <3>2, SuspectIs
  <2> QED  BY <1>3, <2>9, <2>10
<1>6. CASE ClosureStep(p)
  <2>1. Steps(p)
    <3>1. Shape  BY DEF WildInv
    <3> QED  BY <1>2, <1>6, <3>1, ClosureSteps
  <2>2. struck' = struck /\ pending' = pending /\ call' = call /\ Alone(p)
    BY <1>2, <2>1 DEF Steps, Strikes
  <2>3. struck'[p] => Reads(obj, pc'[p], call'[p], loc'[p], log'[p])
    BY <1>1, <1>4, <1>6, <2>2, ReadsOn
  <2>4. DoomInv'
    <3>1. \A u \in App : struck'[A(u)] = struck[A(u)]  BY <2>2
    <3>2. \A u \in App : u # t =>
            /\ pc'[V(u)] = pc[V(u)] /\ call'[V(u)] = call[V(u)]
            /\ loc'[V(u)] = loc[V(u)] /\ log'[V(u)] = log[V(u)]
            /\ struck'[V(u)] = struck[V(u)]
      BY <1>2, <2>2 DEF Alone
    <3>3. \A u \in App : \A i \in DOMAIN pending'[u] :
            \E j \in DOMAIN pending[u] : pending'[u][i] = pending[u][j]
      BY <2>2
    <3> QED  BY <1>1, <1>3, <2>3, <3>1, <3>2, <3>3, DoomValFrame
  <2>5. Suspect'  BY <2>2, SuspectIs, SuspectWillBe
  <2> QED  BY <1>3, <2>4, <2>5
<1>7. CASE Close(t)
  <2>1. ~struck[p]  BY <1>1, <1>4, <1>7, ReadsClose
  <2>2. /\ struck' = [struck EXCEPT ![p] = FALSE] /\ pending' = pending
        /\ pc' = [pc EXCEPT ![p] = "idle"] /\ call' = [call EXCEPT ![p] = NoCall]
        /\ loc' = [loc EXCEPT ![p] = Fresh] /\ log' = [log EXCEPT ![p] = << >>]
    BY <1>1, <1>7 DEF Close, Goto, V
  <2>3. \A q \in Proc : q # p => /\ pc'[q] = pc[q] /\ call'[q] = call[q]
                                 /\ loc'[q] = loc[q] /\ log'[q] = log[q]
                                 /\ struck'[q] = struck[q]
    BY <1>2, <2>2
  <2>4. ~struck'[p]  BY <1>2, <2>2
  <2>5. DoomInv'
    <3>1. \A u \in App : struck'[A(u)] = struck[A(u)]  BY <1>2, <2>3
    <3>2. \A u \in App : u # t =>
            /\ pc'[V(u)] = pc[V(u)] /\ call'[V(u)] = call[V(u)]
            /\ loc'[V(u)] = loc[V(u)] /\ log'[V(u)] = log[V(u)]
            /\ struck'[V(u)] = struck[V(u)]
      BY <1>2, <2>3
    <3>3. \A u \in App : \A i \in DOMAIN pending'[u] :
            \E j \in DOMAIN pending[u] : pending'[u][i] = pending[u][j]
      BY <2>2
    <3> QED  BY <1>1, <1>3, <2>4, <3>1, <3>2, <3>3, DoomValFrame
  <2>6. Suspect'
    <3>1. CASE \E q \in Proc : struck[q]
      <4>1. PICK q \in Proc : struck[q]  BY <3>1
      <4>2. struck'[q]  BY <2>1, <2>3, <4>1
      <4> QED  BY <4>2, SuspectWillBe
    <3>2. CASE \E u \in App : \E i \in DOMAIN pending[u] : pending[u][i].struck
      BY <2>2, <3>2, SuspectWillBe
    <3> QED  BY <3>1, <3>2, SuspectIs
  <2> QED  BY <1>3, <2>5, <2>6
<1>8. CASE Report(t)  BY <1>8 DEF Report
<1> QED  BY <1>1, <1>5, <1>6, <1>7, <1>8 DEF ValStep, V

-----------------------------------------------------------------------------
(* The closure that a fault strikes. *)

\* The words that are computed from what make_obj has made, or logged last.
LEMMA BadSums ==
  ASSUME NEW m, NEW c, NEW w, Len(w) \in Nat, NEW f, w[2] \in Places(m),
         f = Look(m, c.key)[w[2]]
  PROVE  /\ 5 <= Len(w) /\ f # 0 /\ c.op = "get" /\ w[5] # w[4] => Doomed(m, c, w)
         /\ 5 <= Len(w) /\ f = 0 /\ c.op = "set" /\ w[5] \in DOMAIN m /\ m[w[5]].sum # c.val
              => Doomed(m, c, w)
         /\ 6 <= Len(w) /\ f # 0 /\ c.op = "set" /\ w[6] \in DOMAIN m /\ m[w[6]].sum # c.val
              => Doomed(m, c, w)
         /\ 9 <= Len(w) /\ f # 0 /\ c.op = "set" /\ w[9] # kStored => Doomed(m, c, w)
         /\ 12 <= Len(w) /\ f = 0 /\ c.op = "set" /\ w[12] # kCreated => Doomed(m, c, w)
<1>1. \A j \in Nat : 1 <= j /\ j <= Len(w) /\ Bad(m, c, w, j) => Doomed(m, c, w)  BY DEF Doomed
<1>2. ASSUME 5 <= Len(w), f # 0, c.op = "get", w[5] # w[4] PROVE Doomed(m, c, w)
  <2>1. Bad(m, c, w, 5)  BY <1>2 DEF Bad
  <2> QED  BY <1>1, <1>2, <2>1
<1>3. ASSUME 5 <= Len(w), f = 0, c.op = "set", w[5] \in DOMAIN m, m[w[5]].sum # c.val
      PROVE  Doomed(m, c, w)
  <2>1. Bad(m, c, w, 5)  BY <1>3 DEF Bad
  <2> QED  BY <1>1, <1>3, <2>1
<1>4. ASSUME 6 <= Len(w), f # 0, c.op = "set", w[6] \in DOMAIN m, m[w[6]].sum # c.val
      PROVE  Doomed(m, c, w)
  <2>1. Bad(m, c, w, 6)  BY <1>4 DEF Bad
  <2> QED  BY <1>1, <1>4, <2>1
<1>5. ASSUME 9 <= Len(w), f # 0, c.op = "set", w[9] # kStored PROVE Doomed(m, c, w)
  <2>1. Bad(m, c, w, 9)  BY <1>5 DEF Bad
  <2> QED  BY <1>1, <1>5, <2>1
<1>6. ASSUME 12 <= Len(w), f = 0, c.op = "set", w[12] # kCreated PROVE Doomed(m, c, w)
  <2>1. Bad(m, c, w, 12)  BY <1>6 DEF Bad
  <2> QED  BY <1>1, <1>6, <2>1
<1> QED  BY <1>2, <1>3, <1>4, <1>5, <1>6

\* The entry's checksum.
LEMMA BadEntrySum ==
  ASSUME NEW m, NEW c, NEW w, Len(w) \in Nat, w[2] \in Places(m),
         Look(m, c.key)[w[2]] = 0, 9 <= Len(w), c.op = "set", w[9] \in DOMAIN m,
         m[w[9]].sum # [key |-> c.key, cell |-> w[3], next |-> w[2]]
  PROVE  Doomed(m, c, w)
<1>1. Bad(m, c, w, 9)  BY DEF Bad
<1> QED  BY <1>1 DEF Doomed

\* A step that is the first to be struck.
LEMMA Noticed ==
  ASSUME ~hit, hit', NEW p, NEW f \in BOOLEAN, Note(p, f)
  PROVE  f
BY DEF Note

\* What is known of a closure of the application that nothing has struck.
LEMMA RightApp ==
  ASSUME RightInv, NEW t \in App, NEW p, p = A(t)
  PROVE  /\ WildInv /\ p \in Proc /\ p[1] = t /\ p[2] = "app"
         /\ LocalsAt(obj, pc[p], call[p], loc[p])
         /\ WroteAt(obj, pc[p], call[p], loc[p], log[p])
         /\ HoldsAt(cell, obj, lock, pc[p], call[p], loc[p], t)
         /\ ObjInv(obj, top) /\ HeapInv(obj, top) /\ CellInv(cell, obj, top)
<1>1. WildInv  BY RightIsWild
<1>2. p \in Proc /\ p[1] = t /\ p[2] = "app"  BY Procs DEF A
<1> QED  BY <1>1, <1>2, ProcFacts DEF RightInv, WildInv

\* Its hash.
LEMMA StruckLock ==
  ASSUME RightInv, ~hit, hit', NEW t \in App, NEW p, p = A(t), Lock(p)
  PROVE  Astray(obj', pc'[p], call[p], loc'[p], log'[p])
<1> USE RightApp, WildFacts
<1>1. PICK o \in Outcomes(p, Hash[call[p].key], Wrong("hash", Bucket)) :
        loc' = [loc EXCEPT ![p].hv = o[1]] /\ Note(p, o[2])
  BY DEF Lock
<1>2. o[1] # Hash[call[p].key]  BY <1>1, OutcomeIs, Noticed
<1>3. pc' = [pc EXCEPT ![p] = "head"]  BY DEF Lock, Goto
<1>4. PICK l : l = [loc[p] EXCEPT !.hv = o[1]]  OBVIOUS
<1>5. pc'[p] = "head" /\ loc'[p] = l  BY <1>1, <1>3, <1>4
<1>6. l.hv # Hash[call[p].key]  BY <1>2, <1>4 DEF Locals
<1> QED  BY <1>5, <1>6 DEF Astray

\* Its search, which takes an entry for another, or the wrong cell from it.
LEMMA StruckFind ==
  ASSUME RightInv, ~hit, hit', NEW t \in App, NEW p, p = A(t), Find(p)
  PROVE  Astray(obj', pc'[p], call[p], loc'[p], log'[p])
<1> USE RightApp, WildFacts
<1>1. PICK e : e = obj[loc[p].at].data  OBVIOUS
<1>2. PICK b \in Outcomes(p, e.key = call[p].key, Wrong("branch", BOOLEAN)),
           o \in Outcomes(p, e.cell, Wrong("address", ValueCells)) :
        /\ b[1] /\ ~(b[2] /\ o[2])
        /\ loc' = [loc EXCEPT ![p].dest = o[1]]
        /\ Note(p, b[2] \/ o[2])
  BY ONLY Find(p), <1>1 DEF Find
<1>3. /\ pc[p] = "walk" /\ loc[p].at # 0 /\ pc' = [pc EXCEPT ![p] = "load"]
      /\ obj' = obj /\ log' = log
  BY DEF Find, Goto, memVars
<1>4. PICK f : f = Found(obj, call[p], loc[p])  OBVIOUS
<1>5. /\ f # 0 => /\ obj[f].data.key = call[p].key /\ f \in EntriesIn(obj)
                  /\ \A d \in EntriesIn(obj) : CellOf(obj, d) = CellOf(obj, f) => d = f
      /\ call[p].key \in Key
  BY <1>3, <1>4, FoundIs DEF LocalsWild, Asked, Call
<1>6. /\ loc[p].at \in EntriesIn(obj) /\ loc[p].hv = Hash[call[p].key]
      /\ Look(obj, call[p].key)[loc[p].at] = f /\ log[p] = <<Hash[call[p].key], loc[p].head>>
  BY <1>3, <1>4 DEF LocalsAt, WroteAt, Places
<1>7. e.key = call[p].key => f = loc[p].at
  BY <1>1, <1>5, <1>6, HeapLook
<1>8. e.cell = CellOf(obj, loc[p].at)  BY <1>1 DEF CellOf
<1>9. f # 0 => o[1] # CellOf(obj, f)
  <2>1. (b[2] \/ o[2]) \in BOOLEAN /\ b[2] \in BOOLEAN /\ o[2] \in BOOLEAN
    BY OutcomeIs
  <2>2. b[2] \/ o[2]  BY <1>2, <2>1, Noticed
  <2>3. CASE b[2]
    <3>1. ~o[2] /\ o[1] = e.cell  BY <1>2, <2>3, OutcomeIs
    <3>2. b[1] # (e.key = call[p].key) /\ b[1] \in BOOLEAN
      <4>1. b[1] # (e.key = call[p].key) /\ b[1] \in Wrong("branch", BOOLEAN)
        BY <2>3, OutcomeIs
      <4> QED  BY <4>1 DEF Wrong
    <3>3. e.key # call[p].key  BY <1>2, <3>2
    <3>4. f # 0 => f # loc[p].at  BY <1>1, <1>5, <3>3
    <3> QED  BY <1>5, <1>6, <1>8, <3>1, <3>4
  <2>4. CASE o[2] /\ ~b[2]
    <3>1. o[1] # e.cell  BY <2>4, OutcomeIs
    <3>2. b[1] = (e.key = call[p].key)  BY <2>4, OutcomeIs
    <3>3. e.key = call[p].key  BY <1>2, <3>2
    <3> QED  BY <1>7, <1>8, <3>1, <3>3
  <2> QED  BY <2>1, <2>2, <2>3, <2>4
<1>10. PICK l : l = [loc[p] EXCEPT !.dest = o[1]]  OBVIOUS
<1>11. pc'[p] = "load" /\ loc'[p] = l /\ log'[p] = log[p]  BY <1>2, <1>3, <1>10
<1>12. l.dest = o[1] /\ l.head = loc[p].head  BY <1>10 DEF Locals
<1>13. Found(obj, call[p], l) = f  BY <1>4, <1>12 DEF Found
<1>14. Astray(obj, "load", call[p], l, log[p])  BY <1>6, <1>9, <1>12, <1>13 DEF Astray
<1> QED  BY <1>3, <1>11, <1>14

\* Its search, which passes by the entry.
LEMMA StruckSkip ==
  ASSUME RightInv, ~hit, hit', NEW t \in App, NEW p, p = A(t), Skip(p)
  PROVE  Astray(obj', pc'[p], call[p], loc'[p], log'[p])
<1> USE RightApp, WildFacts
<1>1. PICK e : e = obj[loc[p].at].data  OBVIOUS
<1>2. PICK b \in Outcomes(p, e.key = call[p].key, Wrong("branch", BOOLEAN)) :
        ~b[1] /\ loc' = [loc EXCEPT ![p].at = e.next] /\ Note(p, b[2])
  BY ONLY Skip(p), <1>1 DEF Skip
<1>3. pc[p] = "walk" /\ loc[p].at # 0 /\ pc' = pc /\ obj' = obj /\ log' = log
  BY DEF Skip, memVars
<1>4. PICK f : f = Found(obj, call[p], loc[p])  OBVIOUS
<1>5. /\ loc[p].at \in EntriesIn(obj) /\ loc[p].hv = Hash[call[p].key]
      /\ Look(obj, call[p].key)[loc[p].at] = f /\ log[p] = <<Hash[call[p].key], loc[p].head>>
      /\ call[p].key \in Key
  BY <1>3, <1>4 DEF LocalsAt, WroteAt, Places, Asked, Call
<1>6. e.key = call[p].key
  <2>1. b[2] \in BOOLEAN  BY OutcomeIs
  <2>2. b[2]  BY <1>2, <2>1, Noticed
  <2>3. b[1] # (e.key = call[p].key) /\ b[1] \in Wrong("branch", BOOLEAN)  BY <2>2, OutcomeIs
  <2>4. b[1] \in BOOLEAN  BY <2>3 DEF Wrong
  <2> QED  BY <1>2, <2>3, <2>4
<1>7. f = loc[p].at  BY <1>1, <1>5, <1>6, HeapLook
<1>8. e.next < f /\ f # 0  BY <1>1, <1>3, <1>5, <1>7 DEF HeapInv
<1>9. PICK l : l = [loc[p] EXCEPT !.at = e.next]  OBVIOUS
<1>10. pc'[p] = "walk" /\ loc'[p] = l /\ log'[p] = log[p]  BY <1>2, <1>3, <1>9
<1>11. l.at = e.next /\ l.head = loc[p].head  BY <1>9 DEF Locals
<1>12. Found(obj, call[p], l) = f  BY <1>4, <1>11 DEF Found
<1>13. Astray(obj, "walk", call[p], l, log[p])  BY <1>5, <1>8, <1>11, <1>12 DEF Astray
<1> QED  BY <1>3, <1>10, <1>13

\* The value it makes.
LEMMA StruckMakeVal ==
  ASSUME RightInv, Faults \subseteq Detectable, ~hit, hit', NEW t \in App, NEW p, p = A(t),
         MakeVal(p)
  PROVE  Doomed(obj', call[p], log'[p])
<1> USE RightApp, WildFacts
<1>1. PICK v, wrongs, o :
        /\ v = call[p].val
        /\ wrongs = Wrong("value", {[data |-> w, sum |-> w] : w \in Val})
              \cup Wrong("copy",  {[data |-> w, sum |-> v] : w \in Val})
              \cup Wrong("sum",   {[data |-> v, sum |-> w] : w \in Val})
        /\ o \in Outcomes(p, [data |-> v, sum |-> v], wrongs)
        /\ obj' = Extend(obj, top + 1, o[1]) /\ Note(p, o[2])
  <2>1. p[2] = "app"  OBVIOUS
  <2> QED  BY ONLY MakeVal(p), <2>1 DEF MakeVal, Allocated
<1>2. pc[p] = "makeVal" /\ Logged(p, <<top + 1>>)  BY DEF MakeVal, Allocated
<1>3. "copy" \notin Faults  BY DEF Detectable
<1>4. \A r \in wrongs : r # [data |-> v, sum |-> v] => r.sum # v
  BY <1>1, <1>3 DEF Wrong
<1>5. o[1] \in wrongs /\ o[1] # [data |-> v, sum |-> v]  BY <1>1, OutcomeIs, Noticed
<1>6. PICK a, m, c, h, b, d :
        /\ a = top + 1 /\ m = obj' /\ c = call[p] /\ h = loc[p].head /\ b = loc[p].hv
        /\ d = loc[p].dest
  OBVIOUS
<1>7. a \in DOMAIN m /\ m[a].sum # c.val
  <2>1. a \in DOMAIN m /\ m[a] = o[1]  BY <1>1, <1>6 DEF Extend
  <2> QED  BY <1>1, <1>4, <1>5, <1>6, <2>1
<1>8. Grows(obj, m) /\ EntriesIn(m) = EntriesIn(obj)  BY <1>6, WildValue
<1>9. c \in Asked /\ c.op = "set" /\ h \in Places(obj) /\ h \in Places(m)
  BY <1>2, <1>6, <1>8 DEF LocalsWild, Places
<1>10. PICK f : f = Look(m, c.key)[h]  OBVIOUS
<1>11. f # 0 <=> Hit(obj, c, loc[p])
  BY <1>6, <1>8, <1>9, <1>10, FoundKept DEF Hit, Found
<1>12. PICK x, y : x = <<SizeOfVal>> /\ y = <<a>>  OBVIOUS
<1>13. log'[p] = log[p] \o x \o y
  <2>1. a \in Word /\ SizeOfVal \in Word  BY <1>6 DEF HeapInv, Word, Addr
  <2>2. Args(p) = x /\ x \in Seq(Word) /\ y \in Seq(Word) /\ Logged(p, y)
    BY <1>2, <1>6, <1>12, <2>1, ArgsAre
  <2>3. Joins(log'[p], log[p], x, y)
    BY ONLY WildInv, RightInv, RightIsWild, t \in App, p = A(t), <2>2, WildJoins
  <2> QED  BY <2>3 DEF Joins
<1>14. /\ \/ loc[p].ret = kStored /\ Hit(obj, c, loc[p])
          \/ loc[p].ret = kCreated /\ ~Hit(obj, c, loc[p])
       /\ \/ loc[p].ret = kStored /\ \E o1 \in Addr : log[p] = <<b, h, d, o1>>
          \/ loc[p].ret = kCreated /\ log[p] = <<b, h, d>>
  BY <1>2, <1>6 DEF LocalsAt, WroteAt
<1>15. CASE f # 0
  <2>1. PICK o1 : log[p] = <<b, h, d, o1>>  BY <1>11, <1>14, <1>15, WordsDiffer
  <2>2. PICK w : w = <<b, h, d, o1, SizeOfVal, a>>  OBVIOUS
  <2>3. log'[p] = w
    <3>1. <<b, h, d, o1>> \o x \o y = w  BY <1>12, <2>2, Join4_1_1
    <3> QED  BY <1>13, <2>1, <3>1
  <2>4. Len(w) \in Nat /\ 6 <= Len(w) /\ w[2] = h /\ w[6] = a  BY <2>2
  <2>5. Doomed(m, c, w)
    <3>1. /\ w[2] \in Places(m) /\ f = Look(m, c.key)[w[2]]
          /\ w[6] \in DOMAIN m /\ m[w[6]].sum # c.val
      BY <1>7, <1>9, <1>10, <2>4
    <3> QED  BY ONLY <1>9, <1>15, <2>4, <3>1, BadSums
  <2> QED  BY <1>6, <2>3, <2>5
<1>16. CASE f = 0
  <2>1. log[p] = <<b, h, d>>  BY <1>11, <1>14, <1>16, WordsDiffer
  <2>2. PICK w : w = <<b, h, d, SizeOfVal, a>>  OBVIOUS
  <2>3. log'[p] = w
    <3>1. <<b, h, d>> \o x \o y = w  BY <1>12, <2>2, Join3_1_1
    <3> QED  BY <1>13, <2>1, <3>1
  <2>4. Len(w) \in Nat /\ 5 <= Len(w) /\ w[2] = h /\ w[5] = a  BY <2>2
  <2>5. Doomed(m, c, w)
    <3>1. /\ w[2] \in Places(m) /\ f = Look(m, c.key)[w[2]]
          /\ w[5] \in DOMAIN m /\ m[w[5]].sum # c.val
      BY <1>7, <1>9, <1>10, <2>4
    <3> QED  BY ONLY <1>9, <1>16, <2>4, <3>1, BadSums
  <2> QED  BY <1>6, <2>3, <2>5
<1> QED  BY <1>15, <1>16

\* The entry it makes.
LEMMA StruckMakeEntry ==
  ASSUME RightInv, Faults \subseteq Detectable, ~hit, hit', NEW t \in App, NEW p, p = A(t),
         MakeEntry(p)
  PROVE  Doomed(obj', call[p], log'[p])
<1> USE RightApp, WildFacts
<1>1. PICK e, others, wrongs, o :
        /\ e = NewEntry(p)
        /\ others = {[e EXCEPT !.key = k] : k \in Key \ {e.key}}
        /\ wrongs = Wrong("value", {[data |-> w, sum |-> w] : w \in others})
              \cup Wrong("sum",   {[data |-> e, sum |-> w] : w \in others})
        /\ o \in Outcomes(p, [data |-> e, sum |-> e], wrongs)
        /\ obj' = Extend(obj, top + 1, o[1]) /\ Note(p, o[2])
  <2>1. p[2] = "app"  OBVIOUS
  <2> QED  BY ONLY MakeEntry(p), <2>1 DEF MakeEntry, Allocated
<1>2. pc[p] = "makeEntry" /\ Logged(p, <<top + 1>>)  BY DEF MakeEntry, Allocated
<1>3. PICK a, m, c, h, b, d :
        /\ a = top + 1 /\ m = obj' /\ c = call[p] /\ h = loc[p].head /\ b = loc[p].hv
        /\ d = loc[p].dest
  OBVIOUS
<1>4. e = [key |-> c.key, cell |-> d, next |-> h]  BY <1>1, <1>3 DEF NewEntry
<1>5. \A w \in others : w # e  BY <1>1, <1>4
<1>6. \A r \in wrongs : r.sum # e  BY <1>1, <1>5 DEF Wrong
<1>7. o[1] \in wrongs  BY <1>1, OutcomeIs, Noticed
<1>8. a \in DOMAIN m /\ m[a].sum # [key |-> c.key, cell |-> d, next |-> h]
  <2>1. a \in DOMAIN m /\ m[a] = o[1]  BY <1>1, <1>3 DEF Extend
  <2> QED  BY <1>4, <1>6, <1>7, <2>1
<1>9. Grows(obj, m)  BY <1>3, WildApp DEF ClosureStep
<1>10. c \in Asked /\ c.op = "set" /\ h \in Places(obj)  BY <1>2, <1>3 DEF LocalsWild
<1>11. h \in Places(m)  BY <1>9, <1>10, Kept DEF Places
<1>12. Look(m, c.key)[h] = 0
  <2>1. ~Hit(obj, c, loc[p])  BY <1>2, <1>3 DEF LocalsAt
  <2> QED  BY <1>3, <1>9, <1>10, <2>1, FoundKept DEF Hit, Found
<1>13. PICK x, y : x = <<SizeOfEntry>> /\ y = <<a>>  OBVIOUS
<1>14. log'[p] = log[p] \o x \o y
  <2>1. a \in Word /\ SizeOfEntry \in Word  BY <1>3 DEF HeapInv, Word, Addr
  <2>2. Args(p) = x /\ x \in Seq(Word) /\ y \in Seq(Word) /\ Logged(p, y)
    BY <1>2, <1>3, <1>13, <2>1, ArgsAre
  <2>3. Joins(log'[p], log[p], x, y)
    BY ONLY RightInv, RightIsWild, t \in App, p = A(t), <2>2, WildJoins
  <2> QED  BY <2>3 DEF Joins
<1>15. PICK v : log[p] = <<b, h, d, SizeOfVal, v, d, v>>  BY <1>2, <1>3 DEF WroteAt
<1>16. PICK w : w = <<b, h, d, SizeOfVal, v, d, v, SizeOfEntry, a>>  OBVIOUS
<1>17. log'[p] = w
  <2>1. <<b, h, d, SizeOfVal, v, d, v>> \o x \o y = w  BY <1>13, <1>16, Join7_1_1
  <2> QED  BY <1>14, <1>15, <2>1
<1>18. Len(w) \in Nat /\ 9 <= Len(w) /\ w[2] = h /\ w[3] = d /\ w[9] = a  BY <1>16
<1>19. Doomed(m, c, w)
  <2>1. /\ w[2] \in Places(m) /\ Look(m, c.key)[w[2]] = 0 /\ w[9] \in DOMAIN m
        /\ m[w[9]].sum # [key |-> c.key, cell |-> w[3], next |-> w[2]]
    BY <1>8, <1>11, <1>12, <1>18
  <2> QED  BY ONLY <1>10, <1>18, <2>1, BadEntrySum
<1> QED  BY <1>3, <1>17, <1>19

\* What it returns.
LEMMA StruckReturn ==
  ASSUME RightInv, NEW t \in App, NEW p, p = A(t), pc[p] = "return",
         NEW x, x # loc[p].ret
  PROVE  Doomed(obj, call[p], log[p] \o <<x, Magic>>)
<1> USE RightApp, WildFacts
<1>1. PICK c, h, b, r, f :
        /\ c = call[p] /\ h = loc[p].head /\ b = loc[p].hv /\ r = loc[p].ret
        /\ f = Look(obj, c.key)[h]
  OBVIOUS
<1>2. h \in Places(obj) /\ c \in Asked  BY <1>1 DEF LocalsWild
<1>3. f = Found(obj, c, loc[p]) /\ (f # 0 <=> Hit(obj, c, loc[p]))  BY <1>1 DEF Found, Hit
<1>4. \/ c.op = "get" /\ Hit(obj, c, loc[p]) /\ r \in ValuesIn(obj)
      \/ c.op = "get" /\ ~Hit(obj, c, loc[p]) /\ r = 0
      \/ c.op = "set" /\ Hit(obj, c, loc[p]) /\ r = kStored
      \/ c.op = "set" /\ ~Hit(obj, c, loc[p]) /\ r = kCreated
  BY <1>1 DEF LocalsAt
<1>5. PICK g : g = CellOf(obj, f)  OBVIOUS
<1>6. \/ c.op = "get" /\ f # 0 /\ log[p] = <<b, h, g, r>>
      \/ c.op = "get" /\ f = 0 /\ log[p] = <<b, h>>
      \/ c.op = "set" /\ f # 0 /\ \E o, v : log[p] = <<b, h, g, o, SizeOfVal, v, g, v>>
      \/ c.op = "set" /\ f = 0 /\ \E n, v, e : log[p] = <<b, h, n, SizeOfVal, v, n, v, SizeOfEntry, e, b, e>>
  <2>1. WroteAt(obj, "return", c, loc[p], log[p])  BY <1>1
  <2> QED  BY <1>1, <1>3, <1>5, <2>1 DEF WroteAt
<1>7. CASE c.op = "get" /\ f # 0 /\ log[p] = <<b, h, g, r>>
  <2>1. PICK w : w = <<b, h, g, r, x, Magic>>  OBVIOUS
  <2>2. log[p] \o <<x, Magic>> = w  BY <1>7, <2>1, Ends4
  <2>3. Len(w) \in Nat /\ 5 <= Len(w) /\ w[2] = h /\ w[4] = r /\ w[5] = x  BY <2>1
  <2>4. w[2] \in Places(obj) /\ f = Look(obj, c.key)[w[2]] /\ w[5] # w[4]
    BY <1>1, <1>2, <2>3
  <2>5. Doomed(obj, c, w)  BY ONLY <1>7, <2>3, <2>4, BadSums
  <2> QED  BY <1>1, <2>2, <2>5
<1>8. CASE c.op = "get" /\ f = 0 /\ log[p] = <<b, h>>
  <2>1. PICK w : w = <<b, h, x, Magic>>  OBVIOUS
  <2>2. log[p] \o <<x, Magic>> = w  BY <1>8, <2>1, Ends2
  <2>3. Len(w) \in Nat /\ 3 <= Len(w) /\ w[2] = h /\ w[3] = x  BY <2>1
  <2>4. w[2] \in Places(obj) /\ f = Look(obj, c.key)[w[2]] /\ w[3] # 0
    BY <1>1, <1>2, <1>3, <1>4, <1>8, <2>3
  <2>5. Doomed(obj, c, w)  BY ONLY <1>8, <2>3, <2>4, BadWords
  <2> QED  BY <1>1, <2>2, <2>5
<1>9. CASE c.op = "set" /\ f # 0 /\ \E o, v : log[p] = <<b, h, g, o, SizeOfVal, v, g, v>>
  <2>1. PICK o, v : log[p] = <<b, h, g, o, SizeOfVal, v, g, v>>  BY <1>9
  <2>2. PICK w : w = <<b, h, g, o, SizeOfVal, v, g, v, x, Magic>>  OBVIOUS
  <2>3. log[p] \o <<x, Magic>> = w  BY <2>1, <2>2, Ends8
  <2>4. Len(w) \in Nat /\ 9 <= Len(w) /\ w[2] = h /\ w[9] = x  BY <2>2
  <2>5. w[2] \in Places(obj) /\ f = Look(obj, c.key)[w[2]] /\ w[9] # kStored
    BY <1>1, <1>2, <1>3, <1>4, <1>9, <2>4
  <2>6. Doomed(obj, c, w)  BY ONLY <1>9, <2>4, <2>5, BadSums
  <2> QED  BY <1>1, <2>3, <2>6
<1>10. CASE /\ c.op = "set" /\ f = 0
            /\ \E n, v, e : log[p] = <<b, h, n, SizeOfVal, v, n, v, SizeOfEntry, e, b, e>>
  <2>1. PICK n, v, e : log[p] = <<b, h, n, SizeOfVal, v, n, v, SizeOfEntry, e, b, e>>  BY <1>10
  <2>2. PICK w : w = <<b, h, n, SizeOfVal, v, n, v, SizeOfEntry, e, b, e, x, Magic>>  OBVIOUS
  <2>3. log[p] \o <<x, Magic>> = w  BY <2>1, <2>2, Ends11
  <2>4. Len(w) \in Nat /\ 12 <= Len(w) /\ w[2] = h /\ w[12] = x  BY <2>2
  <2>5. w[2] \in Places(obj) /\ f = Look(obj, c.key)[w[2]] /\ w[12] # kCreated
    BY <1>1, <1>2, <1>3, <1>4, <1>10, <2>4
  <2>6. Doomed(obj, c, w)  BY ONLY <1>10, <2>4, <2>5, BadSums
  <2> QED  BY <1>1, <2>3, <2>6
<1> QED  BY <1>6, <1>7, <1>8, <1>9, <1>10

\* A step of the closure that a detectable fault strikes.
LEMMA StruckStep ==
  ASSUME RightInv, Faults \subseteq Detectable, ~hit, hit', NEW t \in App, NEW p, p = A(t),
         ClosureStep(p)
  PROVE  Astray(obj', pc'[p], call[p], loc'[p], log'[p])
<1>1. p \in Proc /\ p[2] = "app"  BY RightApp
<1>2. "load" \notin Faults /\ "store" \notin Faults  BY DEF Detectable
<1>3. CASE Lock(p)  BY <1>3, StruckLock
<1>4. CASE ReadHead(p)
  <2>1. PICK o \in Loaded(p, loc[p].hv, Entries \cup {0}) : Note(p, o[2])  BY <1>4 DEF ReadHead
  <2>2. ~o[2] /\ o[2] \in BOOLEAN  BY <1>1, <1>2, <2>1, LoadedIs
  <2> QED  BY <2>1, <2>2, Noticed
<1>5. CASE Find(p)  BY <1>5, StruckFind
<1>6. CASE Skip(p)  BY <1>6, StruckSkip
<1>7. CASE Load(p)
  <2>1. PICK o \in Loaded(p, loc[p].dest, Values) : Note(p, o[2])  BY <1>7 DEF Load
  <2>2. ~o[2] /\ o[2] \in BOOLEAN  BY <1>1, <1>2, <2>1, LoadedIs
  <2> QED  BY <2>1, <2>2, Noticed
<1>8. CASE MakeVal(p)  BY <1>8, StruckMakeVal DEF Astray
<1>9. CASE Store(p)
  <2>1. PICK r, o : r = Wrong("store", Values) /\ o \in Outcomes(p, loc[p].made, r) /\ Note(p, o[2])
    BY <1>9 DEF Store
  <2>2. r = {}  BY <1>2, <2>1 DEF Wrong
  <2>3. o \in Outcomes(p, loc[p].made, {})  BY <2>1, <2>2
  <2>4. ~o[2] /\ o[2] \in BOOLEAN  BY ONLY <2>3, OutcomeIs
  <2> QED  BY <2>1, <2>4, Noticed
<1>10. CASE MakeEntry(p)  BY <1>10, StruckMakeEntry DEF Astray
<1>11. CASE Link(p)
  <2>1. PICK r, o : r = Wrong("store", Entries \cup {0}) /\ o \in Outcomes(p, loc[p].made, r) /\ Note(p, o[2])
    BY <1>11 DEF Link
  <2>2. r = {}  BY <1>2, <2>1 DEF Wrong
  <2>3. o \in Outcomes(p, loc[p].made, {})  BY <2>1, <2>2
  <2>4. ~o[2] /\ o[2] \in BOOLEAN  BY ONLY <2>3, OutcomeIs
  <2> QED  BY <2>1, <2>4, Noticed
<1>12. CASE Miss(p) \/ NewCell(p) \/ Unlock(p)  BY <1>12 DEF Miss, NewCell, Unlock
<1> QED
  BY <1>3, <1>4, <1>5, <1>6, <1>7, <1>8, <1>9, <1>10, <1>11, <1>12 DEF ClosureStep

\* A step that is struck leaves a suspect.
LEMMA StruckApp ==
  ASSUME RightInv, Unstruck, Faults \subseteq Detectable, ~hit, hit', NEW t \in App, AppStep(t)
  PROVE  WildInv' /\ DoomInv' /\ Suspect'
<1>1. PICK p : p = A(t)  OBVIOUS
<1>2. /\ WildInv /\ p \in Proc /\ p[2] = "app" /\ Shape
      /\ struck \in [Proc -> BOOLEAN]
  BY <1>1, RightApp, WildFacts DEF Shape
<1>3. DoomInv
  <2>1. \A u \in App : ~struck[A(u)] /\ ~struck[V(u)]  BY Procs DEF Unstruck
  <2>2. \A u \in App : \A i \in DOMAIN pending[u] : ~pending[u][i].struck  BY DEF Unstruck
  <2> QED  BY <2>1, <2>2 DEF DoomInv
<1>4. CASE ClosureStep(p)
  <2>1. Steps(p) /\ WildInv' /\ Grows(obj, obj')  BY <1>1, <1>2, <1>4, ClosureSteps, WildApp
  <2>2. /\ struck' = [struck EXCEPT ![p] = TRUE] /\ pending' = pending /\ Alone(p)
        /\ call' = call /\ pc'[p] \notin {"idle", "lock"}
    BY <2>1 DEF Steps, Strikes
  <2>3. Astray(obj', pc'[p], call'[p], loc'[p], log'[p])  BY <1>1, <1>4, <2>2, StruckStep
  <2>4. \A q \in Proc : q # p => struck'[q] = struck[q]  BY <1>2, <2>2
  <2>5. \A u \in App : \A i \in DOMAIN pending'[u] :
          i \in DOMAIN pending[u] /\ pending'[u][i] = pending[u][i]
    BY <2>2
  <2>6. DoomInv'  BY <1>1, <1>2, <1>3, <2>1, <2>2, <2>3, <2>4, <2>5, DoomFrame
  <2>7. struck'[p]  BY <1>2, <2>2
  <2> QED  BY <1>2, <2>1, <2>6, <2>7, SuspectWillBe
<1>5. CASE Return(t)
  <2>1. WildInv' /\ Alone(p) /\ obj' = obj /\ Grows(obj, obj')  BY <1>1, <1>2, <1>5, WildReturn
  <2>2. PICK x, b : b \in BOOLEAN /\ Returns(t, x, b) /\ (b => x # loc[p].ret)
    BY <1>1, <1>2, <1>5, ReturnIs
  <2>3. b
    <3>1. hit' <=> hit \/ b  BY <2>2 DEF Returns
    <3> QED  BY <3>1
  <2>4. pc[p] = "return" /\ struck' = [struck EXCEPT ![p] = FALSE]  BY <1>1, <1>5 DEF Return, A
  <2>5. PICK c : c = [call |-> call[p], struck |-> struck[p] \/ b, words |-> log[p] \o <<x, Magic>>]
    OBVIOUS
  <2>6. c.call = call[p] /\ c.words = log[p] \o <<x, Magic>> /\ c.struck
    <3>1. (struck[p] \/ b) = TRUE  BY <2>3
    <3> QED  BY <2>5, <3>1
  <2>7. Doomed(obj, c.call, c.words)  BY <1>1, <2>2, <2>3, <2>4, <2>6, StruckReturn
  <2>8. /\ \A u \in App : u # t => pending'[u] = pending[u]
        /\ \A i \in DOMAIN pending'[t] : \/ i \in DOMAIN pending[t] /\ pending'[t][i] = pending[t][i]
                                         \/ pending'[t][i] = c
        /\ \E i \in DOMAIN pending'[t] : pending'[t][i] = c
    <3>1. pending' = [pending EXCEPT ![t] = Append(pending[t], c)]
      BY <1>1, <2>2, <2>5 DEF Returns
    <3>2. pending \in [App -> Seq([call : Asked, struck : BOOLEAN, words : Seq(Word)])]
      BY <1>2 DEF WildInv
    <3>3. pending'[t] = Append(pending[t], c) /\ \A u \in App : u # t => pending'[u] = pending[u]
      BY <3>1, <3>2
    <3> QED  BY <1>2, <3>3, Committed
  <2>9. \A q \in Proc : q # p => struck'[q] = struck[q]  BY <1>2, <2>4
  <2>10. ~struck'[p]  BY <1>2, <2>4
  <2>11. ASSUME NEW u \in App, NEW i \in DOMAIN pending'[u], pending'[u][i].struck
         PROVE  \/ i \in DOMAIN pending[u] /\ pending'[u][i] = pending[u][i]
                \/ Doomed(obj', pending'[u][i].call, pending'[u][i].words)
    <3>1. CASE u # t  BY <2>8, <2>11, <3>1
    <3>2. CASE u = t  BY <2>1, <2>7, <2>8, <2>11, <3>2
    <3> QED  BY <3>1, <3>2
  <2>12. DoomInv'  BY <1>1, <1>2, <1>3, <2>1, <2>9, <2>10, <2>11, DoomFrame
  <2>13. Suspect'  BY <2>6, <2>8, SuspectWillBe
  <2> QED  BY <2>1, <2>12, <2>13
<1> QED  BY <1>1, <1>4, <1>5 DEF AppStep, A

-----------------------------------------------------------------------------
(* What operations do to the map, while nothing has struck. *)

\* An answer is no lack of one.
LEMMA Answers ==
  ASSUME NEW m, NEW n, HeapInv(m, n), NEW s \in {"unlock", "return"}, NEW c, NEW l,
         LocalsAt(m, s, c, l)
  PROVE  Told(m, c.op, l.ret) # NoAnswer
<1>1. \/ c.op = "get" /\ l.ret \in ValuesIn(m)
      \/ c.op = "get" /\ l.ret = 0
      \/ c.op = "set" /\ l.ret \in {kStored, kCreated}
  BY DEF LocalsAt
<1>2. CASE c.op = "get" /\ l.ret \in ValuesIn(m)
  <2>1. l.ret # 0  BY <1>2, HeapKinds
  <2>2. Told(m, c.op, l.ret) \in Val  BY <1>2, <2>1 DEF Told, ValuesIn
  <2> QED  BY <2>2, NoAnswerAssumption
<1>3. CASE c.op = "get" /\ l.ret = 0  BY <1>3, NoAnswerAssumption DEF Told
<1>4. CASE c.op = "set" /\ l.ret \in {kStored, kCreated}
  BY <1>4, NoAnswerAssumption DEF Told
<1> QED  BY <1>1, <1>2, <1>3, <1>4

\* Nor is what the map holds.
LEMMA Held ==
  ASSUME RightInv, NEW k \in Key
  PROVE  mapMapped[k] # NoAnswer
<1>1. PICK e : e = Look(obj, k)[cell[Hash[k]]]  OBVIOUS
<1>2. e = 0 \/ cell[CellOf(obj, e)] \in ValuesIn(obj)  BY <1>1, Holding
<1>3. Holds(cell, obj, k) = IF e = 0 THEN NoVal ELSE obj[cell[CellOf(obj, e)]].data
  BY <1>1 DEF Holds
<1>4. Holds(cell, obj, k) \in Val \cup {NoVal}  BY <1>2, <1>3 DEF ValuesIn
<1> QED  BY <1>4, MapIs, NoAnswerAssumption

\* What a step of a closure does to its label, and to what it is compared with.
LEMMA Passing ==
  ASSUME RightInv, NEW t \in App, NEW p, p = A(t), ClosureStep(p)
  PROVE  \/ Unlock(p)
         \/ /\ pc[p] \notin {"unlock", "return"} /\ pc[p] \in Inside \cup {"lock"}
            /\ pc'[p] # "return" /\ UNCHANGED noteVars
            /\ pc'[p] = "unlock" => pc[p] \in Inside
<1>1. p \in Proc /\ DOMAIN pc = Proc  BY AppProc
<1>4. CASE Unlock(p)  BY <1>4
<1>5. CASE ~Unlock(p)
  BY <1>1, <1>5 DEF ClosureStep, Lock, ReadHead, Find, Skip, Miss, Load, NewCell, MakeVal, Store,
     MakeEntry, Link, Goto, Inside, Labels
<1> QED  BY <1>4, <1>5

\* What another closure is about to answer, and the sets that hold a lock.
LEMMA Elsewhere ==
  ASSUME RightInv, NEW t \in App, NEW u \in App, u # t, pc[A(u)] = "unlock",
         pc[A(t)] \in Inside
  PROVE  call[A(u)].key # call[A(t)].key
<1>1. A(t) \in Proc /\ A(t)[2] = "app" /\ A(u) # A(t)  BY AppProc DEF A
<1>2. "unlock" \in Inside  BY DEF Inside, Labels
<1>3. Hash[call[A(t)].key] # Hash[call[A(u)].key]  BY <1>1, <1>2, Apart
<1> QED  BY <1>3

\* While a closure is inside, no other set of its key waits for its unlock.
LEMMA Known ==
  ASSUME RightInv, EffectInv, NEW t \in App, pc[A(t)] \in Inside \ {"unlock"},
         call[A(t)].key \in Key
  PROVE  mapMapped[call[A(t)].key] = spec[call[A(t)].key]
<1>1. PICK k : k = call[A(t)].key  OBVIOUS
<1>2. \A u \in App : pc[A(u)] = "unlock" => u # t /\ call[A(u)].key # k
  BY <1>1, Elsewhere
<1> QED  BY <1>1, <1>2 DEF EffectInv

\* The invariant for one closure, and for one key.
Answered(a, o, g, m, s, c) ==
  /\ s = "return" => a = o
  /\ s = "unlock" /\ c.op = "get" => a = g[c.key]
  /\ s = "unlock" /\ c.op = "set" =>
       a = (IF g[c.key] = NoVal THEN kCreated ELSE kStored) /\ m[c.key] = c.val

\* A set of k that has taken effect, and still holds the lock.
Waits(s, c, k) == s = "unlock" /\ c.op = "set" /\ c.key = k

\* The invariant says this of every closure and every key.
LEMMA EffectIs ==
  /\ EffectInv <=>
       /\ ~wrong
       /\ \A t \in App : Answered(answerMapped[t], owed[t], spec, mapMapped, pc[A(t)], call[A(t)])
       /\ \A k \in Key : \/ mapMapped[k] = spec[k]
                         \/ \E t \in App : Waits(pc[A(t)], call[A(t)], k)
  /\ EffectInv' <=>
       /\ ~wrong'
       /\ \A t \in App :
            Answered(answerMapped'[t], owed'[t], spec', mapMapped', pc'[A(t)], call'[A(t)])
       /\ \A k \in Key : \/ mapMapped'[k] = spec'[k]
                         \/ \E t \in App : Waits(pc'[A(t)], call'[A(t)], k)
BY DEF EffectInv, Answered, Waits

\* The release of the lock: the map should now be what the set has made of it.
LEMMA EffectUnlock ==
  ASSUME RightInv, EffectInv, NEW t \in App, NEW p, p = A(t), Unlock(p)
  PROVE  EffectInv'
<1>1. p \in Proc /\ p[1] = t /\ p[2] = "app" /\ DOMAIN pc = Proc  BY AppProc
<1>2. PICK c, k, m, g, a :
        c = call[p] /\ k = c.key /\ m = mapMapped /\ g = spec /\ a = answerMapped[t]
  OBVIOUS
<1>3. /\ pc[p] = "unlock" /\ pc' = [pc EXCEPT ![p] = "return"] /\ call' = call /\ wrong' = wrong
      /\ spec' = (IF c.op = "get" THEN g ELSE [g EXCEPT ![k] = c.val])
      /\ owed' = [owed EXCEPT ![t] =
           IF c.op = "get" THEN g[k] ELSE IF g[k] = NoVal THEN kCreated ELSE kStored]
  BY <1>1, <1>2 DEF Unlock, Goto
<1>4. c \in Asked /\ k \in Key /\ c.op \in {"get", "set"} /\ t \in DOMAIN owed /\ DOMAIN g = Key
  <2>1. LocalsAt(obj, "unlock", c, loc[p])  BY <1>2, <1>3, AppProc
  <2>2. c \in Asked  BY <2>1 DEF LocalsAt
  <2>3. DOMAIN owed = App /\ DOMAIN spec = Key  BY DEF RightInv, TypesInv
  <2> QED  BY <1>2, <2>2, <2>3 DEF Asked, Call
<1>5. Atomic!amVars' = Atomic!amVars  BY <1>2, QuietMaps DEF ClosureStep
<1>6. mapMapped' = m /\ answerMapped' = answerMapped  BY <1>2, <1>5 DEF Atomic!amVars
<1>7. ~wrong /\ \A u \in App : Answered(answerMapped[u], owed[u], g, m, pc[A(u)], call[A(u)])
  BY <1>2, EffectIs
<1>8. \A i \in Key : m[i] = g[i] \/ \E u \in App : Waits(pc[A(u)], call[A(u)], i)
  BY <1>2, EffectIs
<1>9. /\ c.op = "get" => a = g[k]
      /\ c.op = "set" => a = (IF g[k] = NoVal THEN kCreated ELSE kStored) /\ m[k] = c.val
  BY <1>2, <1>3, <1>7 DEF Answered
<1>10. pc'[p] = "return" /\ owed'[t] = a
  <2>1. pc'[p] = "return"  BY <1>1, <1>3
  <2>2. owed'[t] = IF c.op = "get" THEN g[k] ELSE IF g[k] = NoVal THEN kCreated ELSE kStored
    BY <1>3, <1>4
  <2> QED  BY <1>4, <1>9, <2>1, <2>2
<1>11. /\ \A i \in Key : i # k => spec'[i] = g[i]
       /\ c.op = "get" => spec' = g
       /\ c.op = "set" => spec'[k] = c.val
  BY <1>3, <1>4
<1>12. \A u \in App : u # t =>
         /\ pc'[A(u)] = pc[A(u)] /\ owed'[u] = owed[u]
         /\ pc[A(u)] = "unlock" => call[A(u)].key # k
  <2>1. \A u \in App : u # t => A(u) # p  BY <1>2, AppProc DEF A
  <2>2. "unlock" \in Inside  BY DEF Inside, Labels
  <2>3. \A u \in App : u # t /\ pc[A(u)] = "unlock" => call[A(u)].key # k
    BY <1>2, <1>3, <2>2, Elsewhere
  <2> QED  BY <1>3, <2>1, <2>3
<1>13. ASSUME NEW u \in App
       PROVE  Answered(answerMapped'[u], owed'[u], spec', mapMapped', pc'[A(u)], call'[A(u)])
  <2>1. CASE u = t  BY <1>2, <1>6, <1>10, <2>1 DEF Answered
  <2>2. CASE u # t
    <3>1. PICK s, d : s = pc[A(u)] /\ d = call[A(u)]  OBVIOUS
    <3>2. Answered(answerMapped[u], owed[u], g, m, s, d)  BY <1>7, <3>1
    <3>3. s = "unlock" => d.key \in Key
      <4>1. LocalsAt(obj, s, d, loc[A(u)])  BY <3>1, AppProc
      <4> QED  BY <4>1 DEF LocalsAt, Asked, Call
    <3>4. s = "unlock" => spec'[d.key] = g[d.key]  BY <1>11, <1>12, <2>2, <3>1, <3>3
    <3>5. Answered(answerMapped[u], owed[u], spec', m, s, d)  BY <3>2, <3>4 DEF Answered
    <3> QED  BY <1>3, <1>6, <1>12, <2>2, <3>1, <3>5
  <2> QED  BY <2>1, <2>2
<1>14. ASSUME NEW i \in Key
       PROVE  \/ mapMapped'[i] = spec'[i]
              \/ \E u \in App : Waits(pc'[A(u)], call'[A(u)], i)
  <2>1. CASE i = k /\ c.op = "set"  BY <1>6, <1>9, <1>11, <2>1
  <2>2. CASE ~(i = k /\ c.op = "set")
    <3>1. spec'[i] = g[i]  BY <1>4, <1>11, <2>2
    <3>2. CASE m[i] = g[i]  BY <1>6, <3>1, <3>2
    <3>3. CASE \E u \in App : Waits(pc[A(u)], call[A(u)], i)
      <4>1. PICK u \in App : Waits(pc[A(u)], call[A(u)], i)  BY <3>3
      <4>2. u # t  BY <1>2, <2>2, <4>1 DEF Waits
      <4> QED  BY <1>3, <1>12, <4>1, <4>2
    <3> QED  BY <1>8, <3>2, <3>3
  <2> QED  BY <2>1, <2>2
<1> QED  BY <1>3, <1>7, <1>13, <1>14, EffectIs

\* Another step of a closure: the map changes when a set takes effect.
LEMMA EffectClosure ==
  ASSUME RightInv, RightInv', EffectInv, ~hit', NEW t \in App, ClosureStep(A(t))
  PROVE  EffectInv'
<1>1. PICK p : p = A(t)  OBVIOUS
<1>2. CASE Unlock(p)  BY <1>1, <1>2, EffectUnlock
<1>3. CASE ~Unlock(p)
  <2>1. /\ pc[p] \notin {"unlock", "return"} /\ pc[p] \in Inside \cup {"lock"}
        /\ pc'[p] # "return" /\ UNCHANGED <<spec, owed, wrong>>
        /\ pc'[p] = "unlock" => pc[p] \in Inside
    BY <1>1, <1>3, Passing DEF noteVars
  <2>2. PICK c, k, m, g, s : c = call[p] /\ k = c.key /\ m = mapMapped /\ g = spec /\ s = pc'[p]
    OBVIOUS
  <2>3. c \in Asked /\ k \in Key /\ c.op \in {"get", "set"} /\ call' = call
    <3>1. LocalsAt(obj, pc[p], c, loc[p])  BY <1>1, <2>2, AppProc
    <3>2. pc[p] # "idle"  BY <2>1 DEF Inside, Labels
    <3>3. c \in Asked  BY <3>1, <3>2 DEF LocalsAt
    <3>4. call' = call
      <4>1. Shape /\ p \in Proc  BY <1>1, RightIsWild, AppProc DEF WildInv
      <4> QED  BY <1>1, <4>1, ClosureSteps DEF Steps
    <3> QED  BY <2>2, <3>3, <3>4 DEF Asked, Call
  <2>4. Others(t)
    <3>1. AppStep(t)  BY DEF AppStep, A
    <3> QED  BY <3>1, OnlyMoves
  <2>5. Atomic!Get(t) \/ Atomic!Set(t) \/ UNCHANGED Atomic!amVars  BY AppMaps
  <2>6. answerMapped[t] = NoAnswer /\ askedMapped[t] = c  BY <1>1, <2>1, <2>2, AnswersAre
  <2>7. s # "unlock" => answerMapped'[t] = NoAnswer
    BY <1>1, <2>1, <2>2, AnswersAre
  <2>8. s = "unlock" => answerMapped'[t] # NoAnswer
    <3>1. SUFFICES ASSUME s = "unlock" PROVE answerMapped'[t] # NoAnswer  OBVIOUS
    <3>2. answerMapped'[t] = Told(obj', c.op, loc'[p].ret)
      BY <1>1, <2>2, <2>3, <3>1, AnswersAre
    <3>3. HeapInv(obj', top') /\ LocalsAt(obj', s, c, loc'[p])
      BY <1>1, <2>2, <2>3, AppProc DEF RightInv, ObjInv
    <3>4. PICK n, x, l : n = obj' /\ x = top' /\ l = loc'[p]  OBVIOUS
    <3>5. Told(n, c.op, l.ret) # NoAnswer  BY <3>1, <3>3, <3>4, Answers
    <3> QED  BY <3>2, <3>4, <3>5
  <2>9. ~wrong /\ \A u \in App : Answered(answerMapped[u], owed[u], g, m, pc[A(u)], call[A(u)])
    BY <2>2, EffectIs
  <2>10. \A i \in Key : m[i] = g[i] \/ \E u \in App : Waits(pc[A(u)], call[A(u)], i)
    BY <2>2, EffectIs
  <2>11. \A u \in App : u # t => pc'[A(u)] = pc[A(u)]  BY <2>4 DEF Others
  <2>12. pc[p] # "unlock" /\ ~Waits(pc[p], c, k)  BY <2>1 DEF Waits
  <2>13. s = "unlock" => m[k] = g[k]  BY <1>1, <2>1, <2>2, <2>3, Known
  <2>14. CASE s # "unlock"
    <3>1. UNCHANGED Atomic!amVars
      <4>1. ~Atomic!Get(t)
        <5>1. Atomic!Get(t) => answerMapped'[t] = m[k]
          <6>1. t \in DOMAIN answerMapped  BY AnswersAre
          <6> QED  BY <2>2, <2>6, <6>1 DEF Atomic!Get
        <5>2. m[k] # NoAnswer  BY <2>2, <2>3, Held
        <5> QED  BY <2>7, <2>14, <5>1, <5>2
      <4>2. ~Atomic!Set(t)
        <5>1. Atomic!Set(t) => answerMapped'[t] \in {kCreated, kStored}
          <6>1. t \in DOMAIN answerMapped  BY AnswersAre
          <6> QED  BY <6>1 DEF Atomic!Set
        <5> QED  BY <2>7, <2>14, <5>1, NoAnswerAssumption
      <4> QED  BY <2>5, <4>1, <4>2
    <3>2. mapMapped' = m /\ answerMapped' = answerMapped  BY <2>2, <3>1 DEF Atomic!amVars
    <3>3. ASSUME NEW u \in App
          PROVE  Answered(answerMapped'[u], owed'[u], spec', mapMapped', pc'[A(u)], call'[A(u)])
      <4>1. CASE u = t  BY <1>1, <2>1, <2>2, <2>14, <4>1 DEF Answered
      <4>2. CASE u # t  BY <2>1, <2>2, <2>3, <2>9, <2>11, <3>2, <4>2
      <4> QED  BY <4>1, <4>2
    <3>4. ASSUME NEW i \in Key
          PROVE  \/ mapMapped'[i] = spec'[i]
                 \/ \E u \in App : Waits(pc'[A(u)], call'[A(u)], i)
      <4>1. CASE m[i] = g[i]  BY <2>1, <2>2, <3>2, <4>1
      <4>2. CASE \E u \in App : Waits(pc[A(u)], call[A(u)], i)
        <5>1. PICK u \in App : Waits(pc[A(u)], call[A(u)], i)  BY <4>2
        <5>2. u # t  BY <1>1, <2>12, <5>1 DEF Waits
        <5> QED  BY <2>3, <2>11, <5>1, <5>2
      <4> QED  BY <2>10, <4>1, <4>2
    <3> QED  BY <2>1, <2>9, <3>3, <3>4, EffectIs
  <2>15. CASE s = "unlock"
    <3>1. Atomic!Get(t) \/ Atomic!Set(t)
      <4>1. UNCHANGED Atomic!amVars => answerMapped'[t] = NoAnswer
        BY <2>6 DEF Atomic!amVars
      <4> QED  BY <2>5, <2>8, <2>15, <4>1
    <3>2. t \in DOMAIN answerMapped  BY AnswersAre
    <3>3. CASE Atomic!Get(t)
      <4>1. /\ c.op = "get" /\ mapMapped' = m /\ answerMapped'[t] = m[k]
            /\ \A u \in App : u # t => answerMapped'[u] = answerMapped[u]
        BY <2>2, <2>6, <3>2, <3>3 DEF Atomic!Get
      <4>2. ASSUME NEW u \in App
            PROVE  Answered(answerMapped'[u], owed'[u], spec', mapMapped', pc'[A(u)], call'[A(u)])
        <5>1. CASE u = t
          BY <1>1, <2>1, <2>2, <2>3, <2>13, <2>15, <4>1, <5>1 DEF Answered
        <5>2. CASE u # t  BY <2>1, <2>2, <2>3, <2>9, <2>11, <4>1, <5>2
        <5> QED  BY <5>1, <5>2
      <4>3. ASSUME NEW i \in Key
            PROVE  \/ mapMapped'[i] = spec'[i]
                   \/ \E u \in App : Waits(pc'[A(u)], call'[A(u)], i)
        <5>1. CASE m[i] = g[i]  BY <2>1, <2>2, <4>1, <5>1
        <5>2. CASE \E u \in App : Waits(pc[A(u)], call[A(u)], i)
          <6>1. PICK u \in App : Waits(pc[A(u)], call[A(u)], i)  BY <5>2
          <6>2. u # t  BY <1>1, <2>12, <6>1 DEF Waits
          <6> QED  BY <2>3, <2>11, <6>1, <6>2
        <5> QED  BY <2>10, <5>1, <5>2
      <4> QED  BY <2>1, <2>9, <4>2, <4>3, EffectIs
    <3>4. CASE Atomic!Set(t)
      <4>1. /\ c.op = "set" /\ mapMapped' = [m EXCEPT ![k] = c.val]
            /\ answerMapped'[t] = IF m[k] = NoVal THEN kCreated ELSE kStored
            /\ \A u \in App : u # t => answerMapped'[u] = answerMapped[u]
        BY <2>2, <2>6, <3>2, <3>4 DEF Atomic!Set
      <4>2. mapMapped'[k] = c.val /\ \A i \in Key : i # k => mapMapped'[i] = m[i]
        <5>1. DOMAIN m = Key  BY <2>2 DEF mapMapped
        <5> QED  BY <2>3, <4>1, <5>1
      <4>3. ASSUME NEW u \in App
            PROVE  Answered(answerMapped'[u], owed'[u], spec', mapMapped', pc'[A(u)], call'[A(u)])
        <5>1. CASE u = t
          BY <1>1, <2>1, <2>2, <2>3, <2>13, <2>15, <4>1, <4>2, <5>1 DEF Answered
        <5>2. CASE u # t
          <6>1. PICK r, d : r = pc[A(u)] /\ d = call[A(u)]  OBVIOUS
          <6>2. Answered(answerMapped[u], owed[u], g, m, r, d)  BY <2>9, <6>1
          <6>3. r = "unlock" => d.key \in Key /\ d.key # k
            <7>1. LocalsAt(obj, r, d, loc[A(u)])  BY <6>1, AppProc
            <7>2. r = "unlock" => d.key \in Key  BY <7>1 DEF LocalsAt, Asked, Call
            <7>3. r = "unlock" => d.key # k  BY <1>1, <2>1, <2>2, <2>15, <5>2, <6>1, Elsewhere
            <7> QED  BY <7>2, <7>3
          <6>4. Answered(answerMapped[u], owed[u], g, mapMapped', r, d)
            BY <4>2, <6>2, <6>3 DEF Answered
          <6> QED  BY <2>1, <2>2, <2>3, <2>11, <4>1, <5>2, <6>1, <6>4
        <5> QED  BY <5>1, <5>2
      <4>4. ASSUME NEW i \in Key
            PROVE  \/ mapMapped'[i] = spec'[i]
                   \/ \E u \in App : Waits(pc'[A(u)], call'[A(u)], i)
        <5>1. CASE i = k
          <6>1. Waits(pc'[p], call'[p], i)  BY <2>2, <2>3, <2>15, <4>1, <5>1 DEF Waits
          <6> QED  BY <1>1, <6>1
        <5>2. CASE i # k /\ m[i] = g[i]  BY <2>1, <2>2, <4>2, <5>2
        <5>3. CASE \E u \in App : Waits(pc[A(u)], call[A(u)], i)
          <6>1. PICK u \in App : Waits(pc[A(u)], call[A(u)], i)  BY <5>3
          <6>2. u # t  BY <1>1, <2>12, <6>1 DEF Waits
          <6> QED  BY <2>3, <2>11, <6>1, <6>2
        <5> QED  BY <2>10, <5>1, <5>2, <5>3
      <4> QED  BY <2>1, <2>9, <4>3, <4>4, EffectIs
    <3> QED  BY <3>1, <3>3, <3>4
  <2> QED  BY <2>14, <2>15
<1> QED  BY <1>2, <1>3

\* Nor do calls, returns and the steps of validators change the map, or what
\* other closures are about to answer.
LEMMA EffectFrame ==
  ASSUME EffectInv, ~wrong', mapMapped' = mapMapped, spec' = spec,
         \A u \in App :
           \/ pc'[A(u)] \in {"idle", "lock"} /\ pc[A(u)] # "unlock"
           \/ /\ pc'[A(u)] = pc[A(u)] /\ call'[A(u)] = call[A(u)] /\ owed'[u] = owed[u]
              /\ answerMapped'[u] = answerMapped[u]
  PROVE  EffectInv'
<1>1. PICK m, g : m = mapMapped /\ g = spec  OBVIOUS
<1>2. /\ \A u \in App : Answered(answerMapped[u], owed[u], g, m, pc[A(u)], call[A(u)])
      /\ \A k \in Key : m[k] = g[k] \/ \E u \in App : Waits(pc[A(u)], call[A(u)], k)
  BY <1>1, EffectIs
<1>3. mapMapped' = m /\ spec' = g  BY <1>1
<1>4. ASSUME NEW u \in App
      PROVE  Answered(answerMapped'[u], owed'[u], spec', mapMapped', pc'[A(u)], call'[A(u)])
  <2>1. CASE pc'[A(u)] \in {"idle", "lock"}  BY <2>1 DEF Answered
  <2>2. CASE pc'[A(u)] \notin {"idle", "lock"}  BY <1>2, <1>3, <2>2
  <2> QED  BY <2>1, <2>2
<1>5. ASSUME NEW k \in Key
      PROVE  \/ mapMapped'[k] = spec'[k]
             \/ \E u \in App : Waits(pc'[A(u)], call'[A(u)], k)
  <2>1. CASE m[k] = g[k]  BY <1>3, <2>1
  <2>2. CASE \E u \in App : Waits(pc[A(u)], call[A(u)], k)
    <3>1. PICK u \in App : Waits(pc[A(u)], call[A(u)], k)  BY <2>2
    <3>2. pc[A(u)] = "unlock"  BY <3>1 DEF Waits
    <3>3. pc'[A(u)] = pc[A(u)] /\ call'[A(u)] = call[A(u)]  BY <3>2
    <3> QED  BY <3>1, <3>3
  <2> QED  BY <1>2, <2>1, <2>2
<1> QED  BY <1>4, <1>5, EffectIs

\* A client asks.
LEMMA EffectInvoke ==
  ASSUME RightInv, EffectInv, NEW t \in App, Invoke(t)
  PROVE  EffectInv'
<1>1. PICK p : p = A(t)  OBVIOUS
<1>2. p \in Proc /\ p = <<t, "app">> /\ DOMAIN pc = Proc  BY <1>1, AppProc
<1>3. pc[p] = "idle" /\ pc'[p] = "lock" /\ spec' = spec /\ owed' = owed /\ wrong' = wrong
  BY <1>2 DEF Invoke, Goto, noteVars
<1>4. Others(t)  BY OnlyMoves
<1>5. mapMapped' = mapMapped /\ answerMapped' = answerMapped  BY InvokeAsks DEF Atomic!Ask
<1>6. ~wrong  BY EffectIs
<1>7. ASSUME NEW u \in App
      PROVE  \/ pc'[A(u)] \in {"idle", "lock"} /\ pc[A(u)] # "unlock"
             \/ /\ pc'[A(u)] = pc[A(u)] /\ call'[A(u)] = call[A(u)] /\ owed'[u] = owed[u]
                /\ answerMapped'[u] = answerMapped[u]
  BY <1>1, <1>3, <1>4, <1>5 DEF Others
<1> QED  BY <1>3, <1>5, <1>6, <1>7, EffectFrame

\* The answer that the client is told is the right one.
LEMMA EffectReturn ==
  ASSUME RightInv, EffectInv, ~hit', NEW t \in App, Return(t)
  PROVE  EffectInv'
<1>1. PICK p : p = A(t)  OBVIOUS
<1>2. p \in Proc /\ p = <<t, "app">> /\ DOMAIN pc = Proc  BY <1>1, AppProc
<1>3. /\ pc[p] = "return" /\ pc' = [pc EXCEPT ![p] = "idle"] /\ spec' = spec
      /\ owed' = [owed EXCEPT ![t] = NoVal]
  BY <1>2 DEF Return, Goto
<1>4. Others(t)  BY OnlyMoves DEF AppStep
<1>5. mapMapped' = mapMapped /\ answerMapped' = [answerMapped EXCEPT ![t] = NoAnswer]
  BY ReturnTells DEF Atomic!Tell
<1>6. PICK x, b : /\ b \in BOOLEAN /\ Returns(t, x, b)
                  /\ ~b => x = loc[p].ret
  BY <1>1, ReturnIs
<1>7. ~b /\ (wrong' <=> wrong \/ Answer(call[p].op, x) # owed[t])
  BY <1>1, <1>6 DEF Returns
<1>8. ~wrong /\ answerMapped[t] = owed[t]  BY <1>1, <1>3 DEF EffectInv
<1>9. answerMapped[t] = Answer(call[p].op, x)
  BY <1>1, <1>3, <1>6, <1>7, AnswersAre DEF Told, Answer
<1>10. ~wrong'  BY <1>7, <1>8, <1>9
<1>11. /\ \A u \in App : u # t => owed'[u] = owed[u]
       /\ \A u \in App : u # t => answerMapped'[u] = answerMapped[u]
  <2>1. DOMAIN owed = App  BY DEF RightInv, TypesInv
  <2>2. DOMAIN answerMapped = App  BY AnswersAre
  <2> QED  BY <1>3, <1>5, <2>1, <2>2
<1>12. pc'[p] = "idle"  BY <1>2, <1>3
<1>13. ASSUME NEW u \in App
       PROVE  \/ pc'[A(u)] \in {"idle", "lock"} /\ pc[A(u)] # "unlock"
              \/ /\ pc'[A(u)] = pc[A(u)] /\ call'[A(u)] = call[A(u)] /\ owed'[u] = owed[u]
                 /\ answerMapped'[u] = answerMapped[u]
  BY <1>1, <1>3, <1>4, <1>11, <1>12 DEF Others
<1> QED  BY <1>3, <1>5, <1>10, <1>13, EffectFrame

\* A validator's step.
LEMMA EffectVal ==
  ASSUME RightInv, EffectInv, ~hit', NEW t \in App, ValStep(t)
  PROVE  EffectInv'
<1>1. mapMapped' = mapMapped /\ answerMapped' = answerMapped
  BY ValMaps DEF Atomic!amVars
<1>2. \A u \in App : pc'[A(u)] = pc[A(u)] /\ call'[A(u)] = call[A(u)]
  BY RightIsWild, WildVal
<1>3. spec' = spec /\ owed' = owed /\ wrong' = wrong
  <2>1. V(t)[2] # "app"  BY DEF V
  <2>2. CASE ClosureStep(V(t))
    BY <2>1, <2>2 DEF ClosureStep, Lock, ReadHead, Find, Skip, Miss, Load, NewCell, MakeVal, Store,
       MakeEntry, Link, Unlock, noteVars
  <2>3. CASE Open(t) \/ Close(t) \/ Report(t)  BY <2>3 DEF Open, Close, Report, noteVars
  <2> QED  BY <2>2, <2>3 DEF ValStep, V
<1>4. ~wrong  BY EffectIs
<1> QED  BY <1>1, <1>2, <1>3, <1>4, EffectFrame

-----------------------------------------------------------------------------
(* Nothing is struck before a fault strikes. *)

\* Closures and logs that were not struck stay so.
LEMMA UnstruckStays ==
  ASSUME WildInv, Unstruck, ~hit', NEW t \in App,
         Invoke(t) \/ AppStep(t) \/ Open(t) \/ ClosureStep(V(t)) \/ Close(t)
  PROVE  Unstruck'
<1>1. /\ A(t) \in Proc /\ V(t) \in Proc /\ Shape /\ DOMAIN struck = Proc /\ t \in DOMAIN pending
  BY Procs DEF WildInv, Shape
<1>2. (\A q \in Proc : ~struck[q]) /\ \A u \in App : \A i \in DOMAIN pending[u] : ~pending[u][i].struck
  BY DEF Unstruck
<1>3. CASE Invoke(t)  BY <1>2, <1>3, WildInvoke DEF Unstruck
<1>4. ASSUME NEW p \in Proc, ClosureStep(p) PROVE Unstruck'
  <2>1. Steps(p)  BY <1>1, <1>4, ClosureSteps
  <2>2. struck' = struck /\ pending' = pending  BY <2>1 DEF Steps, Strikes
  <2> QED  BY <1>2, <2>2 DEF Unstruck
<1>5. CASE Return(t)
  <2>1. PICK p : p = A(t)  OBVIOUS
  <2>2. PICK x, b : b \in BOOLEAN /\ Returns(t, x, b)  BY <2>1, <1>5, ReturnIs
  <2>3. ~b /\ struck[p] = FALSE  BY <1>1, <1>2, <2>1, <2>2 DEF Returns, WildInv, Shape
  <2>4. PICK c : c = [call |-> call[p], struck |-> struck[p] \/ b, words |-> log[p] \o <<x, Magic>>]
    OBVIOUS
  <2>5. ~c.struck
    <3>1. (struck[p] \/ b) = FALSE  BY <2>3
    <3> QED  BY <2>4, <3>1
  <2>6. pending' = [pending EXCEPT ![t] = Append(pending[t], c)]
    BY <2>1, <2>2, <2>4 DEF Returns
  <2>7. pending'[t] = Append(pending[t], c) /\ \A u \in App : u # t => pending'[u] = pending[u]
    <3>1. DOMAIN pending = App  BY DEF WildInv
    <3> QED  BY <2>6, <3>1
  <2>8. \A i \in DOMAIN pending'[t] : \/ i \in DOMAIN pending[t] /\ pending'[t][i] = pending[t][i]
                                      \/ pending'[t][i] = c
    BY <2>7, Committed
  <2>9. ASSUME NEW u \in App, NEW i \in DOMAIN pending'[u] PROVE ~pending'[u][i].struck
    <3>1. CASE u = t  BY <1>2, <2>5, <2>8, <2>9, <3>1
    <3>2. CASE u # t  BY <1>2, <2>7, <2>9, <3>2
    <3> QED  BY <3>1, <3>2
  <2>10. struck' = [struck EXCEPT ![p] = FALSE]  BY <2>1, <1>5 DEF Return, A
  <2>11. \A q \in Proc : ~struck'[q]  BY <1>1, <1>2, <2>10
  <2> QED  BY <2>9, <2>11 DEF Unstruck
<1>6. CASE Open(t)
  <2>1. PICK p, x : p = V(t) /\ x = pending[t]  OBVIOUS
  <2>2. /\ x # << >> /\ struck' = [struck EXCEPT ![p] = Head(x).struck]
        /\ pending' = [pending EXCEPT ![t] = Tail(x)]
    BY <1>6, <2>1 DEF Open, V
  <2>3. /\ 1 \in DOMAIN x /\ Head(x) = x[1]
        /\ \A i \in DOMAIN Tail(x) : i + 1 \in DOMAIN x /\ Tail(x)[i] = x[i + 1]
    BY <2>1, <2>2, Opened
  <2>4. ~Head(x).struck  BY <1>2, <2>1, <2>3
  <2>5. \A q \in Proc : ~struck'[q]  BY <1>1, <1>2, <2>2, <2>4
  <2>6. pending'[t] = Tail(x) /\ \A u \in App : u # t => pending'[u] = pending[u]
    <3>1. DOMAIN pending = App  BY DEF WildInv
    <3> QED  BY <2>2, <3>1
  <2>7. ASSUME NEW u \in App, NEW i \in DOMAIN pending'[u] PROVE ~pending'[u][i].struck
    <3>1. CASE u = t
      <4>1. PICK y : y = Tail(x)  OBVIOUS
      <4>2. pending'[u] = y /\ i \in DOMAIN y  BY <2>6, <2>7, <3>1, <4>1
      <4>3. i + 1 \in DOMAIN x /\ y[i] = x[i + 1]  BY <2>3, <4>1, <4>2
      <4> QED  BY <1>2, <2>1, <4>2, <4>3
    <3>2. CASE u # t  BY <1>2, <2>6, <2>7, <3>2
    <3> QED  BY <3>1, <3>2
  <2> QED  BY <2>5, <2>7 DEF Unstruck
<1>7. CASE Close(t)
  <2>1. struck' = [struck EXCEPT ![V(t)] = FALSE] /\ pending' = pending  BY <1>7 DEF Close, V
  <2>2. \A q \in Proc : ~struck'[q]  BY <1>1, <1>2, <2>1
  <2> QED  BY <1>2, <2>1, <2>2 DEF Unstruck
<1> QED  BY <1>1, <1>3, <1>4, <1>5, <1>6, <1>7 DEF AppStep, A

-----------------------------------------------------------------------------
(* Damage is contained. *)

\* A step that changes nothing keeps what is known after a fault ...
LEMMA StutterDoom ==
  ASSUME WildInv, DoomInv, Suspect, UNCHANGED vars
  PROVE  WildInv' /\ DoomInv' /\ Suspect'
<1>1. /\ cell' = cell /\ obj' = obj /\ top' = top /\ pc' = pc /\ call' = call /\ loc' = loc
      /\ log' = log /\ pending' = pending /\ hit' = hit /\ struck' = struck
  BY DEF vars, memVars, runVars
<1>2. Shape' /\ HeapInv(obj', top') /\ CellInv(cell', obj', top')
  <2>1. Shape  BY DEF WildInv
  <2>2. Shape'  BY <1>1, <2>1 DEF Shape
  <2> QED  BY <1>1, <2>2 DEF WildInv
<1>3. pending' \in [App -> Seq([call : Asked, struck : BOOLEAN, words : Seq(Word)])]
  BY <1>1 DEF WildInv
<1>4. \A t \in App :
        /\ call'[A(t)] \in Call \cup {NoCall}
        /\ loc'[A(t)] \in Locals /\ log'[A(t)] \in Seq(Word)
        /\ LocalsWild(cell', obj', pc'[A(t)], call'[A(t)], loc'[A(t)], log'[A(t)])
        /\ pc'[V(t)] = "idle" => loc'[V(t)] = Fresh
  BY <1>1 DEF WildInv
<1>5. ASSUME NEW t \in App, NEW u \in App,
             Owns(pc'[A(t)], loc'[A(t)]), Owns(pc'[A(u)], loc'[A(u)]),
             loc'[A(t)].dest = loc'[A(u)].dest
      PROVE  t = u
  <2>1. /\ Owns(pc[A(t)], loc[A(t)]) /\ Owns(pc[A(u)], loc[A(u)])
        /\ loc[A(t)].dest = loc[A(u)].dest
    BY <1>1, <1>5
  <2> QED  BY <2>1 DEF WildInv
<1>6. WildInv'  BY <1>2, <1>3, <1>4, <1>5 DEF WildInv
<1>7. DoomInv'
  <2> SUFFICES ASSUME NEW t \in App
      PROVE  /\ struck'[A(t)] => /\ pc'[A(t)] \notin {"idle", "lock"}
                                 /\ Astray(obj', pc'[A(t)], call'[A(t)], loc'[A(t)], log'[A(t)])
             /\ struck'[V(t)] => Reads(obj', pc'[V(t)], call'[V(t)], loc'[V(t)], log'[V(t)])
             /\ \A i \in DOMAIN pending'[t] : pending'[t][i].struck =>
                  Doomed(obj', pending'[t][i].call, pending'[t][i].words)
    BY DEF DoomInv
  <2> QED  BY <1>1 DEF DoomInv
<1>8. Suspect'  BY <1>1, SuspectIs, SuspectWillBe
<1> QED  BY <1>6, <1>7, <1>8

\* ... and what is known before.
LEMMA StutterSafe ==
  ASSUME RightInv, EffectInv, Unstruck, UNCHANGED vars
  PROVE  RightInv' /\ EffectInv' /\ Unstruck'
<1>1. /\ UNCHANGED memVars /\ pc' = pc /\ call' = call /\ loc' = loc /\ pending' = pending
      /\ struck' = struck /\ spec' = spec /\ owed' = owed /\ wrong' = wrong
  BY DEF vars, runVars, noteVars
<1>2. mapMapped' = mapMapped /\ answerMapped' = answerMapped  BY <1>1, Aside DEF Atomic!amVars
<1>3. ~wrong  BY EffectIs
<1>4. EffectInv'  BY <1>1, <1>2, <1>3, EffectFrame
<1>5. Unstruck'  BY <1>1 DEF Unstruck
<1> QED  BY <1>4, <1>5, StutterInv

\* Once a fault has struck, the log that it spoilt stays suspect until it is
\* reported.
LEMMA SafeHit ==
  ASSUME ~reported, hit, WildInv, DoomInv, Suspect, [Next]_vars
  PROVE  SafeInv'
<1>1. CASE UNCHANGED vars
  <2>1. hit'  BY <1>1 DEF vars
  <2> QED  BY <1>1, <2>1, StutterDoom DEF SafeInv
<1>2. ASSUME NEW t \in App, Invoke(t) \/ AppStep(t) PROVE SafeInv'
  BY <1>2, DoomApp DEF SafeInv
<1>3. ASSUME NEW t \in App, ValStep(t) PROVE SafeInv'  BY <1>3, DoomVal DEF SafeInv
<1> QED  BY <1>1, <1>2, <1>3 DEF Next

\* Until then the map is right, and the fault that strikes spoils a log.
LEMMA SafeRight ==
  ASSUME Faults \subseteq Detectable, ~hit, RightInv, EffectInv, Unstruck, [Next]_vars
  PROVE  SafeInv'
<1>1. WildInv /\ hit \in BOOLEAN  BY RightIsWild DEF RightInv, TypesInv
<1>2. CASE hit'
  <2>1. CASE UNCHANGED vars  BY <1>2, <2>1 DEF vars
  <2>2. ASSUME NEW t \in App, Invoke(t) PROVE FALSE  BY <1>1, <1>2, <2>2, WildInvoke
  <2>3. ASSUME NEW t \in App, AppStep(t) PROVE SafeInv'  BY <1>2, <2>3, StruckApp DEF SafeInv
  <2>4. ASSUME NEW t \in App, ValStep(t) PROVE FALSE  BY <1>1, <1>2, <2>4, WildVal
  <2> QED  BY <2>1, <2>2, <2>3, <2>4 DEF Next
<1>3. CASE ~hit'
  <2>1. RightInv'  BY <1>3, NextInv DEF Inv
  <2>2. CASE UNCHANGED vars  BY <1>3, <2>2, StutterSafe DEF SafeInv
  <2>3. ASSUME NEW t \in App, Invoke(t) PROVE SafeInv'
    BY <1>1, <1>3, <2>1, <2>3, EffectInvoke, UnstruckStays DEF SafeInv
  <2>4. ASSUME NEW t \in App, AppStep(t) PROVE SafeInv'
    <3>1. EffectInv'  BY <1>3, <2>1, <2>4, EffectReturn, EffectClosure DEF AppStep, A
    <3> QED  BY <1>1, <1>3, <2>1, <2>4, <3>1, UnstruckStays DEF SafeInv
  <2>5. ASSUME NEW t \in App, ValStep(t) PROVE SafeInv'
    <3>1. EffectInv'  BY <1>3, <2>5, EffectVal
    <3>2. ~Report(t)
      <4>1. V(t) \in Proc /\ V(t)[2] = "val" /\ V(t) = <<t, "val">>  BY Procs DEF V
      <4> QED  BY <4>1, ValPasses DEF Report
    <3>3. Open(t) \/ ClosureStep(V(t)) \/ Close(t)  BY <2>5, <3>2 DEF ValStep, V
    <3> QED  BY <1>1, <1>3, <2>1, <3>1, <3>3, UnstruckStays DEF SafeInv
  <2> QED  BY <2>2, <2>3, <2>4, <2>5 DEF Next
<1> QED  BY <1>2, <1>3

\* The invariant is inductive.
LEMMA SafeNext ==
  ASSUME Faults \subseteq Detectable, SafeInv, [Next]_vars
  PROVE  SafeInv'
<1>1. CASE reported  BY <1>1 DEF Next, vars, SafeInv
<1>2. CASE ~reported  BY <1>2, SafeHit, SafeRight DEF SafeInv
<1> QED  BY <1>1, <1>2

\* Nothing has been asked, nothing is struck, and the map is empty.
LEMMA SafeInit ==
  ASSUME Init
  PROVE  SafeInv
<1>1. RightInv /\ Atomic!AMInit  BY InitInv, MappedInit
<1>2. /\ \A p \in Proc : pc[p] = "idle" /\ ~struck[p]
      /\ \A t \in App : DOMAIN pending[t] = {}
      /\ spec = [k \in Key |-> NoVal] /\ ~wrong /\ ~hit
  BY DEF Init
<1>3. \A t \in App : pc[A(t)] = "idle"  BY <1>2, Procs
<1>4. mapMapped = spec  BY <1>1, <1>2 DEF Atomic!AMInit
<1>5. EffectInv  BY <1>2, <1>3, <1>4 DEF EffectInv
<1>6. Unstruck  BY <1>2 DEF Unstruck
<1> QED  BY <1>1, <1>2, <1>5, <1>6 DEF SafeInv

\* It says that what is damaged can be traced to a suspect.
LEMMA SafeContains ==
  ASSUME SafeInv
  PROVE  Contained
<1>1. CASE reported  BY <1>1 DEF Contained
<1>2. CASE hit /\ Suspect  BY <1>2 DEF Contained
<1>3. CASE RightInv /\ EffectInv
  <2>1. ASSUME NEW k \in Key, lock[Hash[k]] = NoApp PROVE Contents(k) = spec[k]
    <3>1. mapMapped[k] = Contents(k)  BY DEF mapMapped
    <3>2. ASSUME NEW t \in App, pc[A(t)] = "unlock", call[A(t)].key = k PROVE FALSE
      <4>1. PICK s, c, l : s = pc[A(t)] /\ c = call[A(t)] /\ l = loc[A(t)]  OBVIOUS
      <4>2. HoldsAt(cell, obj, lock, s, c, l, t)  BY <1>3, <4>1, AppProc
      <4>3. s = "unlock" /\ c.key = k  BY <3>2, <4>1
      <4>4. lock[Hash[k]] = t  BY <4>2, <4>3 DEF HoldsAt, Inside, Labels
      <4> QED  BY <2>1, <4>4, NullsAssumption
    <3>3. mapMapped[k] = spec[k]  BY <1>3, <3>2 DEF EffectInv
    <3> QED  BY <3>1, <3>3
  <2>2. ~wrong  BY <1>3 DEF EffectInv
  <2> QED  BY <2>1, <2>2 DEF Contained, Damaged
<1> QED  BY <1>1, <1>2, <1>3 DEF SafeInv

\* Damage is contained, where faults are of the kinds that validation detects:
\* however many threads, keys and operations there are, and whatever the hash
\* function, the map and the answers are right as long as no struck closure
\* awaits validation and none has been reported.
THEOREM DamageContained ==
  ASSUME Faults \subseteq Detectable
  PROVE  Spec => []Contained
<1>1. Init => SafeInv  BY SafeInit
<1>2. SafeInv /\ [Next]_vars => SafeInv'  BY SafeNext
<1>3. SafeInv => Contained  BY SafeContains
<1> QED  BY <1>1, <1>2, <1>3, PTL DEF Spec

\* When everything is validated, nothing is suspect.
LEMMA SafeEnds ==
  ASSUME SafeInv
  PROVE  NoUndetectedSDC
<1> SUFFICES ASSUME Finished, ~reported, Suspect, hit, DoomInv, Shape PROVE FALSE
  BY SafeContains DEF NoUndetectedSDC, Contained, SafeInv, WildInv, Unstruck, Suspect, Range
<1>1. CASE \E p \in Proc : struck[p]
  <2>1. PICK p \in Proc : struck[p]  BY <1>1
  <2>2. pc[p] = "idle"  BY DEF Finished
  <2>3. PICK t \in App : p = A(t) \/ p = V(t)  BY DEF Proc, Side, A, V
  <2>4. CASE p = A(t)  BY <2>1, <2>2, <2>4 DEF DoomInv
  <2>5. CASE p = V(t)
    <3>1. Reads(obj, pc[p], call[p], loc[p], log[p])  BY <2>1, <2>5 DEF DoomInv
    <3> QED  BY <2>2, <3>1 DEF Reads
  <2> QED  BY <2>3, <2>4, <2>5
<1>2. \A t \in App : DOMAIN pending[t] = {}  BY DEF Finished
<1> QED  BY <1>1, <1>2, SuspectIs

\* What final_check asserts (faultinject.cpp:33) holds of faults of these kinds:
\* when all clients are served and all logs validated, and no assertion failed,
\* the map is right and all answers were.
THEOREM NoSilentCorruption ==
  ASSUME Faults \subseteq Detectable
  PROVE  Spec => []NoUndetectedSDC
<1>1. Init => SafeInv  BY SafeInit
<1>2. SafeInv /\ [Next]_vars => SafeInv'  BY SafeNext
<1>3. SafeInv => NoUndetectedSDC  BY SafeEnds
<1> QED  BY <1>1, <1>2, <1>3, PTL DEF Spec

=============================================================================
