----------------------------- MODULE SharedMap -----------------------------
(***************************************************************************)
(* What a concurrent index promises its callers.  An operation that        *)
(* changes the map does so at one moment between its call and its return;  *)
(* an operation that changes nothing answers from a content its key had    *)
(* at some moment in between.  With one exception: an insertion may be     *)
(* promised, and its caller told, before the key joins the map, which it   *)
(* does together with a later change.                                      *)
(***************************************************************************)
CONSTANTS Thread, Key, Val, NoVal, Kinds

VARIABLES
  map,   \* the value of each key, NoVal when it has none
  due,   \* the values of insertions promised and not in the map yet
  call   \* what each thread has asked for and seen, or was last told

vars == <<map, due, call>>

Op == [kind : Kinds, key : Key, val : Val]

\* An operation that was asked for.  "took" is the answer it owes when it
\* has changed the map or made a promise.
Pending(t) == "op" \in DOMAIN call[t]
Asked(o, now) == [op |-> o, seen |-> {now}, took |-> NoVal]
Told(a) == [ret |-> a]

\* The content of its key after operation o finds it with content c.
After(o, c) ==
  CASE o.kind = "insert" -> IF c = NoVal THEN o.val ELSE c
    [] o.kind = "update" -> IF c = NoVal THEN c ELSE o.val
    [] o.kind = "set"    -> o.val
    [] o.kind = "del"    -> NoVal
    [] OTHER             -> c

\* What its caller is told then.
Answer(o, c) ==
  CASE o.kind \in {"insert", "set"} -> IF c = NoVal THEN "new" ELSE "old"
    [] o.kind = "del"               -> IF c = NoVal THEN "none" ELSE "gone"
    [] OTHER                        -> c

\* Every pending operation sees the map become m by a step of thread t.
Seen(t, m) ==
  [u \in Thread |->
     IF ~Pending(u) THEN call[u]
     ELSE LET k == call[u].op.key
          IN [call[u] EXCEPT
                !.seen = @ \cup {m[k]},
                !.took = IF u = t /\ m[k] # map[k]
                         THEN Answer(call[u].op, map[k]) ELSE @]]

Init == /\ map = [k \in Key |-> NoVal] /\ due = map
        /\ call = [t \in Thread |-> Told(NoVal)]

Ask(t) ==
  /\ ~Pending(t) /\ Pending(t)'
  /\ \E o \in {call'[t].op} \cap Op : call' = [call EXCEPT ![t] = Asked(o, map[o.key])]
  /\ UNCHANGED <<map, due>>

Change(t) ==
  /\ Pending(t) /\ call[t].took = NoVal
  /\ LET o == call[t].op
         joining == {k \in Key : due[k] # NoVal} \ {o.key}
     IN /\ After(o, map[o.key]) # map[o.key]
        /\ \E some \in SUBSET joining :
             /\ map' = [k \in Key |-> IF k \in some THEN due[k]
                                     ELSE IF k = o.key THEN After(o, map[k]) ELSE map[k]]
             /\ due' = [k \in Key |-> IF k \in some THEN NoVal ELSE due[k]]
  /\ call' = Seen(t, map')

Tell(t) ==
  /\ Pending(t)
  /\ LET o == call[t].op
         answers == IF call[t].took # NoVal THEN {call[t].took}
                    ELSE {Answer(o, c) : c \in {d \in call[t].seen : After(o, d) = d}}
     IN \E a \in answers : call' = [call EXCEPT ![t] = Told(a)]
  /\ UNCHANGED <<map, due>>

Promise(t) ==
  /\ Pending(t) /\ call[t].took = NoVal
  /\ LET o == call[t].op
     IN /\ o.kind = "insert" /\ map[o.key] = NoVal /\ due[o.key] = NoVal
        /\ due' = [due EXCEPT ![o.key] = o.val]
        /\ call' = [call EXCEPT ![t].took = Answer(o, NoVal)]
  /\ UNCHANGED map

Next == \E t \in Thread : Ask(t) \/ Change(t) \/ Tell(t) \/ Promise(t)
Spec == Init /\ [][Next]_vars
=============================================================================
