------------------------- MODULE HashMapRefinement -------------------------
(***************************************************************************)
(* Without faults, the hash map of closure.cpp implements an atomic map:   *)
(* its contents are what the chains lead to, and an operation has taken    *)
(* effect when its closure is about to release the lock of the bucket.     *)
(***************************************************************************)
EXTENDS HashMap

CONSTANT NoAnswer   \* the operation has not taken effect

ASSUME NoAnswerAssumption == NoAnswer \notin Val \cup {NoVal, kStored, kCreated}

Effective(t) == pc[<<t, "app">>] \in {"unlock", "return"}

mapMapped    == [k \in Key |-> Contents(k)]
askedMapped  == [t \in App |-> call[<<t, "app">>]]
answerMapped == [t \in App |->
                   IF Effective(t)
                   THEN Answer(call[<<t, "app">>].op, loc[<<t, "app">>].ret)
                   ELSE NoAnswer]

Atomic == INSTANCE AtomicMap WITH
  Client <- App,
  map <- mapMapped, asked <- askedMapped, answer <- answerMapped

\* The hash map is linearizable: every closure appears to run at one moment,
\* though gets and sets of other threads interleave with its steps.
ImplementsAtomicMap == Atomic!AMSpec
=============================================================================
