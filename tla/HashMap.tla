------------------------------ MODULE HashMap ------------------------------
(***************************************************************************)
(* Closures and their validation: hashmap_get and hashmap_set              *)
(* (benchmarks/redis/closure.cpp) on the smart pointers of ptr.hpp, run by *)
(* application threads with run2, which logs what they load, store and     *)
(* allocate, and replayed from those logs by validator threads.            *)
(*                                                                         *)
(* The code of a closure is compiled twice, in namespaces app and          *)
(* validator.  So is the model: an action is a step of the closure, taken  *)
(* by process <<t, "app">> or <<t, "val">>, and the operators Loaded,      *)
(* Allocated and Logged are the two contexts of it.                        *)
(*                                                                         *)
(* A processor fault, as the campaign injects them into the application's  *)
(* closures, replaces one value that one step computes; which is chosen by *)
(* Faults.  Memory itself does not decay.  Versions stay until they have   *)
(* been validated (module ClosureGC), logs arrive whole and in order       *)
(* (module LogPipeline).                                                   *)
(***************************************************************************)
EXTENDS Integers, Sequences, FiniteSets, SequencesExt

CONSTANTS
  App,        \* application threads, each with a validator thread
  Key, Val,
  NoVal,      \* what a client gets for a key that is not in the map
  NoApp,      \* nobody holds the lock
  Buckets,    \* hashmap_t::capacity
  Hash,       \* key.hash() % capacity, counted from 1
  MaxOps,     \* bound: operations in all
  SizeOfVal, SizeOfEntry, kStored, kCreated, Magic,  \* words of a log
  Faults      \* the kinds of fault that may strike, see Wrong

Bucket == 1 .. Buckets    \* the addresses of the bucket pointers
Side   == {"app", "val"}
Proc   == App \X Side

ASSUME SizesAssumption == Buckets \in Nat \ {0} /\ MaxOps \in Nat
ASSUME HashAssumption  == Hash \in [Key -> Bucket]
ASSUME WordsAssumption ==
  /\ {SizeOfVal, SizeOfEntry, kStored, kCreated, Magic} \cap Nat = {}
  /\ Cardinality({SizeOfVal, SizeOfEntry, kStored, kCreated, Magic}) = 5
ASSUME NullsAssumption == NoVal \notin Val /\ NoApp \notin App

VARIABLES
  cell,      \* ptr_t: from an address to the address it points to, or 0
  obj,       \* immutable objects: a value or an entry, and its checksum
  top,       \* the last address malloc returned
  lock,      \* who holds the lock of each bucket
  pc,        \* where a process is in the closure
  call,      \* the closure: operation and arguments, as logged
  loc,       \* local variables of the closure
  log,       \* words written so far; for a validator, words still unread
  pending,   \* committed logs of each thread
  left,      \* operations clients still have to ask for
  reported,  \* a validator_assert failed
  hit,       \* auxiliary: the fault has struck,
  struck,    \* auxiliary: it struck this closure,
  spec,      \* auxiliary: what the map should be,
  owed,      \* auxiliary: what this closure should return,
  wrong      \* auxiliary: one returned something else

memVars  == <<cell, obj, top>>
runVars  == <<pc, call, loc, log>>
noteVars == <<spec, owed, wrong>>
vars == <<memVars, lock, runVars, pending, left, reported, hit, struck,
          noteVars>>

Addr   == Nat
Word   == Addr \cup {SizeOfVal, SizeOfEntry, kStored, kCreated, Magic}
Call   == [op : {"get", "set"}, key : Key, val : Val \cup {NoVal}]
NoCall == [op |-> "none"]
Entry  == [key : Key, cell : Addr, next : Addr]
Fresh  == [hv |-> 0, head |-> 0, at |-> 0, dest |-> 0, made |-> 0, ret |-> 0]

ASSUME TypesAssumption == \A v \in Val : v \notin Entry

Init ==
  /\ cell = [b \in Bucket |-> 0] /\ obj = << >> /\ top = Buckets
  /\ lock = [b \in Bucket |-> NoApp]
  /\ pc = [p \in Proc |-> "idle"]
  /\ call = [p \in Proc |-> NoCall]
  /\ loc = [p \in Proc |-> Fresh]
  /\ log = [p \in Proc |-> << >>]
  /\ pending = [t \in App |-> << >>]
  /\ left = MaxOps
  /\ reported = FALSE
  /\ hit = FALSE /\ struck = [p \in Proc |-> FALSE]
  /\ spec = [k \in Key |-> NoVal]
  /\ owed = [t \in App |-> NoVal] /\ wrong = FALSE

-----------------------------------------------------------------------------
(* Faults. *)

\* What a fault of that kind may put in place of the right value.
Wrong(kind, values) == IF kind \in Faults THEN values ELSE {}

\* What a step of p may compute: the right value, or a wrong one when a fault
\* strikes it; no more than one fault strikes, and only in the application.
Outcomes(p, right, wrongs) ==
  {<<right, FALSE>>} \cup
  (IF p[2] = "app" /\ ~hit THEN (wrongs \ {right}) \X {TRUE} ELSE {})

Note(p, faulty) ==
  /\ hit' = (hit \/ faulty)
  /\ struck' = [struck EXCEPT ![p] = @ \/ faulty]

-----------------------------------------------------------------------------
(* The contexts: app::f and validator::f (context/run.hpp, validation.hpp).*)

Extend(f, a, x) == [y \in DOMAIN f \cup {a} |-> IF y = a THEN x ELSE f[y]]

Values  == {a \in DOMAIN obj : obj[a].data \in Val}
Entries == DOMAIN obj \ Values
ValueCells == DOMAIN cell \ Bucket

NewEntry(p) ==
  [key |-> call[p].key, cell |-> loc[p].dest, next |-> loc[p].head]

\* The words that p itself computes and logs in its next step.
Args(p) == CASE pc[p] = "head"      -> <<loc[p].hv>>
             [] pc[p] = "load"      -> <<loc[p].dest>>
             [] pc[p] = "makeVal"   -> <<SizeOfVal>>
             [] pc[p] = "store"     -> <<loc[p].dest, loc[p].made>>
             [] pc[p] = "makeEntry" -> <<SizeOfEntry>>
             [] pc[p] = "link"      -> <<loc[p].hv, loc[p].made>>
             [] pc[p] = "return"    -> <<loc[p].ret>>
             [] OTHER               -> << >>

\* The assertions of the validator's next step: cmp_log, the checksums of
\* store_obj and shadow_commit, the tail of the log in close().
Agrees(p) ==
  /\ IsPrefix(Args(p), log[p])
  /\ pc[p] = "makeVal"   => obj[log[p][2]].sum = call[p].val
  /\ pc[p] = "makeEntry" => obj[log[p][2]].sum = NewEntry(p)
  /\ pc[p] = "return"    => Tail(log[p]) = <<Magic>>
\* Mutant: the validator does not compare checksums.
PassesUnsummed(p) == p[2] = "val" => IsPrefix(Args(p), log[p])

\* The application compares nothing.
Passes(p) == p[2] = "val" => Agrees(p)

\* The word that a step of the validator fetches.
Fetched(p) == log[p][Len(Args(p)) + 1]

\* Both sides move on in the log by the arguments and the words `res`.
Logged(p, res) ==
  log' = [log EXCEPT ![p] =
            IF p[2] = "app" THEN @ \o Args(p) \o res
            ELSE SubSeq(@, Len(Args(p)) + Len(res) + 1, Len(@))]

\* Mutant: the validator loads from memory what the log should tell it.
LoadedAfresh(p, a, wrongs) == Outcomes(p, cell[a], Wrong("load", wrongs))

\* load_ptr: memory for the application, the log for the validator.
Loaded(p, a, wrongs) ==
  IF p[2] = "app" THEN Outcomes(p, cell[a], Wrong("load", wrongs))
  ELSE {<<Fetched(p), FALSE>>}

\* alloc_obj and alloc_ptr.
Allocated(p) == IF p[2] = "app" THEN top + 1 ELSE Fetched(p)

Goto(p, label) == pc' = [pc EXCEPT ![p] = label]

-----------------------------------------------------------------------------
(* The steps of a closure. *)

\* run2: a log is begun, the closure is its first entry.
Invoke(t) ==
  /\ pc[<<t, "app">>] = "idle" /\ left > 0
  /\ \E c \in Call :
       /\ c.val = NoVal <=> c.op = "get"
       /\ call' = [call EXCEPT ![<<t, "app">>] = c]
  /\ left' = left - 1
  /\ Goto(<<t, "app">>, "lock")
  /\ UNCHANGED <<memVars, lock, loc, log, pending, reported, hit, struck,
                 noteVars>>

\* validate_one: the oldest log is opened.
Open(t) ==
  LET p == <<t, "val">> IN
  /\ pc[p] = "idle" /\ pending[t] # << >>
  /\ call' = [call EXCEPT ![p] = Head(pending[t]).call]
  /\ log' = [log EXCEPT ![p] = Head(pending[t]).words]
  /\ struck' = [struck EXCEPT ![p] = Head(pending[t]).struck]
  /\ pending' = [pending EXCEPT ![t] = Tail(@)]
  /\ Goto(p, "lock")
  /\ UNCHANGED <<memVars, lock, loc, left, reported, hit, noteVars>>

\* Mutant: the lock is not waited for.
LockNoWait(p) ==
  /\ pc[p] = "lock"
  /\ \E o \in Outcomes(p, Hash[call[p].key], Wrong("hash", Bucket)) :
       /\ IF p[2] = "app" THEN lock' = [lock EXCEPT ![o[1]] = p[1]]
                          ELSE UNCHANGED lock
       /\ loc' = [loc EXCEPT ![p].hv = o[1]]
       /\ Note(p, o[2])
  /\ Goto(p, "head")
  /\ UNCHANGED <<memVars, call, log, pending, left, reported, noteVars>>

\* The bucket is that of the key's hash; lock_guard_t does nothing in a
\* validator.
Lock(p) ==
  /\ pc[p] = "lock"
  /\ \E o \in Outcomes(p, Hash[call[p].key], Wrong("hash", Bucket)) :
       /\ IF p[2] = "app"
          THEN lock[o[1]] = NoApp /\ lock' = [lock EXCEPT ![o[1]] = p[1]]
          ELSE UNCHANGED lock
       /\ loc' = [loc EXCEPT ![p].hv = o[1]]
       /\ Note(p, o[2])
  /\ Goto(p, "head")
  /\ UNCHANGED <<memVars, call, log, pending, left, reported, noteVars>>

\* buckets.get()->v[hv]->load().
ReadHead(p) ==
  /\ pc[p] = "head" /\ Passes(p)
  /\ \E o \in Loaded(p, loc[p].hv, Entries \cup {0}) :
       /\ Logged(p, <<o[1]>>)
       /\ loc' = [loc EXCEPT ![p].head = o[1], ![p].at = o[1]]
       /\ Note(p, o[2])
  /\ Goto(p, "walk")
  /\ UNCHANGED <<memVars, lock, call, pending, left, reported, noteVars>>

\* One turn of the loop over the chain: the entry has the key ...
Find(p) ==
  /\ pc[p] = "walk" /\ loc[p].at # 0
  /\ LET e == obj[loc[p].at].data IN
     \E b \in Outcomes(p, e.key = call[p].key, Wrong("branch", BOOLEAN)),
        o \in Outcomes(p, e.cell, Wrong("address", ValueCells)) :
       /\ b[1] /\ ~(b[2] /\ o[2])
       /\ loc' = [loc EXCEPT ![p].dest = o[1]]
       /\ Note(p, b[2] \/ o[2])
  /\ Goto(p, "load")
  /\ UNCHANGED <<memVars, lock, call, log, pending, left, reported, noteVars>>

\* ... or it has another ...
Skip(p) ==
  /\ pc[p] = "walk" /\ loc[p].at # 0
  /\ LET e == obj[loc[p].at].data IN
     \E b \in Outcomes(p, e.key = call[p].key, Wrong("branch", BOOLEAN)) :
       /\ ~b[1]
       /\ loc' = [loc EXCEPT ![p].at = e.next]
       /\ Note(p, b[2])
  /\ UNCHANGED <<memVars, lock, pc, call, log, pending, left, reported,
                 noteVars>>

\* ... or the chain ends: get returns nullptr, set creates an entry.
Miss(p) ==
  /\ pc[p] = "walk" /\ loc[p].at = 0
  /\ Goto(p, IF call[p].op = "get" THEN "unlock" ELSE "newCell")
  /\ UNCHANGED <<memVars, lock, call, loc, log, pending, left, reported, hit,
                 struck, noteVars>>

\* val_ptr->load(), by getv() or by setv().
Load(p) ==
  /\ pc[p] = "load" /\ Passes(p)
  /\ \E o \in Loaded(p, loc[p].dest, Values) :
       /\ Logged(p, <<o[1]>>)
       /\ loc' = [loc EXCEPT ![p].ret = IF call[p].op = "get" THEN o[1]
                                        ELSE kStored]
       /\ Note(p, o[2])
  /\ Goto(p, IF call[p].op = "get" THEN "unlock" ELSE "makeVal")
  /\ UNCHANGED <<memVars, lock, call, pending, left, reported, noteVars>>

\* Mutant: the cell is not kept apart from what malloc returns next.
NewCellReuses(p) ==
  /\ pc[p] = "newCell"
  /\ LET a == Allocated(p) IN
     /\ Logged(p, <<a>>)
     /\ loc' = [loc EXCEPT ![p].dest = a, ![p].ret = kCreated]
     /\ IF p[2] = "app" THEN cell' = Extend(cell, a, 0) ELSE UNCHANGED cell
  /\ Goto(p, "makeVal")
  /\ UNCHANGED <<obj, top, lock, call, pending, left, reported, hit, struck,
                 noteVars>>

\* ptr_t<Val>::create(val) in the constructor of entry_t: alloc_ptr.
NewCell(p) ==
  /\ pc[p] = "newCell"
  /\ LET a == Allocated(p) IN
     /\ Logged(p, <<a>>)
     /\ loc' = [loc EXCEPT ![p].dest = a, ![p].ret = kCreated]
     /\ IF p[2] = "app" THEN cell' = Extend(cell, a, 0) /\ top' = a
                        ELSE UNCHANGED <<cell, top>>
  /\ Goto(p, "makeVal")
  /\ UNCHANGED <<obj, lock, call, pending, left, reported, hit, struck,
                 noteVars>>

\* make_obj(val): alloc_obj, then store_obj, which copies the value and takes
\* the checksum of the original.
MakeVal(p) ==
  /\ pc[p] = "makeVal" /\ Passes(p)
  /\ LET a == Allocated(p)
         v == call[p].val
         wrongs == Wrong("value", {[data |-> w, sum |-> w] : w \in Val})
              \cup Wrong("copy",  {[data |-> w, sum |-> v] : w \in Val})
              \cup Wrong("sum",   {[data |-> v, sum |-> w] : w \in Val})
     IN \E o \in Outcomes(p, [data |-> v, sum |-> v], wrongs) :
          /\ Logged(p, <<a>>)
          /\ loc' = [loc EXCEPT ![p].made = a]
          /\ IF p[2] = "app" THEN obj' = Extend(obj, a, o[1]) /\ top' = a
                             ELSE UNCHANGED <<obj, top>>
          /\ Note(p, o[2])
  /\ Goto(p, "store")
  /\ UNCHANGED <<cell, lock, call, pending, left, reported, noteVars>>

\* store_ptr(val_ptr, made): logged, then stored.  The validator stores
\* nothing.
Store(p) ==
  /\ pc[p] = "store" /\ Passes(p)
  /\ Logged(p, << >>)
  /\ \E o \in Outcomes(p, loc[p].made, Wrong("store", Values)) :
       /\ IF p[2] = "app" THEN cell' = [cell EXCEPT ![loc[p].dest] = o[1]]
                          ELSE UNCHANGED cell
       /\ Note(p, o[2])
  /\ Goto(p, IF loc[p].ret = kStored THEN "unlock" ELSE "makeEntry")
  /\ UNCHANGED <<obj, top, lock, call, loc, pending, left, reported, noteVars>>

\* make_obj(entry_t(..)): alloc_obj, write_at and shadow_commit, which takes
\* the checksum of the copy.
MakeEntry(p) ==
  /\ pc[p] = "makeEntry" /\ Passes(p)
  /\ LET a == Allocated(p)
         e == NewEntry(p)
         others == {[e EXCEPT !.key = k] : k \in Key \ {e.key}}
         wrongs == Wrong("value", {[data |-> w, sum |-> w] : w \in others})
              \cup Wrong("sum",   {[data |-> e, sum |-> w] : w \in others})
     IN \E o \in Outcomes(p, [data |-> e, sum |-> e], wrongs) :
          /\ Logged(p, <<a>>)
          /\ loc' = [loc EXCEPT ![p].made = a]
          /\ IF p[2] = "app" THEN obj' = Extend(obj, a, o[1]) /\ top' = a
                             ELSE UNCHANGED <<obj, top>>
          /\ Note(p, o[2])
  /\ Goto(p, "link")
  /\ UNCHANGED <<cell, lock, call, pending, left, reported, noteVars>>

\* _buckets->v[hv]->reref(new_entry).
Link(p) ==
  /\ pc[p] = "link" /\ Passes(p)
  /\ Logged(p, << >>)
  /\ \E o \in Outcomes(p, loc[p].made, Wrong("store", Entries \cup {0})) :
       /\ IF p[2] = "app" THEN cell' = [cell EXCEPT ![loc[p].hv] = o[1]]
                          ELSE UNCHANGED cell
       /\ Note(p, o[2])
  /\ Goto(p, "unlock")
  /\ UNCHANGED <<obj, top, lock, call, loc, pending, left, reported, noteVars>>

\* The guard's destructor; auxiliary: the operation took effect.
Unlock(p) ==
  /\ pc[p] = "unlock"
  /\ IF p[2] = "app"
     THEN LET c == call[p] IN
          /\ lock' = [lock EXCEPT ![loc[p].hv] = NoApp]
          /\ owed' = [owed EXCEPT ![p[1]] =
                        IF c.op = "get" THEN spec[c.key]
                        ELSE IF spec[c.key] = NoVal THEN kCreated
                        ELSE kStored]
          /\ spec' = IF c.op = "get" THEN spec
                     ELSE [spec EXCEPT ![c.key] = c.val]
     ELSE UNCHANGED <<lock, owed, spec>>
  /\ Goto(p, "return")
  /\ UNCHANGED <<memVars, call, loc, log, pending, left, reported, hit,
                 struck, wrong>>

\* What the client makes of the word it gets.
Answer(op, w) == IF op = "set" THEN w
                 ELSE IF w = 0 THEN NoVal ELSE obj[w].data

\* Mutant: the log gets its own copy of the value, not what the client gets.
ReturnEarly(t) ==
  LET p == <<t, "app">>
      wrongs == IF call[p].op = "set" THEN {kStored, kCreated}
                ELSE Values \cup {0}
  IN
  /\ pc[p] = "return"
  /\ \E o \in Outcomes(p, loc[p].ret, Wrong("return", wrongs)) :
       /\ pending' = [pending EXCEPT ![t] =
            Append(@, [call |-> call[p], struck |-> struck[p] \/ o[2],
                       words |-> log[p] \o <<loc[p].ret, Magic>>])]
       /\ wrong' = (wrong \/ Answer(call[p].op, o[1]) # owed[t])
       /\ hit' = (hit \/ o[2])
  /\ struck' = [struck EXCEPT ![p] = FALSE]
  /\ Goto(p, "idle")
  /\ call' = [call EXCEPT ![p] = NoCall]
  /\ loc' = [loc EXCEPT ![p] = Fresh]
  /\ log' = [log EXCEPT ![p] = << >>]
  /\ owed' = [owed EXCEPT ![t] = NoVal]
  /\ UNCHANGED <<memVars, lock, left, reported, spec>>

\* run2: the return value and the tail are logged, the log is committed, the
\* client gets the value.
Return(t) ==
  LET p == <<t, "app">>
      wrongs == IF call[p].op = "set" THEN {kStored, kCreated}
                ELSE Values \cup {0}
  IN
  /\ pc[p] = "return"
  /\ \E o \in Outcomes(p, loc[p].ret, Wrong("return", wrongs)) :
       /\ pending' = [pending EXCEPT ![t] =
            Append(@, [call |-> call[p], struck |-> struck[p] \/ o[2],
                       words |-> log[p] \o <<o[1], Magic>>])]
       /\ wrong' = (wrong \/ Answer(call[p].op, o[1]) # owed[t])
       /\ hit' = (hit \/ o[2])
  /\ struck' = [struck EXCEPT ![p] = FALSE]
  /\ Goto(p, "idle")
  /\ call' = [call EXCEPT ![p] = NoCall]
  /\ loc' = [loc EXCEPT ![p] = Fresh]
  /\ log' = [log EXCEPT ![p] = << >>]
  /\ owed' = [owed EXCEPT ![t] = NoVal]
  /\ UNCHANGED <<memVars, lock, left, reported, spec>>

\* The validator compares the return value, and close() the tail.
Close(t) ==
  LET p == <<t, "val">> IN
  /\ pc[p] = "return" /\ Passes(p)
  /\ struck' = [struck EXCEPT ![p] = FALSE]
  /\ Goto(p, "idle")
  /\ call' = [call EXCEPT ![p] = NoCall]
  /\ loc' = [loc EXCEPT ![p] = Fresh]
  /\ log' = [log EXCEPT ![p] = << >>]
  /\ UNCHANGED <<memVars, lock, pending, left, reported, hit, noteVars>>

\* A comparison fails: validation_failed().
Report(t) ==
  /\ ~Passes(<<t, "val">>)
  /\ reported' = TRUE
  /\ UNCHANGED <<memVars, lock, runVars, pending, left, hit, struck, noteVars>>

-----------------------------------------------------------------------------
ClosureStep(p) ==
  \/ Lock(p) \/ ReadHead(p) \/ Find(p) \/ Skip(p) \/ Miss(p) \/ Load(p)
  \/ NewCell(p) \/ MakeVal(p) \/ Store(p) \/ MakeEntry(p) \/ Link(p)
  \/ Unlock(p)
AppStep(t) == ClosureStep(<<t, "app">>) \/ Return(t)
ValStep(t) == Open(t) \/ ClosureStep(<<t, "val">>) \/ Close(t) \/ Report(t)

\* All clients are served and all logs validated.
Finished == /\ left = 0
            /\ \A t \in App : pending[t] = << >>
            /\ \A p \in Proc : pc[p] = "idle"

Next ==
  \/ ~reported /\ \E t \in App : Invoke(t) \/ AppStep(t) \/ ValStep(t)
  \/ (reported \/ Finished) /\ UNCHANGED vars

Spec == Init /\ [][Next]_vars

\* The operating system runs every thread; clients ask when they please.
FairSpec == Spec /\ \A t \in App : /\ WF_vars(~reported /\ AppStep(t))
                                   /\ WF_vars(~reported /\ ValStep(t))

-----------------------------------------------------------------------------
(* Properties. *)

\* What the map holds for a key: the first entry of its chain that has it.
Chain(k) ==
  LET find[a \in Entries \cup {0}] ==
        IF a = 0 THEN 0
        ELSE IF obj[a].data.key = k THEN a
        ELSE find[obj[a].data.next]
  IN find[cell[Hash[k]]]
Contents(k) == IF Chain(k) = 0 THEN NoVal
               ELSE obj[cell[obj[Chain(k)].data.cell]].data

TypeOK ==
  /\ top \in Addr
  /\ DOMAIN cell \subseteq 1 .. top /\ \A a \in DOMAIN cell : cell[a] \in Addr
  /\ DOMAIN obj \subseteq 1 .. top
  /\ \A a \in DOMAIN obj : {obj[a].data, obj[a].sum} \subseteq Val
                        \/ {obj[a].data, obj[a].sum} \subseteq Entry
  /\ lock \in [Bucket -> App \cup {NoApp}]
  /\ \A p \in Proc : /\ call[p] \in Call \cup {NoCall}
                     /\ log[p] \in Seq(Word)
                     /\ {loc[p][x] : x \in DOMAIN Fresh} \subseteq Word
  /\ \A t \in App : \A c \in Range(pending[t]) :
       c.call \in Call /\ c.struck \in BOOLEAN /\ c.words \in Seq(Word)
  /\ left \in 0 .. MaxOps
  /\ {reported, hit, wrong} \subseteq BOOLEAN /\ struck \in [Proc -> BOOLEAN]
  /\ spec \in [Key -> Val \cup {NoVal}]

\* Validation raises no false alarm: however closures interleave, and however
\* late a log is replayed, an assertion fails only in a run that a fault hit.
NoFalseAlarm == reported => hit

\* A struck closure that has not been validated yet.
Suspect == \/ \E p \in Proc : struck[p]
           \/ \E t \in App : \E c \in Range(pending[t]) : c.struck

\* Damage is contained: while some client got a wrong answer, or the map (at
\* rest) is not what fault-free closures would have made of it, the closure
\* that was struck is still to be validated, or has been reported.
Damaged == \/ wrong
           \/ \E k \in Key : lock[Hash[k]] = NoApp /\ Contents(k) # spec[k]
Contained == Damaged /\ ~reported => Suspect

\* "if any assert fails, there is an undetected SDC" (faultinject.cpp:33,
\* final_check): when all is validated and nothing reported, the map is right
\* and all answers were.
NoUndetectedSDC == Finished /\ ~reported => ~Damaged

\* Every fault is reported in the end, while validators run.
FaultReported == hit ~> reported
=============================================================================
