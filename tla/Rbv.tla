-------------------------------- MODULE Rbv --------------------------------
(***************************************************************************)
(* memcached validated by a replica: memcached_rbv_primary executes an     *)
(* operation under the mutex of its bucket, hashes what it touched, and    *)
(* stamps the hash with the bucket's order before and after; each of its   *)
(* group threads then forwards the record and the client's packet over a   *)
(* connection of its own to a thread of memcached_rbv_replica.             *)
(*                                                                         *)
(* A hash is the sequence of what was combined into it.  The value of a    *)
(* set is the set itself, <<group, number>>, which also names the Val that *)
(* setv or set allocates for it.  A connection is a FIFO of lines, for the *)
(* replica reads it up to '\n'; a group's clients are one sequence of      *)
(* packets, ended by "quit", which is not forwarded.                       *)
(***************************************************************************)
EXTENDS Integers, Sequences, FiniteSets

CONSTANTS Group, Key, Bucket, HashOf, Work

Free == "free"        \* no thread holds the mutex

ASSUME RbvAssumption ==
  /\ HashOf \in [Key -> Bucket] /\ Free \notin Group
  /\ Work \in [Group -> Seq([kind : {"get", "set", "del", "other"}, key : Key])]

VARIABLES
  chain,            \* the primary's table: the entries of each bucket
  mutex, order,     \* ordered_mutex_t of each bucket
  freed,            \* the values setv has freed
  pc, hasher,       \* the primary's threads
  result, reply,    \* what hashmap_get, set, del returned; wt_buffer
  done,             \* packets a thread has answered
  wire,             \* lines on the connection of each group
  validation, record, line, \* the replica's threads
  executed,         \* the operations the replica's dispatch has run
  sent, answered    \* history: records forwarded and answers given

primary == <<chain, mutex, order, freed, pc, hasher, result, reply, done, answered>>
replica == <<validation, record, line, executed>>
vars == <<primary, wire, sent, replica>>

Fresh == [info |-> <<>>, latest |-> <<>>]

Init ==
  /\ chain = [b \in Bucket |-> <<>>]
  /\ mutex = [b \in Bucket |-> Free]
  /\ order = [b \in Bucket |-> 0]
  /\ freed = {}
  /\ pc = [g \in Group |-> "read"]
  /\ hasher = [g \in Group |-> Fresh]
  /\ result = [g \in Group |-> <<"error">>]
  /\ reply = [g \in Group |-> <<"error">>]
  /\ done = [g \in Group |-> 0]
  /\ wire = [g \in Group |-> <<>>]
  /\ validation = [g \in Group |-> FALSE]
  /\ record = [g \in Group |-> Fresh]
  /\ line = [g \in Group |-> "none"]
  /\ executed = {}
  /\ sent = [g \in Group |-> <<>>]
  /\ answered = [g \in Group |-> <<>>]

-----------------------------------------------------------------------------
(* hashmap_t: one operation on the chain of its bucket. *)

Position(c, k) == CHOOSE i \in DOMAIN c : c[i].key = k
Holds(c, k) == \E i \in DOMAIN c : c[i].key = k

\* The keys a walk that looks for k combines.
Walk(c, k) == [i \in 1..(IF Holds(c, k) THEN Position(c, k) ELSE Len(c)) |-> c[i].key]

Did(hash, told, c, gone) == [hash |-> hash, result |-> told, chain |-> c, freed |-> gone]

Get(c, k) ==
  IF Holds(c, k)
  THEN LET val == c[Position(c, k)].val
       IN Did(Append(Walk(c, k), val), <<"value", val>>, c, {})
  ELSE Did(Walk(c, k), <<"notfound">>, c, {})

Set(c, k, v) ==
  IF Holds(c, k)
  THEN LET p == Position(c, k)
       IN Did(Append(Walk(c, k), c[p].val), <<"stored">>, [c EXCEPT ![p].val = v], {c[p].val})
  ELSE Did(Walk(c, k) \o <<k, v, k>>, <<"created">>, <<[key |-> k, val |-> v]>> \o c, {})

\* Mutant: the value goes with the entry.
DelFrees(c, k) ==
  IF Holds(c, k)
  THEN LET p == Position(c, k)
       IN Did(Append(Walk(c, k), c[p].val), <<"deleted">>,
              SubSeq(c, 1, p - 1) \o SubSeq(c, p + 1, Len(c)), {c[p].val})
  ELSE Did(Walk(c, k), <<"notfound">>, c, {})
\* The entry is freed, its value is not.
Del(c, k) ==
  IF Holds(c, k)
  THEN LET p == Position(c, k)
       IN Did(Append(Walk(c, k), c[p].val), <<"deleted">>,
              SubSeq(c, 1, p - 1) \o SubSeq(c, p + 1, Len(c)), {})
  ELSE Did(Walk(c, k), <<"notfound">>, c, {})

Outcome(c, op, v) == CASE op.kind = "get" -> Get(c, op.key)
                       [] op.kind = "set" -> Set(c, op.key, v)
                       [] op.kind = "del" -> Del(c, op.key)

-----------------------------------------------------------------------------
(* memcached_rbv_primary: fd_worker::run of the thread of a group. *)

Op(g) == Work[g][done[g] + 1]
Id(g) == <<g, done[g] + 1>>
BucketOf(g) == HashOf[Op(g).key]
Go(g, from, to) == pc[g] = from /\ pc' = [pc EXCEPT ![g] = to]

\* A packet that is no operation.
NoOperation(g) ==
  /\ done[g] < Len(Work[g]) /\ Op(g).kind = "other"
  /\ Go(g, "read", "send")
  /\ reply' = [reply EXCEPT ![g] = <<"error">>]
  /\ UNCHANGED <<chain, mutex, order, freed, hasher, result, done, answered, wire, sent, replica>>

\* hasher_t::checkorder of the primary.
Checkorder(h, now) ==
  [info |-> Append(h.info, [hash |-> h.latest, time |-> now]), latest |-> <<>>]

Stamp(g) ==
  /\ hasher' = [hasher EXCEPT ![g] = Checkorder(@, order[BucketOf(g)])]
  /\ order' = [order EXCEPT ![BucketOf(g)] = @ + 1]

\* The ordered_guard_t of get, set and del; nobody sees a bucket's mutex
\* between the stamp and the step before or after it.
\* Mutant: the mutex is not waited for.
EnterBlind(g) ==
  /\ done[g] < Len(Work[g]) /\ Op(g).kind # "other"
  /\ Go(g, "read", "body")
  /\ mutex' = [mutex EXCEPT ![BucketOf(g)] = g]
  /\ Stamp(g)
  /\ UNCHANGED <<chain, freed, result, reply, done, answered, wire, sent, replica>>
Enter(g) ==
  /\ done[g] < Len(Work[g]) /\ Op(g).kind # "other"
  /\ mutex[BucketOf(g)] = Free
  /\ Go(g, "read", "body")
  /\ mutex' = [mutex EXCEPT ![BucketOf(g)] = g]
  /\ Stamp(g)
  /\ UNCHANGED <<chain, freed, result, reply, done, answered, wire, sent, replica>>

Leave(g) ==
  /\ Go(g, "leave", "reply")
  /\ Stamp(g)
  /\ mutex' = [mutex EXCEPT ![BucketOf(g)] = Free]
  /\ UNCHANGED <<chain, freed, result, reply, done, answered, wire, sent, replica>>

Operate(g) ==
  LET out == Outcome(chain[BucketOf(g)], Op(g), Id(g))
  IN /\ Go(g, "body", "leave")
     /\ chain' = [chain EXCEPT ![BucketOf(g)] = out.chain]
     /\ hasher' = [hasher EXCEPT ![g].latest = @ \o out.hash]
     /\ result' = [result EXCEPT ![g] = out.result]
     /\ freed' = freed \cup out.freed
     /\ UNCHANGED <<mutex, order, reply, done, answered, wire, sent, replica>>

\* The answer is made when the mutex is no longer held: a get copies what its
\* pointer points to, whatever that holds by now if setv has freed it.
Reply(g) ==
  /\ Go(g, "reply", "send")
  /\ \E copy \in {result[g]} \cup
       (IF result[g][1] = "value" /\ result[g][2] \in freed THEN {<<"garbage">>} ELSE {}) :
       reply' = [reply EXCEPT ![g] = copy]
  /\ UNCHANGED <<chain, mutex, order, freed, hasher, result, done, answered, wire, sent, replica>>

\* Mutant: the packet is sent without a second '\n'.
LinesTwo(h, id) == <<[kind |-> "record", record |-> h, op |-> id],
                     [kind |-> "packet", record |-> Fresh, op |-> id]>>
\* What is written to the replica: the record, and the packet with the '\n'
\* it came with and another one.
Lines(h, id) == Append(<<[kind |-> "record", record |-> h, op |-> id],
                         [kind |-> "packet", record |-> Fresh, op |-> id]>>,
                       [kind |-> "empty", record |-> Fresh, op |-> id])

\* Mutant: finalize does not clear the record.
SendKeeps(g) ==
  /\ Go(g, "send", "answer")
  /\ wire' = [wire EXCEPT ![g] = @ \o Lines(hasher[g], Id(g))]
  /\ sent' = [sent EXCEPT ![g] = Append(@, hasher[g])]
  /\ UNCHANGED <<chain, mutex, order, freed, hasher, result, reply, done, answered, replica>>
Send(g) ==
  /\ Go(g, "send", "answer")
  /\ wire' = [wire EXCEPT ![g] = @ \o Lines(hasher[g], Id(g))]
  /\ sent' = [sent EXCEPT ![g] = Append(@, hasher[g])]
  /\ hasher' = [hasher EXCEPT ![g] = Fresh]
  /\ UNCHANGED <<chain, mutex, order, freed, result, reply, done, answered, replica>>

Answer(g) ==
  /\ Go(g, "answer", "read")
  /\ answered' = [answered EXCEPT ![g] = Append(@, reply[g])]
  /\ done' = [done EXCEPT ![g] = @ + 1]
  /\ UNCHANGED <<chain, mutex, order, freed, hasher, result, reply, wire, sent, replica>>

-----------------------------------------------------------------------------
(* memcached_rbv_replica: fd_worker::run of the thread of a group. *)

Take(g) == wire[g] # <<>> /\ wire' = [wire EXCEPT ![g] = Tail(@)]

\* The loop reads a line; the first one is deserialized.
ReadRecord(g) ==
  /\ ~validation[g] /\ line[g] = "none"
  /\ Take(g)
  /\ record' = [record EXCEPT ![g] = Head(wire[g]).record]
  /\ validation' = [validation EXCEPT ![g] = TRUE]
  /\ UNCHANGED <<primary, sent, line, executed>>

\* The loop reads a line, and so does the body before it looks at one.
ReadLine(g) ==
  /\ validation[g] /\ line[g] = "none"
  /\ Take(g)
  /\ line' = [line EXCEPT ![g] = "read"]
  /\ UNCHANGED <<primary, sent, validation, record, executed>>

\* What the dispatch runs of a line.  As the primary frames its packets this
\* is nothing (see Framed), and the walks of hashmap_t, their hashes and the
\* waits of the replica's checkorder are not modelled for it.
Executes(l) == IF l.kind = "packet" THEN {l.op} ELSE {}

\* Mutant: validation is not reset.
ValidateKeeps(g) ==
  /\ line[g] = "read"
  /\ Take(g)
  /\ executed' = executed \cup Executes(Head(wire[g]))
  /\ record[g].latest = <<>>
  /\ line' = [line EXCEPT ![g] = "none"]
  /\ record' = [record EXCEPT ![g] = Fresh]
  /\ UNCHANGED <<primary, sent, validation>>

\* The body reads the packet to run, runs it, and the hash left over is
\* compared with the one the primary had left over: an assertion.
Validate(g) ==
  /\ line[g] = "read"
  /\ Take(g)
  /\ executed' = executed \cup Executes(Head(wire[g]))
  /\ record[g].latest = <<>>
  /\ line' = [line EXCEPT ![g] = "none"]
  /\ validation' = [validation EXCEPT ![g] = FALSE]
  /\ record' = [record EXCEPT ![g] = Fresh]
  /\ UNCHANGED <<primary, sent>>

-----------------------------------------------------------------------------
Primary(g) == NoOperation(g) \/ Enter(g) \/ Operate(g) \/ Leave(g)
              \/ Reply(g) \/ Send(g) \/ Answer(g)
Replica(g) == ReadRecord(g) \/ ReadLine(g) \/ Validate(g)

Finished == \A g \in Group : done[g] = Len(Work[g]) /\ wire[g] = <<>>
\* The clients have quit and the replica waits for more to read.
Stopped == Finished /\ UNCHANGED vars

Next == (\E g \in Group : Primary(g) \/ Replica(g)) \/ Stopped
Spec == Init /\ [][Next]_vars
FairSpec == Spec /\ \A g \in Group : WF_vars(Primary(g)) /\ WF_vars(Replica(g))

-----------------------------------------------------------------------------
Value == UNION {{g} \X (1..Len(Work[g])) : g \in Group}

\* A record holds two stamps at most: finalize leaves nothing for the next one.
TypeOK ==
  /\ chain \in [Bucket -> Seq([key : Key, val : Value])]
  /\ mutex \in [Bucket -> Group \cup {Free}] /\ order \in [Bucket -> Nat]
  /\ freed \subseteq Value /\ done \in [Group -> Nat]
  /\ \A g \in Group : /\ Len(hasher[g].info) <= 2
                      /\ \A i \in DOMAIN hasher[g].info : hasher[g].info[i].time \in Nat
                      /\ \A i \in DOMAIN wire[g] : wire[g][i].kind \in {"record", "packet", "empty"}
  /\ validation \in [Group -> BOOLEAN] /\ line \in [Group -> {"none", "read"}]
  /\ executed \subseteq Value

\* The operations on bucket b that have stamped it twice, with their records:
\* those forwarded and those about to be.
Kept(g) == IF pc[g] \in {"reply", "send"} THEN Append(sent[g], hasher[g]) ELSE sent[g]
Records(b) ==
  UNION {{[op |-> Work[g][i], id |-> <<g, i>>, info |-> Kept(g)[i].info] :
            i \in {j \in DOMAIN Kept(g) :
                     Work[g][j].kind # "other" /\ HashOf[Work[g][j].key] = b}} : g \in Group}

\* The records by their numbers, a record's being half its first stamp, and
\* what becomes of an empty bucket when they are executed in that order.
Number(r) == r.info[1].time \div 2 + 1
Ordered(recs) == [n \in 1..Cardinality(recs) |-> CHOOSE r \in recs : Number(r) = n]
Replay(log) ==
  LET after[n \in 0..Len(log)] ==
        IF n = 0 THEN Did(<<>>, <<>>, <<>>, {})
        ELSE Outcome(after[n - 1].chain, log[n].op, log[n].id)
  IN after

\* The records are what a replica needs, whatever the order they arrive in:
\* the stamps of a bucket number its operations, and executing them by their
\* numbers gives the hashes recorded and, with nobody in the bucket, the
\* bucket's contents.
Settled(b) == \A g \in Group : pc[g] \in {"body", "leave"} => BucketOf(g) # b
RecordsReplayable ==
  \A b \in Bucket :
    LET recs == Records(b)
        log == Ordered(recs)
        after == Replay(log)
    IN /\ {r.info[1].time : r \in recs} = {2 * i - 2 : i \in DOMAIN log}
       /\ \A i \in DOMAIN log :
            log[i].info = <<[hash |-> <<>>, time |-> 2 * i - 2],
                            [hash |-> after[i].hash, time |-> 2 * i - 1]>>
       /\ Settled(b) => chain[b] = after[Len(log)].chain /\ order[b] = 2 * Len(log)

\* A client has been told what the replay of the records tells, except that a
\* get may have answered what is left of a value that a later set replaced.
Told(r) == answered[r.id[1]][r.id[2]]
AnswersRecorded ==
  \A b \in Bucket : Settled(b) =>
    LET recs == Records(b)
        log == Ordered(recs)
        after == Replay(log)
    IN \A n \in DOMAIN log :
         log[n].id[2] \in DOMAIN answered[log[n].id[1]] =>
           \/ Told(log[n]) = after[n].result
           \/ /\ Told(log[n]) = <<"garbage">> /\ after[n].result[1] = "value"
              /\ \E m \in n + 1..Len(log) :
                   log[m].op = [kind |-> "set", key |-> log[n].op.key]

\* Primary and replica stay in step: the replica deserializes records and
\* nothing else, and what it dispatches is never a packet.
Framed ==
  \A g \in Group : wire[g] # <<>> =>
    LET kind == Head(wire[g]).kind
    IN /\ (kind = "record") <=> ~validation[g]
       /\ (kind = "empty") <=> line[g] = "read"

\* Every record that is forwarded is finalized, and no assertion of the
\* replica stops it.
AllFinalized ==
  <>(Finished /\ \A g \in Group : ~validation[g] /\ line[g] = "none")

\* The replica executes what it has validated (rbv_replica.cpp:11 asserts that
\* a record has a hash for each check, rbv_replica.cpp:18 that it is the
\* replica's own).
ReplicaExecutes ==
  \A g \in Group : \A i \in DOMAIN sent[g] :
    (wire[g] = <<>> /\ ~validation[g] /\ line[g] = "none") =>
      (Work[g][i].kind # "other" => <<g, i>> \in executed)
=============================================================================
