----------------------------- MODULE AtomicMap -----------------------------
(***************************************************************************)
(* What the hash map promises its clients: get and set take effect at once *)
(* at some moment between the call and its return, on one map.             *)
(***************************************************************************)
CONSTANTS Client, Key, Val, NoVal, NoAnswer, kStored, kCreated

VARIABLES
  map,     \* the value of each key, NoVal when it has none
  asked,   \* what each client has asked for
  answer   \* and what it will be told, once the operation took effect

amVars == <<map, asked, answer>>

Request   == [op : {"get", "set"}, key : Key, val : Val \cup {NoVal}]
NoRequest == [op |-> "none"]

AMInit == /\ map = [k \in Key |-> NoVal]
          /\ asked = [c \in Client |-> NoRequest]
          /\ answer = [c \in Client |-> NoAnswer]

Ask(c) ==
  /\ asked[c] = NoRequest
  /\ asked' \in {[asked EXCEPT ![c] = q] : q \in Request}
  /\ UNCHANGED <<map, answer>>

Get(c) ==
  /\ asked[c].op = "get" /\ answer[c] = NoAnswer
  /\ answer' = [answer EXCEPT ![c] = map[asked[c].key]]
  /\ UNCHANGED <<map, asked>>

Set(c) ==
  /\ asked[c].op = "set" /\ answer[c] = NoAnswer
  /\ map' = [map EXCEPT ![asked[c].key] = asked[c].val]
  /\ answer' = [answer EXCEPT ![c] =
                  IF map[asked[c].key] = NoVal THEN kCreated ELSE kStored]
  /\ UNCHANGED asked

Tell(c) ==
  /\ answer[c] # NoAnswer
  /\ asked' = [asked EXCEPT ![c] = NoRequest]
  /\ answer' = [answer EXCEPT ![c] = NoAnswer]
  /\ UNCHANGED map

AMNext == \E c \in Client : Ask(c) \/ Get(c) \/ Set(c) \/ Tell(c)
AMSpec == AMInit /\ [][AMNext]_amVars
=============================================================================
