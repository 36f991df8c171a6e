----------------------- MODULE LogPipelineRefinement -----------------------
(***************************************************************************)
(* LogPipeline implements LogStore when closures do not nest: a closure's  *)
(* room is live from new_log until reclaim_log has counted it.             *)
(***************************************************************************)
EXTENDS LogPipeline

\* The room of a log: an open one may take MinSize lines, a committed one
\* takes its length.
Room(l) == [buf |-> l.buf, lo |-> l.start, hi |-> EndOf(l)]

\* The logs of thread t, oldest first.
InFlight(t) ==
  (IF valPc[t] = "validate" THEN <<valLog[t]>> ELSE << >>)
    \o queue[t]
    \o (IF frames[t] # << >> THEN <<cur[t]>> ELSE << >>)

liveMapped == [t \in Thread |-> [i \in DOMAIN InFlight(t) |->
                                   Room(InFlight(t)[i])]]
openMapped == [t \in Thread |-> frames[t] # << >> /\ cur[t].len = 0]
endedMapped == [t \in Thread |-> appPc[t] = "exited"]

Store == INSTANCE LogStore WITH live <- liveMapped, open <- openMapped,
                                ended <- endedMapped

\* Every behaviour of the pipeline is one of LogStore: exclusive room,
\* validation in order and once, loss only when a thread has been joined
\* (log.hpp, queue.hpp, scee.cpp together).
ImplementsLogStore == Store!LSSpec
=============================================================================
