------------------------------ MODULE LogStore ------------------------------
(***************************************************************************)
(* What the log pipeline promises, with no buffers to recycle, queue or    *)
(* validator: every closure gets room of its own for its log, which nobody *)
(* else is given until the closure has been validated; the closures of a   *)
(* thread are validated in the order they ran, each once; and logs are     *)
(* lost only in the one step with which the thread that wrote them ends,   *)
(* after which it runs no more closures.                                   *)
(***************************************************************************)
EXTENDS Naturals, Sequences, SequencesExt

CONSTANTS Thread, Buffer, MaxSize, MinSize

VARIABLES
  live,   \* per thread, the room of each closure not yet validated, in order
  open,   \* whether the last of them is still running
  ended   \* whether the thread has ended

lsVars == <<live, open, ended>>

Region == [buf : Buffer, lo : 0 .. MaxSize, hi : 0 .. MaxSize]
Apart(r, s) == r.buf = s.buf => r.hi <= s.lo \/ s.hi <= r.lo

LSInit ==
  /\ live = [t \in Thread |-> << >>]
  /\ open = [t \in Thread |-> FALSE]
  /\ ended = [t \in Thread |-> FALSE]

\* A closure starts: it may write MinSize lines that no live closure uses.
Begin(t) ==
  /\ ~open[t] /\ ~ended[t]
  /\ open' = [open EXCEPT ![t] = TRUE]
  /\ UNCHANGED ended
  /\ \E r \in Region :
       /\ r.hi = r.lo + MinSize
       /\ \A u \in Thread : \A i \in DOMAIN live[u] : Apart(r, live[u][i])
       /\ live' = [live EXCEPT ![t] = Append(@, r)]

\* It returns: it keeps what it wrote, the rest may be given away.
Finish(t) ==
  /\ open[t]
  /\ open' = [open EXCEPT ![t] = FALSE]
  /\ UNCHANGED ended
  /\ \E n \in 1 .. MinSize :
       live' = [live EXCEPT ![t][Len(live[t])].hi = Last(live[t]).lo + n]

\* The oldest closure that has returned has been validated.
Validated(t) ==
  /\ live[t] # << >>
  /\ open[t] => Len(live[t]) > 1
  /\ UNCHANGED <<open, ended>>
  /\ live' = [live EXCEPT ![t] = Tail(@)]

\* The thread ends, once and for good, outside a closure; what is left of its
\* closures is never validated.
ThreadEnds(t) ==
  /\ ~open[t] /\ ~ended[t]
  /\ ended' = [ended EXCEPT ![t] = TRUE]
  /\ UNCHANGED open
  /\ live' = [live EXCEPT ![t] = << >>]

LSNext ==
  \E t \in Thread : Begin(t) \/ Finish(t) \/ Validated(t) \/ ThreadEnds(t)
LSSpec == LSInit /\ [][LSNext]_lsVars
=============================================================================
