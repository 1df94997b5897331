------------------------------ MODULE FifoLock ------------------------------
(***************************************************************************)
(* What the heavy queue promises to its users: at most one holder, turns   *)
(* granted in the order of the requests, and no turn withheld while the    *)
(* lock is free.  There are no threads, mutexes or wake-ups here; module   *)
(* HeavyQueue is shown to implement this one.                              *)
(***************************************************************************)
EXTENDS Naturals, Sequences

CONSTANTS Entrants,   \* the ids that ask for a turn
          None        \* no holder

VARIABLES queue,      \* the requests not granted yet, oldest first
          holder      \* who has the turn

vars == <<queue, holder>>

Queued(e) == \E i \in 1..Len(queue) : queue[i] = e

Init == queue = <<>> /\ holder = None

Request(e) ==
  /\ ~Queued(e) /\ holder # e
  /\ queue' = Append(queue, e)
  /\ UNCHANGED holder

\* A request that finds the lock free and nobody ahead is granted at once.
Acquire(e) ==
  /\ queue = <<>> /\ holder = None
  /\ holder' = e
  /\ UNCHANGED queue

Grant ==
  /\ queue # <<>> /\ holder = None
  /\ holder' = Head(queue)
  /\ queue' = Tail(queue)

Release ==
  /\ holder # None
  /\ holder' = None
  /\ UNCHANGED queue

Next == Grant \/ Release \/ \E e \in Entrants : Request(e) \/ Acquire(e)

SafeSpec == Init /\ [][Next]_vars

Spec == SafeSpec /\ WF_vars(Grant) /\ WF_vars(Release)
=============================================================================
