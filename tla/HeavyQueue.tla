----------------------------- MODULE HeavyQueue -----------------------------
(***************************************************************************)
(* OrderedJobQueue of src/daemon/jobs.rs: the queue that lets one heavy    *)
(* operation (run, upload, download, interactive or stream terminal) at a  *)
(* time use the notebook.  A step is one critical section of the queue's   *)
(* mutex: condvar.wait releases the mutex, so a thread that has to wait    *)
(* ends its step asleep and tests the condition again in a later one.      *)
(***************************************************************************)
EXTENDS Naturals, Sequences

CONSTANTS Entrants,   \* the ids passed to enter_blocking (job ids, sync ids)
          None        \* Option::None of `running`

ASSUME NoneIsNoEntrant == None \notin Entrants

VARIABLES waiting,    \* VecDeque of the ids that wait
          running,    \* Option of the id that holds the lease
          pc          \* where the thread of an id is

queueVars == <<waiting, running, pc>>

\* asleep: inside condvar.wait.  notified: woken, and about to take the mutex.
PcValues == {"outside", "asleep", "notified", "holding"}

\* The type invariant of OrderedQueueState and of its threads.
QueueTypeOK ==
  /\ waiting \in Seq(Entrants)
  /\ running \in Entrants \cup {None}
  /\ pc \in [Entrants -> PcValues]

QueueInit ==
  /\ waiting = <<>>
  /\ running = None
  /\ pc = [e \in Entrants |-> "outside"]

-----------------------------------------------------------------------------
\* The loop's exit condition: id is at the front and nobody runs.
MutNoFrontTest(e, queue) == running = None
MutNoRunningTest(e, queue) == queue # <<>> /\ Head(queue) = e
MayTake(e, queue) ==
  /\ queue # <<>>
  /\ Head(queue) = e
  /\ running = None

\* One pass of the loop over the queue: take the turn, or sleep.
CheckTurn(e, queue) ==
  \/ /\ MayTake(e, queue)
     /\ waiting' = Tail(queue)
     /\ running' = e
     /\ pc' = [pc EXCEPT ![e] = "holding"]
  \/ /\ ~MayTake(e, queue)
     /\ waiting' = queue
     /\ pc' = [pc EXCEPT ![e] = "asleep"]
     /\ UNCHANGED running

\* enter_blocking up to its return or its first wait.
Enter(e) ==
  /\ pc[e] = "outside"
  /\ CheckTurn(e, Append(waiting, e))

\* The rest of enter_blocking after a wake-up.
Recheck(e) ==
  /\ pc[e] = "notified"
  /\ CheckTurn(e, waiting)

\* A condition variable may wake a waiter that nobody notified.
SpuriousWake(e) ==
  /\ pc[e] = "asleep"
  /\ pc' = [pc EXCEPT ![e] = "notified"]
  /\ UNCHANGED <<waiting, running>>

\* notify_all wakes every sleeper; a notify_one would wake only some sleeper.
MutNotifyOne(p) ==
  IF \E e \in Entrants : p[e] = "asleep"
  THEN {[p EXCEPT ![e] = "notified"] : e \in {x \in Entrants : p[x] = "asleep"}}
  ELSE {p}
Notified(p) == {[e \in Entrants |-> IF p[e] = "asleep" THEN "notified" ELSE p[e]]}

\* Drop of the lease, at the end of the operation or when it unwinds.
MutLeaveSilently(e) ==
  /\ pc[e] = "holding"
  /\ running' = None
  /\ pc' = [pc EXCEPT ![e] = "outside"]
  /\ UNCHANGED waiting
Leave(e) ==
  /\ pc[e] = "holding"
  /\ LET left == [pc EXCEPT ![e] = "outside"]
     IN  \/ /\ running = e
            /\ running' = None
            /\ pc' \in Notified(left)
         \/ /\ running # e
            /\ pc' = left
            /\ UNCHANGED running
  /\ UNCHANGED waiting

QueueNext == \E e \in Entrants :
               Enter(e) \/ Recheck(e) \/ SpuriousWake(e) \/ Leave(e)

(***************************************************************************)
(* A woken thread eventually gets the mutex.  That every lease is dropped   *)
(* is assumed here: it is up to the operation, which may wait for a client  *)
(* (a heavy terminal) or for the other side (WebSocket::connect).          *)
(***************************************************************************)
QueueFairness == \A e \in Entrants : WF_queueVars(Recheck(e)) /\ WF_queueVars(Leave(e))

QueueSafeSpec == QueueInit /\ [][QueueNext]_queueVars

QueueSpec == QueueSafeSpec /\ QueueFairness

-----------------------------------------------------------------------------
InWaiting(e) == \E i \in 1..Len(waiting) : waiting[i] = e

\* The queue's record and the threads agree: `running` names exactly the
\* thread that was given a lease, `waiting` names each waiting thread once and
\* nobody else (jobs.rs 40-53, 74-81).  Two leases at once would break it.
LeaseConsistent ==
  /\ \A e \in Entrants : running = e <=> pc[e] = "holding"
  /\ \A e \in Entrants : InWaiting(e) <=> pc[e] \in {"asleep", "notified"}
  /\ \A i, j \in 1..Len(waiting) : waiting[i] = waiting[j] => i = j

\* No wake-up is lost: whenever the queue is free, the thread at its front is
\* awake, so nobody sleeps in enter_blocking on a free queue (jobs.rs 44, 79).
NoLostWakeup ==
  (waiting # <<>> /\ running = None) => pc[Head(waiting)] = "notified"

\* At most one heavy operation runs (the lease returned at jobs.rs 49).
MutualExclusion ==
  \A a, b \in Entrants : pc[a] = "holding" /\ pc[b] = "holding" => a = b

Fifo == INSTANCE FifoLock WITH queue <- waiting, holder <- running

\* The threads and their wake-ups implement the abstract lock, whose turns
\* are granted in the order of the requests and never withheld.
ImplementsFifoLock == Fifo!Spec

\* Everyone who enters the queue gets a turn, however the others come and go,
\* as long as each of them goes.
EveryEntrantGetsTurn ==
  \A e \in Entrants : InWaiting(e) ~> pc[e] = "holding"
=============================================================================
