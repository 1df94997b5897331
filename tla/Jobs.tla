-------------------------------- MODULE Jobs --------------------------------
(***************************************************************************)
(* JobManager of src/daemon/jobs.rs, the threads that run its jobs, and    *)
(* the clients that poll them (wait_job_result of src/client.rs).          *)
(* Jobs submitted with submit_ordered take their turn in the heavy queue,  *)
(* which they share with the requests and terminals that enter it without  *)
(* a job.  A step is one critical section of the mutex of the job table or *)
(* of the queue, or the end of a job's closure between two of them.        *)
(***************************************************************************)
EXTENDS HeavyQueue

CONSTANTS Ids,        \* job ids (each is submitted at most once)
          Ordered,    \* those submitted with submit_ordered
          Watched,    \* those whose client polls for the result
          Retention,  \* job_retention
          PollGap,    \* longest time between two polls of a client
          LockDelay,  \* longest time between a closure's end and the update
          Timeout,    \* timeout of wait_job_result
          MaxTime     \* bound of the clock

ASSUME JobsAssumption ==
  /\ Entrants \cap Ids = Ordered /\ Watched \subseteq Ids
  /\ {Retention, PollGap, LockDelay, Timeout, MaxTime} \subseteq Nat

\* Other users of the queue: run_blocking, terminals.
Direct == Entrants \ Ordered

VARIABLES
  now,        \* direct::now()
  table,      \* `jobs`: the status of each job, "none" if it has no entry
  thread,     \* where the job's thread is
  update,     \* the thread's local `update`: status and `finished`
  client,     \* what wait_job_result has returned, or "polling"
  asked,      \* when the client called wait_job_result
  polled,     \* when it polled last
  recorded    \* history: when the job's final status was written

tableVars == <<table, thread, update, recorded>>
clientVars == <<client, asked, polled>>
vars == <<queueVars, now, tableVars, clientVars>>

Final == {"succeeded", "failed"}
Statuses == Final \cup {"none", "queued", "running"}
Threads == {"none", "spawned", "working", "returned", "recorded", "panicked"}
Answers == Final \cup {"none", "polling", "unknown", "timeout", "error"}
Time == 0..MaxTime

\* The type invariant: a status is one the client understands (client.rs 84-100).
TypeOK ==
  /\ QueueTypeOK
  /\ now \in Time
  /\ table \in [Ids -> Statuses]
  /\ thread \in [Ids -> Threads]
  /\ update \in [Ids -> [status : Final \cup {"none"}, finished : Time]]
  /\ client \in [Ids -> Answers]
  /\ asked \in [Ids -> Time] /\ polled \in [Ids -> Time]
  /\ recorded \in [Ids -> Time]

Init ==
  /\ QueueInit
  /\ now = 0
  /\ table = [j \in Ids |-> "none"]
  /\ thread = [j \in Ids |-> "none"]
  /\ update = [j \in Ids |-> [status |-> "none", finished |-> 0]]
  /\ client = [j \in Ids |-> "none"]
  /\ asked = [j \in Ids |-> 0] /\ polled = [j \in Ids |-> 0]
  /\ recorded = [j \in Ids |-> 0]

-----------------------------------------------------------------------------
(* The table. *)

\* prune_locked: finished jobs stay for Retention, the others for ever.
MutPruneUnstarted(j) == table[j] \in Final \cup {"queued"} /\ now - update[j].finished > Retention
MutPruneEarly(j) == table[j] \in Final /\ now - update[j].finished >= Retention
Expired(j) == table[j] \in Final /\ now - update[j].finished > Retention

\* submit and submit_ordered; the client waits for the id it is given.
Submit(j) ==
  /\ thread[j] = "none"
  /\ j \in Watched => now + Timeout <= MaxTime
  /\ table' = [i \in Ids |-> IF i = j THEN "queued"
                             ELSE IF Expired(i) THEN "none" ELSE table[i]]
  /\ thread' = [thread EXCEPT ![j] = "spawned"]
  /\ IF j \in Watched
     THEN /\ client' = [client EXCEPT ![j] = "polling"]
          /\ asked' = [asked EXCEPT ![j] = now]
          /\ polled' = [polled EXCEPT ![j] = now]
     ELSE UNCHANGED clientVars
  /\ UNCHANGED <<queueVars, now, update, recorded>>

\* get_mut and merge_job: write a status, if the entry is still there.
SetStatus(j, status) ==
  table' = [table EXCEPT ![j] = IF @ = "none" THEN @ ELSE status]

-----------------------------------------------------------------------------
(* The thread of a job. *)

\* An ordered job first takes its turn.
EnterQueue(j) ==
  /\ j \in Ordered
  /\ thread[j] = "spawned"
  /\ Enter(j)
  /\ UNCHANGED <<now, tableVars, clientVars>>

MutStartsWithoutTurn(j) == TRUE
HasTurn(j) == j \in Ordered => pc[j] = "holding"

Start(j) ==
  /\ thread[j] = "spawned" /\ HasTurn(j)
  /\ thread' = [thread EXCEPT ![j] = "working"]
  /\ SetStatus(j, "running")
  /\ UNCHANGED <<queueVars, now, update, recorded, clientVars>>

\* func returned; `finished` is taken here, before the table's mutex.
Return(j, status) ==
  /\ thread[j] = "working"
  /\ thread' = [thread EXCEPT ![j] = "returned"]
  /\ update' = [update EXCEPT ![j] = [status |-> status, finished |-> now]]
  /\ UNCHANGED <<queueVars, now, table, recorded, clientVars>>

\* func panicked: the thread unwinds and no status is written.
Panic(j) ==
  /\ thread[j] = "working"
  /\ thread' = [thread EXCEPT ![j] = "panicked"]
  /\ UNCHANGED <<queueVars, now, table, update, recorded, clientVars>>

MutRecordsTwice(j) ==
  /\ thread[j] \in {"returned", "recorded"}
  /\ thread' = [thread EXCEPT ![j] = "recorded"]
  /\ SetStatus(j, IF thread[j] = "recorded" THEN "running" ELSE update[j].status)
  /\ recorded' = [recorded EXCEPT ![j] = now]
  /\ UNCHANGED <<queueVars, now, update, clientVars>>
Record(j) ==
  /\ thread[j] = "returned"
  /\ thread' = [thread EXCEPT ![j] = "recorded"]
  /\ SetStatus(j, update[j].status)
  /\ recorded' = [recorded EXCEPT ![j] = now]
  /\ UNCHANGED <<queueVars, now, update, clientVars>>

\* The closure's locals are dropped, the lease of an ordered job among them.
MutLeaveEarly(j) ==
  /\ j \in Ordered
  /\ thread[j] \in {"working", "returned", "recorded", "panicked"}
  /\ Leave(j)
  /\ UNCHANGED <<now, tableVars, clientVars>>
MutLeaveOnlyRecorded(j) ==
  /\ j \in Ordered
  /\ thread[j] = "recorded"
  /\ Leave(j)
  /\ UNCHANGED <<now, tableVars, clientVars>>
LeaveQueue(j) ==
  /\ j \in Ordered
  /\ thread[j] \in {"recorded", "panicked"}
  /\ Leave(j)
  /\ UNCHANGED <<now, tableVars, clientVars>>

-----------------------------------------------------------------------------
(* The others. *)

QueueWakeup(e) ==
  /\ Recheck(e) \/ SpuriousWake(e)
  /\ UNCHANGED <<now, tableVars, clientVars>>

DirectEnter(d) == Enter(d) /\ UNCHANGED <<now, tableVars, clientVars>>
DirectLeave(d) == Leave(d) /\ UNCHANGED <<now, tableVars, clientVars>>

Deadline(j) == asked[j] + Timeout

Answer(j, answer) ==
  /\ client' = [client EXCEPT ![j] = answer]
  /\ polled' = [polled EXCEPT ![j] = now]
  /\ UNCHANGED <<queueVars, now, tableVars, asked>>

\* One /v1/job request of wait_job_result; the client ends if the request fails.
MutPollForgetsFailure(j) ==
  /\ client[j] = "polling" /\ now < Deadline(j)
  /\ Answer(j, CASE table[j] = "none" -> "unknown"
                 [] table[j] = "succeeded" -> "succeeded"
                 [] OTHER -> "polling")
Poll(j) ==
  /\ client[j] = "polling" /\ now < Deadline(j)
  /\ \/ Answer(j, CASE table[j] = "none" -> "unknown"
                 [] table[j] \in Final -> table[j]
                 [] OTHER -> "polling")
     \/ Answer(j, "error")

GiveUp(j) ==
  /\ client[j] = "polling" /\ now >= Deadline(j)
  /\ client' = [client EXCEPT ![j] = "timeout"]
  /\ UNCHANGED <<queueVars, now, tableVars, asked, polled>>

(***************************************************************************)
(* Time passes, but a polling client does not sleep beyond PollGap or its  *)
(* deadline, and a thread gets the table's mutex within LockDelay.         *)
(***************************************************************************)
Tick ==
  /\ now < MaxTime
  /\ \A j \in Ids :
       /\ client[j] = "polling" => now < polled[j] + PollGap
       /\ thread[j] = "returned" => now < update[j].finished + LockDelay
  /\ now' = now + 1
  /\ UNCHANGED <<queueVars, tableVars, clientVars>>

JobStep(j) ==
  \/ Start(j) \/ Record(j) \/ EnterQueue(j) \/ LeaveQueue(j)
  \/ Panic(j) \/ \E s \in Final : Return(j, s)

Next ==
  \/ \E j \in Ids : Submit(j) \/ JobStep(j) \/ Poll(j) \/ GiveUp(j)
  \/ \E e \in Entrants : QueueWakeup(e)
  \/ \E d \in Direct : DirectEnter(d) \/ DirectLeave(d)
  \/ Tick

(***************************************************************************)
(* Threads are scheduled, and clients keep polling.  Nothing says that a   *)
(* closure or a direct user of the queue ends: WebSocket::connect has no   *)
(* timeout, and a heavy terminal is held until its client closes it.       *)
(***************************************************************************)
Fairness ==
  /\ \A j \in Ids :
       /\ WF_vars(EnterQueue(j)) /\ WF_vars(Start(j)) /\ WF_vars(Record(j))
       /\ WF_vars(LeaveQueue(j)) /\ WF_vars(Poll(j)) /\ WF_vars(GiveUp(j))
  /\ \A e \in Entrants :
       WF_vars(Recheck(e) /\ UNCHANGED <<now, tableVars, clientVars>>)
  /\ WF_vars(Tick)

SafeSpec == Init /\ [][Next]_vars

Spec == SafeSpec /\ Fairness

-----------------------------------------------------------------------------
\* The table tells where each thread is: an entry stays until its job is
\* finished, and only a job whose thread unwound is "running" with no thread
\* to end it (jobs.rs 126-139, 166-185, 213-218).
TableTellsThread == \A j \in Ids :
  /\ thread[j] = "spawned" => table[j] = "queued"
  /\ thread[j] \in {"working", "returned", "panicked"} => table[j] = "running"
  /\ thread[j] = "recorded" => table[j] \in {update[j].status, "none"}

\* A client that polls in time never hears "unknown job id": pruning cannot
\* overtake it, though `finished` is taken before the status is visible
\* (jobs.rs 178-182, 210-226; client.rs 67-82).  It needs Retention to cover
\* both delays.
ClientKnowsItsJob ==
  Retention >= PollGap + LockDelay => \A j \in Ids : client[j] # "unknown"

\* Whoever works under the queue is alone: two ordered jobs both shown as
\* "running" differ in that one of them panicked, and no direct holder works
\* meanwhile (jobs.rs 165-185: the lease outlives the final update).
OneHeavyAtATime ==
  LET Works(j) == thread[j] \in {"working", "returned"}
  IN  /\ \A i, j \in Ordered : Works(i) /\ Works(j) => i = j
      /\ \A j \in Ordered, d \in Direct : ~(Works(j) /\ pc[d] = "holding")

\* A client reports what its job's closure returned, and it gives up only if
\* the result came too late to be polled (client.rs 66-105).
ClientReportsOutcome == \A j \in Ids :
  /\ client[j] \in Final => client[j] = update[j].status
  /\ (client[j] = "timeout" /\ thread[j] = "recorded")
       => recorded[j] + PollGap >= Deadline(j)

\* A final status never changes; it can only be pruned, after Retention.
FinalStatusKept ==
  [][\A j \in Ids : table[j] \in Final =>
       \/ table'[j] = table[j]
       \/ table'[j] = "none" /\ now > update[j].finished + Retention]_vars

\* The table's view of a job, where a pruned job is told from one to come.
Shown == [j \in Ids |->
            IF thread[j] = "recorded" /\ table[j] = "none" THEN "forgotten" ELSE table[j]]

Executor == INSTANCE SerialJobs
              WITH Serial <- Ordered, Others <- Direct,
                   queue <- waiting, holder <- running, status <- Shown

\* The threads, the table and the queue implement an executor that takes the
\* ordered jobs and the direct users one after the other, in the order of their
\* requests: a status is never written outside the turn it belongs to, no turn
\* ends before its job was started, and no status goes back (jobs.rs 143-187).
ImplementsExecutor == Executor!SafeSpec

\* If no closure and no direct user of the queue works for ever, every job that
\* was accepted ends, with a final status or by a panic: nothing else can keep it
\* from its turn, be it a panic of the job before it, the requests that come in
\* meanwhile, or a client that is gone (jobs.rs 40-53, 74-81, 104-187).
EveryJobEnds ==
  (/\ \A j \in Ids : []<>(thread[j] # "working")
   /\ \A d \in Direct : []<>(pc[d] # "holding"))
  => \A j \in Ids : thread[j] = "spawned" ~> thread[j] \in {"recorded", "panicked"}
=============================================================================
