----------------------------- MODULE SerialJobs -----------------------------
(***************************************************************************)
(* What the job manager and the heavy queue promise together: a job is     *)
(* queued, runs, ends and is forgotten, in this order, and the jobs that   *)
(* take turns are executed one after the other, each wholly within its own *)
(* turn, the turns being granted in the order of the requests.  There are  *)
(* no threads, wake-ups, clocks or clients here; module Jobs is shown to   *)
(* implement this one.                                                     *)
(***************************************************************************)
EXTENDS Naturals, Sequences

CONSTANTS Ids,       \* jobs
          Serial,    \* those that take turns
          Others,    \* whoever takes turns without being a job
          None

VARIABLES queue, holder,   \* the turns
          status           \* what the table of jobs shows of each job

vars == <<queue, holder, status>>

Turns == INSTANCE FifoLock WITH Entrants <- Serial \cup Others

Ended == {"succeeded", "failed"}

Init == Turns!Init /\ status = [j \in Ids |-> "none"]

\* A job is accepted; jobs that have ended may be forgotten on this occasion.
Accept(j) ==
  /\ status[j] = "none"
  /\ \E gone \in SUBSET {i \in Ids : status[i] \in Ended} :
       status' = [i \in Ids |-> IF i = j THEN "queued"
                                ELSE IF i \in gone THEN "forgotten" ELSE status[i]]
  /\ UNCHANGED <<queue, holder>>

\* A job asks for its turn after it was accepted, and before it runs.
Ask(e) ==
  /\ Turns!Request(e) \/ Turns!Acquire(e)
  /\ e \in Serial => status[e] = "queued"
  /\ UNCHANGED status

Grant == Turns!Grant /\ UNCHANGED status

\* A turn is never given back unused.  A job may be abandoned: its turn is over
\* while it is shown as running, and so it stays.
GiveBack ==
  /\ Turns!Release
  /\ holder \in Serial => status[holder] # "queued"
  /\ UNCHANGED status

HasTurn(j) == j \in Serial => holder = j

Change(j, old, new) ==
  /\ status[j] = old /\ HasTurn(j)
  /\ status' = [status EXCEPT ![j] = new]
  /\ UNCHANGED <<queue, holder>>

Next ==
  \/ \E j \in Ids :
       \/ Accept(j)
       \/ Change(j, "queued", "running")
       \/ \E s \in Ended : Change(j, "running", s)
  \/ \E e \in Serial \cup Others : Ask(e)
  \/ Grant \/ GiveBack

SafeSpec == Init /\ [][Next]_vars
=============================================================================
