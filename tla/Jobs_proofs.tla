------------------------------ MODULE Jobs_proofs ------------------------------
(***************************************************************************)
(* Proofs about the heavy queue, for any set of entrants, and about the    *)
(* job manager and its clients.                                            *)
(* Of the queue: its types, the agreement of its record with the threads,  *)
(* the absence of lost wake-ups, mutual exclusion, and the implementation  *)
(* of FifoLock (its initial states and steps).  Every step of the jobs is  *)
(* a step of the queue or leaves it alone, so all this holds for them too. *)
(* The rest follows from TableInv, which adds to the properties when each  *)
(* status was written and when each client asked last: without these times *)
(* nothing would relate the client that still polls to the pruning of its  *)
(* job.                                                                    *)
(***************************************************************************)
EXTENDS Jobs, TLAPS

\* Appending an element keeps the older ones where they are.
LEMMA AppendFacts ==
  ASSUME NEW S, NEW s \in Seq(S), NEW e \in S
  PROVE  /\ Append(s, e) \in Seq(S)
         /\ Append(s, e) # <<>>
         /\ Len(Append(s, e)) = Len(s) + 1
         /\ \A i \in 1..Len(s) : Append(s, e)[i] = s[i]
         /\ Append(s, e)[Len(s) + 1] = e
  OBVIOUS

\* Removing the front shifts the rest by one.
LEMMA TailFacts ==
  ASSUME NEW S, NEW s \in Seq(S), s # <<>>
  PROVE  /\ Tail(s) \in Seq(S)
         /\ Len(s) \in Nat /\ Len(s) >= 1
         /\ Head(s) = s[1] /\ Head(s) \in S
         /\ Len(Tail(s)) = Len(s) - 1
         /\ \A i \in 1..Len(Tail(s)) : Tail(s)[i] = s[i + 1]
  OBVIOUS

-----------------------------------------------------------------------------
\* Every step keeps the variables in their types (jobs.rs 16-19).
THEOREM TypeCorrect == QueueSafeSpec => []QueueTypeOK
<1>1. QueueInit => QueueTypeOK
  BY DEF QueueInit, QueueTypeOK, PcValues
<1>2. QueueTypeOK /\ [QueueNext]_queueVars => QueueTypeOK'
  <2> SUFFICES ASSUME QueueTypeOK, [QueueNext]_queueVars PROVE QueueTypeOK'
    OBVIOUS
  <2>1. ASSUME NEW e \in Entrants, NEW queue \in Seq(Entrants), CheckTurn(e, queue)
        PROVE  QueueTypeOK'
    <3>1. CASE MayTake(e, queue) /\ waiting' = Tail(queue) /\ running' = e
               /\ pc' = [pc EXCEPT ![e] = "holding"]
      <4>1. waiting' \in Seq(Entrants)
        BY <3>1, TailFacts DEF MayTake
      <4>2. QED
        BY <3>1, <4>1 DEF QueueTypeOK, PcValues
    <3>2. CASE waiting' = queue /\ pc' = [pc EXCEPT ![e] = "asleep"]
               /\ UNCHANGED running
      BY <3>2 DEF QueueTypeOK, PcValues
    <3>3. QED
      BY <2>1, <3>1, <3>2 DEF CheckTurn
  <2>2. ASSUME NEW e \in Entrants, Enter(e) PROVE QueueTypeOK'
    BY <2>1, <2>2, AppendFacts DEF Enter, QueueTypeOK
  <2>3. ASSUME NEW e \in Entrants, Recheck(e) PROVE QueueTypeOK'
    BY <2>1, <2>3 DEF Recheck, QueueTypeOK
  <2>4. ASSUME NEW e \in Entrants, SpuriousWake(e) PROVE QueueTypeOK'
    BY <2>4 DEF SpuriousWake, QueueTypeOK, PcValues
  <2>5. ASSUME NEW e \in Entrants, Leave(e) PROVE QueueTypeOK'
    BY <2>5 DEF Leave, Notified, QueueTypeOK, PcValues
  <2>6. CASE UNCHANGED queueVars
    BY <2>6 DEF queueVars, QueueTypeOK
  <2>7. QED
    BY <2>2, <2>3, <2>4, <2>5, <2>6 DEF QueueNext
<1>3. QED
  BY <1>1, <1>2, PTL DEF QueueSafeSpec

-----------------------------------------------------------------------------
Occurs(e, s) == \E i \in 1..Len(s) : s[i] = e
Distinct(s) == \A i, j \in 1..Len(s) : s[i] = s[j] => i = j

\* Appending a newcomer adds exactly that element, and no duplicate.
LEMMA AppendMembers ==
  ASSUME NEW S, NEW s \in Seq(S), NEW e \in S, Distinct(s), ~Occurs(e, s)
  PROVE  /\ Distinct(Append(s, e))
         /\ \A x : Occurs(x, Append(s, e)) <=> Occurs(x, s) \/ x = e
<1>1. /\ Len(s) \in Nat /\ Len(Append(s, e)) = Len(s) + 1
      /\ \A i \in 1..Len(s) : Append(s, e)[i] = s[i]
      /\ Append(s, e)[Len(s) + 1] = e
  BY AppendFacts
<1>2. Distinct(Append(s, e))
  BY <1>1 DEF Distinct, Occurs
<1>3. ASSUME NEW x PROVE Occurs(x, Append(s, e)) <=> Occurs(x, s) \/ x = e
  <2>1. ASSUME Occurs(x, Append(s, e)) PROVE Occurs(x, s) \/ x = e
    BY <1>1, <2>1 DEF Occurs
  <2>2. ASSUME Occurs(x, s) PROVE Occurs(x, Append(s, e))
    BY <1>1, <2>2 DEF Occurs
  <2>3. ASSUME x = e PROVE Occurs(x, Append(s, e))
    <3>1. Len(s) + 1 \in 1..Len(Append(s, e))
      BY <1>1
    <3>2. QED
      BY <1>1, <2>3, <3>1 DEF Occurs
  <2>4. QED
    BY <2>1, <2>2, <2>3
<1>4. QED
  BY <1>2, <1>3

\* Removing the front of a list without duplicates removes exactly that element.
LEMMA TailMembers ==
  ASSUME NEW S, NEW s \in Seq(S), s # <<>>, Distinct(s)
  PROVE  /\ Distinct(Tail(s))
         /\ \A x : Occurs(x, Tail(s)) <=> Occurs(x, s) /\ x # Head(s)
<1>1. /\ Len(s) \in Nat /\ Len(s) >= 1 /\ Head(s) = s[1]
      /\ Len(Tail(s)) = Len(s) - 1
      /\ \A i \in 1..Len(Tail(s)) : Tail(s)[i] = s[i + 1]
  BY TailFacts
<1>2. Distinct(Tail(s))
  BY <1>1 DEF Distinct
<1>3. ASSUME NEW x PROVE Occurs(x, Tail(s)) <=> Occurs(x, s) /\ x # Head(s)
  <2>1. ASSUME Occurs(x, Tail(s)) PROVE Occurs(x, s) /\ x # Head(s)
    <3>1. PICK i \in 1..Len(Tail(s)) : Tail(s)[i] = x
      BY <2>1 DEF Occurs
    <3>2. i + 1 \in 1..Len(s) /\ s[i + 1] = x /\ i + 1 # 1 /\ 1 \in 1..Len(s)
      BY <1>1, <3>1
    <3>3. QED
      BY <1>1, <3>2 DEF Occurs, Distinct
  <2>2. ASSUME Occurs(x, s), x # Head(s) PROVE Occurs(x, Tail(s))
    <3>1. PICK i \in 1..Len(s) : s[i] = x
      BY <2>2 DEF Occurs
    <3>2. i - 1 \in 1..Len(Tail(s)) /\ Tail(s)[i - 1] = x
      BY <1>1, <2>2, <3>1
    <3>3. QED
      BY <3>2 DEF Occurs
  <2>3. QED
    BY <2>1, <2>2
<1>4. QED
  BY <1>2, <1>3

-----------------------------------------------------------------------------
\* `waiting` and `running` describe the threads exactly: whoever is given a
\* lease is the one thread `running` names (jobs.rs 40-53, 74-81).
THEOREM LeasesConsistent == QueueSafeSpec => []LeaseConsistent
<1> DEFINE Waits(e, p) == p[e] \in {"asleep", "notified"}
<1>1. QueueInit => LeaseConsistent
  BY NoneIsNoEntrant DEF QueueInit, LeaseConsistent, InWaiting
<1>2. QueueTypeOK /\ LeaseConsistent /\ [QueueNext]_queueVars => LeaseConsistent'
  <2> SUFFICES ASSUME QueueTypeOK, LeaseConsistent, [QueueNext]_queueVars
               PROVE  LeaseConsistent'
    OBVIOUS
  <2>1. /\ \A e \in Entrants : running = e <=> pc[e] = "holding"
        /\ \A e \in Entrants : Occurs(e, waiting) <=> Waits(e, pc)
        /\ Distinct(waiting)
    BY DEF LeaseConsistent, InWaiting, Occurs, Distinct
  <2>2. ASSUME /\ \A e \in Entrants : running' = e <=> pc'[e] = "holding"
               /\ \A e \in Entrants : Occurs(e, waiting') <=> Waits(e, pc')
               /\ Distinct(waiting')
        PROVE  LeaseConsistent'
    BY <2>2 DEF LeaseConsistent, InWaiting, Occurs, Distinct
  \* One pass of the loop of a thread that is in the queue it tests.
  <2>3. ASSUME NEW e \in Entrants, NEW queue \in Seq(Entrants), Distinct(queue),
               \A x \in Entrants : Occurs(x, queue) <=> Waits(x, pc) \/ x = e,
               pc[e] # "holding", CheckTurn(e, queue)
        PROVE  LeaseConsistent'
    <3>1. CASE MayTake(e, queue) /\ waiting' = Tail(queue) /\ running' = e
               /\ pc' = [pc EXCEPT ![e] = "holding"]
      <4>1. /\ Distinct(waiting')
            /\ \A x : Occurs(x, waiting') <=> Occurs(x, queue) /\ x # e
        BY <2>3, <3>1, TailMembers DEF MayTake
      <4>2. \A x \in Entrants : running' = x <=> pc'[x] = "holding"
        BY <2>1, <3>1, NoneIsNoEntrant DEF MayTake, QueueTypeOK
      <4>3. \A x \in Entrants : Occurs(x, waiting') <=> Waits(x, pc')
        BY <2>3, <3>1, <4>1 DEF QueueTypeOK
      <4>4. QED
        BY <2>2, <4>1, <4>2, <4>3
    <3>2. CASE waiting' = queue /\ pc' = [pc EXCEPT ![e] = "asleep"]
               /\ UNCHANGED running
      <4>1. \A x \in Entrants : running' = x <=> pc'[x] = "holding"
        BY <2>1, <2>3, <3>2 DEF QueueTypeOK
      <4>2. \A x \in Entrants : Occurs(x, waiting') <=> Waits(x, pc')
        BY <2>3, <3>2 DEF QueueTypeOK
      <4>3. QED
        BY <2>2, <2>3, <3>2, <4>1, <4>2
    <3>3. QED
      BY <2>3, <3>1, <3>2 DEF CheckTurn
  <2>4. ASSUME NEW e \in Entrants, Enter(e) PROVE LeaseConsistent'
    <3>1. ~Occurs(e, waiting) /\ pc[e] # "holding" /\ waiting \in Seq(Entrants)
      BY <2>1, <2>4 DEF Enter, QueueTypeOK
    <3>2. /\ Append(waiting, e) \in Seq(Entrants)
          /\ Distinct(Append(waiting, e))
          /\ \A x : Occurs(x, Append(waiting, e)) <=> Occurs(x, waiting) \/ x = e
      BY <2>1, <3>1, AppendFacts, AppendMembers
    <3>3. \A x \in Entrants : Occurs(x, Append(waiting, e)) <=> Waits(x, pc) \/ x = e
      BY <2>1, <3>2
    <3>4. CheckTurn(e, Append(waiting, e))
      BY <2>4 DEF Enter
    <3>5. QED
      BY <2>3, <3>1, <3>2, <3>3, <3>4
  <2>5. ASSUME NEW e \in Entrants, Recheck(e) PROVE LeaseConsistent'
    <3>1. pc[e] = "notified" /\ waiting \in Seq(Entrants) /\ CheckTurn(e, waiting)
      BY <2>5 DEF Recheck, QueueTypeOK
    <3>2. \A x \in Entrants : Occurs(x, waiting) <=> Waits(x, pc) \/ x = e
      BY <2>1, <3>1
    <3>3. QED
      BY <2>1, <2>3, <3>1, <3>2
  <2>6. ASSUME NEW e \in Entrants, SpuriousWake(e) PROVE LeaseConsistent'
    BY <2>1, <2>2, <2>6 DEF SpuriousWake, QueueTypeOK
  <2>7. ASSUME NEW e \in Entrants, Leave(e) PROVE LeaseConsistent'
    <3>1. pc[e] = "holding" /\ running = e /\ running' = None /\ waiting' = waiting
      BY <2>1, <2>7 DEF Leave
    <3>2. \A x \in Entrants :
            pc'[x] = IF x = e THEN "outside"
                     ELSE IF pc[x] = "asleep" THEN "notified" ELSE pc[x]
      BY <2>7, <3>1 DEF Leave, Notified, QueueTypeOK
    <3>3. \A x \in Entrants : running' = x <=> pc'[x] = "holding"
      BY <2>1, <3>1, <3>2, NoneIsNoEntrant
    <3>4. \A x \in Entrants : Occurs(x, waiting') <=> Waits(x, pc')
      BY <2>1, <3>1, <3>2
    <3>5. QED
      BY <2>1, <2>2, <3>1, <3>3, <3>4
  <2>8. CASE UNCHANGED queueVars
    BY <2>1, <2>2, <2>8 DEF queueVars
  <2>9. QED
    BY <2>4, <2>5, <2>6, <2>7, <2>8 DEF QueueNext
<1>3. QED
  BY <1>1, <1>2, TypeCorrect, PTL DEF QueueSafeSpec

\* At most one thread holds a lease, so one heavy operation runs at a time.
THEOREM MutuallyExclusive == QueueSafeSpec => []MutualExclusion
<1>1. LeaseConsistent => MutualExclusion
  BY DEF LeaseConsistent, MutualExclusion
<1>2. QED
  BY <1>1, LeasesConsistent, PTL

-----------------------------------------------------------------------------
\* Nobody is left asleep at the front of a free queue: the wake-ups of Leave
\* and the tests of the loop leave no gap between them (jobs.rs 44-46, 77-80).
THEOREM WakeupNeverLost == QueueSafeSpec => []NoLostWakeup
<1>1. QueueInit => NoLostWakeup
  BY DEF QueueInit, NoLostWakeup
<1>2. /\ QueueTypeOK /\ LeaseConsistent /\ NoLostWakeup /\ [QueueNext]_queueVars
      => NoLostWakeup'
  <2> SUFFICES ASSUME QueueTypeOK, LeaseConsistent, NoLostWakeup, [QueueNext]_queueVars,
                      waiting' # <<>>, running' = None
               PROVE  pc'[Head(waiting')] = "notified"
    BY DEF NoLostWakeup
  <2>1. ASSUME waiting # <<>>
        PROVE  /\ Head(waiting) \in Entrants
               /\ pc[Head(waiting)] \in {"asleep", "notified"}
    <3>1. Head(waiting) \in Entrants /\ InWaiting(Head(waiting))
      BY <2>1, TailFacts DEF QueueTypeOK, InWaiting
    <3>2. QED
      BY <3>1 DEF LeaseConsistent
  <2>2. ASSUME NEW e \in Entrants, NEW queue, CheckTurn(e, queue)
        PROVE  /\ waiting' = queue /\ running = None
               /\ pc' = [pc EXCEPT ![e] = "asleep"]
               /\ Head(queue) # e
    BY <2>2, NoneIsNoEntrant DEF CheckTurn, MayTake
  <2>3. ASSUME NEW e \in Entrants, Enter(e)
        PROVE  pc'[Head(waiting')] = "notified"
    <3>1. /\ waiting' = Append(waiting, e) /\ running = None
          /\ pc' = [pc EXCEPT ![e] = "asleep"]
          /\ Head(Append(waiting, e)) # e
      BY <2>2, <2>3 DEF Enter
    <3>2. waiting # <<>> /\ Head(Append(waiting, e)) = Head(waiting)
      BY <3>1 DEF QueueTypeOK
    <3>3. pc[Head(waiting)] = "notified" /\ Head(waiting) # e
      BY <3>1, <3>2 DEF NoLostWakeup
    <3>4. QED
      BY <2>1, <3>1, <3>2, <3>3 DEF QueueTypeOK
  <2>4. ASSUME NEW e \in Entrants, Recheck(e)
        PROVE  pc'[Head(waiting')] = "notified"
    <3>1. /\ waiting' = waiting /\ running = None
          /\ pc' = [pc EXCEPT ![e] = "asleep"]
          /\ Head(waiting) # e
      BY <2>2, <2>4 DEF Recheck
    <3>2. QED
      BY <2>1, <3>1 DEF QueueTypeOK, NoLostWakeup
  <2>5. ASSUME NEW e \in Entrants, SpuriousWake(e)
        PROVE  pc'[Head(waiting')] = "notified"
    BY <2>1, <2>5 DEF SpuriousWake, QueueTypeOK, NoLostWakeup
  <2>6. ASSUME NEW e \in Entrants, Leave(e)
        PROVE  pc'[Head(waiting')] = "notified"
    <3>1. /\ waiting' = waiting /\ pc[e] = "holding" /\ running = e
      BY <2>6 DEF Leave, LeaseConsistent
    <3>2. \A x \in Entrants :
            pc'[x] = IF x = e THEN "outside"
                     ELSE IF pc[x] = "asleep" THEN "notified" ELSE pc[x]
      BY <2>6, <3>1 DEF Leave, Notified, QueueTypeOK
    <3>3. QED
      BY <2>1, <3>1, <3>2
  <2>7. CASE UNCHANGED queueVars
    BY <2>7 DEF queueVars, NoLostWakeup
  <2>8. QED
    BY <2>3, <2>4, <2>5, <2>6, <2>7 DEF QueueNext
<1>3. QED
  BY <1>1, <1>2, TypeCorrect, LeasesConsistent, PTL DEF QueueSafeSpec

-----------------------------------------------------------------------------
\* What the operations of the threads are to the abstract lock: whoever enters
\* requests a turn, and has it at once if the lock is free and nobody waits;
LEMMA EnterRequests ==
  \A e \in Entrants :
    QueueTypeOK /\ LeaseConsistent /\ Enter(e) => Fifo!Request(e) \/ Fifo!Acquire(e)
<1> SUFFICES ASSUME NEW e \in Entrants, QueueTypeOK, LeaseConsistent, Enter(e)
             PROVE  Fifo!Request(e) \/ Fifo!Acquire(e)
  OBVIOUS
<1>1. pc[e] = "outside" /\ ~Fifo!Queued(e) /\ running # e
  BY DEF Enter, LeaseConsistent, InWaiting, Fifo!Queued
<1>2. CASE MayTake(e, Append(waiting, e))
  <2>1. /\ Head(Append(waiting, e)) = e /\ running = None
        /\ waiting' = Tail(Append(waiting, e)) /\ running' = e
    BY <1>2 DEF Enter, CheckTurn, MayTake
  <2>2. waiting = <<>>
    <3>1. waiting # <<>> => Head(Append(waiting, e)) = Head(waiting)
      BY DEF QueueTypeOK
    <3>2. waiting # <<>> => Fifo!Queued(Head(waiting))
      BY TailFacts DEF QueueTypeOK, Fifo!Queued
    <3>3. QED
      BY <1>1, <2>1, <3>1, <3>2
  <2>3. Tail(Append(waiting, e)) = <<>>
    BY <2>2
  <2>4. QED
    BY <2>1, <2>2, <2>3 DEF Fifo!Acquire
<1>3. CASE ~MayTake(e, Append(waiting, e))
  BY <1>1, <1>3 DEF Enter, CheckTurn, Fifo!Request
<1>4. QED
  BY <1>2, <1>3

\* a wake-up is a grant or nothing;
LEMMA WakeupGrants ==
  \A e \in Entrants :
    Recheck(e) \/ SpuriousWake(e) => Fifo!Grant \/ UNCHANGED <<waiting, running>>
<1> SUFFICES ASSUME NEW e \in Entrants, Recheck(e) \/ SpuriousWake(e)
             PROVE  Fifo!Grant \/ UNCHANGED <<waiting, running>>
  OBVIOUS
<1>1. CASE Recheck(e) /\ MayTake(e, waiting)
  BY <1>1 DEF Recheck, CheckTurn, MayTake, Fifo!Grant
<1>2. CASE Recheck(e) /\ ~MayTake(e, waiting)
  BY <1>2 DEF Recheck, CheckTurn
<1>3. CASE SpuriousWake(e)
  BY <1>3 DEF SpuriousWake
<1>4. QED
  BY <1>1, <1>2, <1>3

\* and only the holder gives its turn back.
LEMMA LeaveReleases ==
  \A e \in Entrants : LeaseConsistent /\ Leave(e) => Fifo!Release /\ running = e
<1> SUFFICES ASSUME NEW e \in Entrants, LeaseConsistent, Leave(e)
             PROVE  Fifo!Release /\ running = e
  OBVIOUS
<1>1. running = e /\ running' = None /\ waiting' = waiting
  BY DEF Leave, LeaseConsistent
<1>2. QED
  BY <1>1, NoneIsNoEntrant DEF Fifo!Release

\* Every behaviour of the threads is one of the abstract lock: each step of
\* enter_blocking or of the lease's drop is a request, a grant, a release or
\* nothing, so turns are granted in the order of the requests.
THEOREM ImplementsFifo == QueueSafeSpec => Fifo!SafeSpec
<1>1. QueueInit => Fifo!Init
  BY DEF QueueInit, Fifo!Init
<1>2. QueueTypeOK /\ LeaseConsistent /\ [QueueNext]_queueVars => [Fifo!Next]_(Fifo!vars)
  BY EnterRequests, WakeupGrants, LeaveReleases DEF QueueNext, queueVars, Fifo!Next, Fifo!vars
<1>3. QED
  BY <1>1, <1>2, TypeCorrect, LeasesConsistent, PTL DEF QueueSafeSpec, Fifo!SafeSpec
-----------------------------------------------------------------------------
\* f waits in front of e.
Before(f, e) == \E i, k \in 1..Len(waiting) : i < k /\ waiting[i] = f /\ waiting[k] = e

\* e stays and nobody gets in front of it.
KeepsPlace(e) == InWaiting(e)' /\ \A f \in Entrants : Before(f, e)' => Before(f, e)

\* Nobody gets in front of a thread that waits, and each turn given to another one
\* takes that one away from its front for as long as it waits: so as many turns
\* as there were threads in front of it are given before its own, however many
\* come after it and whoever comes back (jobs.rs 42-53).
THEOREM NobodyOvertakes ==
  QueueSafeSpec =>
    [][\A e \in Entrants : InWaiting(e) =>
         \/ running' = e
         \/ /\ KeepsPlace(e)
            /\ \A f \in Entrants \ {running} :
                 running' = f => Before(f, e) /\ ~Before(f, e)']_queueVars
<1> DEFINE Fair(e) == \/ running' = e
                      \/ /\ KeepsPlace(e)
                         /\ \A f \in Entrants \ {running} :
                              running' = f => Before(f, e) /\ ~Before(f, e)'
<1>1. ASSUME QueueTypeOK, LeaseConsistent, QueueNext, NEW e \in Entrants, InWaiting(e)
      PROVE  Fair(e)
  <2>0. waiting \in Seq(Entrants) /\ Distinct(waiting)
    BY <1>1 DEF QueueTypeOK, LeaseConsistent, Distinct
  <2>k. PICK k \in 1..Len(waiting) : waiting[k] = e
    BY <1>1 DEF InWaiting
  <2>1. waiting # <<>> /\ Len(waiting) \in Nat
    BY <2>0, <2>k
  <2>2. CASE waiting' = waiting /\ running' \in {running, None}
    BY <1>1, <2>2, NoneIsNoEntrant DEF KeepsPlace, Before, InWaiting
  <2>3. ASSUME NEW n \in Entrants, Fifo!Request(n) PROVE Fair(e)
    <3>1. waiting' = Append(waiting, n) /\ running' = running /\ n # e
      BY <1>1, <2>3 DEF Fifo!Request, Fifo!Queued, InWaiting
    <3>2. /\ Len(waiting') = Len(waiting) + 1 /\ waiting'[Len(waiting) + 1] = n
          /\ \A i \in 1..Len(waiting) : waiting'[i] = waiting[i]
      BY <2>0, <3>1, AppendFacts
    <3>3. InWaiting(e)'
      BY <2>1, <2>k, <3>2 DEF InWaiting
    <3>4. ASSUME NEW f \in Entrants, Before(f, e)' PROVE Before(f, e)
      <4>1. PICK i, l \in 1..Len(waiting') : i < l /\ waiting'[i] = f /\ waiting'[l] = e
        BY <3>4 DEF Before
      <4>2. l # Len(waiting) + 1
        BY <3>1, <3>2, <4>1
      <4>3. i \in 1..Len(waiting) /\ l \in 1..Len(waiting)
        BY <2>1, <3>2, <4>1, <4>2
      <4> QED
        BY <3>2, <4>1, <4>3 DEF Before
    <3> QED
      BY <3>1, <3>3, <3>4 DEF KeepsPlace
  <2>4. CASE Fifo!Grant
    <3>1. waiting' = Tail(waiting) /\ running' = waiting[1] /\ waiting[1] \in Entrants
      BY <2>0, <2>1, <2>4, TailFacts DEF Fifo!Grant
    <3>2. /\ Len(waiting') = Len(waiting) - 1
          /\ \A i \in 1..Len(waiting') : waiting'[i] = waiting[i + 1]
      BY <2>0, <2>1, <3>1, TailFacts
    <3>3. CASE k = 1
      BY <2>k, <3>1, <3>3
    <3>4. CASE k # 1
      <4>1. k - 1 \in 1..Len(waiting') /\ waiting'[k - 1] = e
        BY <2>1, <2>k, <3>2, <3>4
      <4>2. InWaiting(e)'
        BY <4>1 DEF InWaiting
      <4>3. ASSUME NEW f \in Entrants, Before(f, e)'
            PROVE  Before(f, e) /\ f # waiting[1]
        <5>1. PICK i, l \in 1..Len(waiting') : i < l /\ waiting'[i] = f /\ waiting'[l] = e
          BY <4>3 DEF Before
        <5>2. /\ i + 1 \in 1..Len(waiting) /\ l + 1 \in 1..Len(waiting)
              /\ i + 1 < l + 1 /\ i + 1 # 1 /\ 1 \in 1..Len(waiting)
          BY <2>1, <3>2, <5>1
        <5>3. waiting[i + 1] = f /\ waiting[l + 1] = e
          BY <3>2, <5>1
        <5> QED
          BY <2>0, <5>2, <5>3 DEF Before, Distinct
      <4>4. Before(waiting[1], e)
        <5>1. 1 \in 1..Len(waiting) /\ 1 < k
          BY <2>1, <2>k, <3>4
        <5> QED
          BY <2>k, <5>1 DEF Before
      <4> QED
        BY <3>1, <4>2, <4>3, <4>4 DEF KeepsPlace
    <3> QED
      BY <3>3, <3>4
  <2>5. ASSUME NEW n \in Entrants, Fifo!Acquire(n) PROVE FALSE
    BY <2>1, <2>5 DEF Fifo!Acquire
  <2>6. ASSUME Fifo!Release PROVE Fair(e)
    BY <2>2, <2>6 DEF Fifo!Release
  <2>7. ASSUME NEW n \in Entrants, Enter(n) \/ Recheck(n) \/ SpuriousWake(n) \/ Leave(n)
        PROVE  Fair(e)
    BY <1>1, <2>2, <2>3, <2>4, <2>5, <2>6, <2>7, EnterRequests, WakeupGrants, LeaveReleases
  <2> QED
    BY <1>1, <2>7 DEF QueueNext
<1>2. QueueTypeOK /\ LeaseConsistent /\ [QueueNext]_queueVars
        => [\A e \in Entrants : InWaiting(e) => Fair(e)]_queueVars
  BY <1>1
<1> QED
  BY <1>2, TypeCorrect, LeasesConsistent, PTL DEF QueueSafeSpec

-----------------------------------------------------------------------------
\* An entrant of the queue is an ordered job or a direct user.
LEMMA QueueUsers ==
  /\ Ordered \subseteq Ids /\ Ordered \subseteq Entrants /\ Direct \subseteq Entrants
  /\ Direct \cap Ids = {} /\ Entrants = Ordered \cup Direct
  BY JobsAssumption DEF Direct

\* The jobs, their clients and the direct users use the queue only through its
\* own operations.
LEMMA JobsUseQueue == SafeSpec => QueueSafeSpec
<1>1. Init => QueueInit
  BY DEF Init
<1>2. [Next]_vars => [QueueNext]_queueVars
  <2> SUFFICES ASSUME [Next]_vars PROVE [QueueNext]_queueVars
    OBVIOUS
  <2> USE DEF queueVars, queueVars
  <2>1. ASSUME NEW j \in Ids, Submit(j) PROVE UNCHANGED queueVars
    BY <2>1 DEF Submit
  <2>2. ASSUME NEW j \in Ids, JobStep(j) PROVE [QueueNext]_queueVars
    BY <2>2, QueueUsers DEF JobStep, Start, Record, EnterQueue, LeaveQueue, Panic, Return, QueueNext
  <2>3. ASSUME NEW j \in Ids, Poll(j) \/ GiveUp(j) PROVE UNCHANGED queueVars
    BY <2>3 DEF Poll, GiveUp, Answer
  <2>4. ASSUME NEW e \in Entrants, QueueWakeup(e) PROVE QueueNext
    BY <2>4 DEF QueueWakeup, QueueNext
  <2>5. ASSUME NEW d \in Direct, DirectEnter(d) \/ DirectLeave(d) PROVE QueueNext
    BY <2>5, QueueUsers DEF DirectEnter, DirectLeave, QueueNext
  <2>6. ASSUME Tick PROVE UNCHANGED queueVars
    BY <2>6 DEF Tick
  <2>7. ASSUME UNCHANGED vars PROVE UNCHANGED queueVars
    BY <2>7 DEF vars
  <2> QED
    BY <2>1, <2>2, <2>3, <2>4, <2>5, <2>6, <2>7 DEF Next
<1> QED
  BY <1>1, <1>2, PTL DEF SafeSpec, QueueSafeSpec

\* So what is proved of the queue holds in the jobs' threads.
LEMMA QueueInJobs == SafeSpec => [](QueueTypeOK /\ LeaseConsistent)
  BY JobsUseQueue, TypeCorrect, LeasesConsistent, PTL

-----------------------------------------------------------------------------
(* The table, the threads of the jobs and the clients. *)

\* The types of everything but the queue.
TableTypes ==
  /\ now \in Time
  /\ table \in [Ids -> Statuses]
  /\ thread \in [Ids -> Threads]
  /\ update \in [Ids -> [status : Final \cup {"none"}, finished : Time]]
  /\ client \in [Ids -> Answers]
  /\ asked \in [Ids -> Time] /\ polled \in [Ids -> Time]
  /\ recorded \in [Ids -> Time]

\* Where the job's entry and its thread stand to each other.
Entry(j) ==
  /\ thread[j] = "none" => table[j] = "none" /\ client[j] = "none"
  /\ thread[j] = "spawned" => table[j] = "queued"
  /\ thread[j] \in {"working", "returned", "panicked"} => table[j] = "running"
  /\ thread[j] = "recorded" => table[j] \in {update[j].status, "none"}
  /\ thread[j] \in {"returned", "recorded"} => update[j].status \in Final

\* When the job's thread did its last steps.
Timely(j) ==
  /\ thread[j] \in {"returned", "recorded"} => update[j].finished <= now
  /\ thread[j] = "returned" => now <= update[j].finished + LockDelay
  /\ thread[j] = "recorded" => /\ recorded[j] <= update[j].finished + LockDelay
                               /\ recorded[j] <= now

\* A polling client asked a moment ago, and before the status was final.
Polling(j) ==
  client[j] = "polling" =>
    /\ polled[j] <= now /\ now <= polled[j] + PollGap
    /\ thread[j] = "recorded" => polled[j] <= recorded[j]

\* What the client knows, and that it gave up no earlier than it may.
Told(j) ==
  /\ client[j] \in Final => thread[j] = "recorded" /\ client[j] = update[j].status
  /\ client[j] = "timeout" => now >= Deadline(j)
  /\ (client[j] = "timeout" /\ thread[j] = "recorded")
       => recorded[j] + PollGap >= Deadline(j)

\* With enough retention the entry outlives the client's interest in it.
Known(j) ==
  Retention >= PollGap + LockDelay =>
    /\ client[j] # "unknown"
    /\ client[j] = "polling" => table[j] # "none"

\* The inductive invariant.
TableInv ==
  /\ TableTypes
  /\ \A j \in Ids : Entry(j) /\ Timely(j) /\ Polling(j) /\ Told(j) /\ Known(j)

\* No step of a job, a client, the queue or the clock breaks it.
LEMMA TableInvStep == TableInv /\ [Next]_vars => TableInv'
<1> SUFFICES ASSUME TableInv, [Next]_vars PROVE TableInv'
  OBVIOUS
<1> USE JobsAssumption DEF TableInv, TableTypes, Time, Final, Statuses, Threads, Answers
<1> DEFINE Good(j) == Entry(j) /\ Timely(j) /\ Polling(j) /\ Told(j) /\ Known(j)
<1>1. ASSUME NEW i \in Ids, Submit(i) PROVE TableInv'
  <2>1. TableTypes'
    <3>1. table' \in [Ids -> Statuses] /\ thread' \in [Ids -> Threads]
      BY <1>1 DEF Submit
    <3>2. /\ client' \in [Ids -> Answers]
          /\ asked' \in [Ids -> Time] /\ polled' \in [Ids -> Time]
      <4>1. CASE i \in Watched
        BY <1>1, <4>1 DEF Submit
      <4>2. CASE i \notin Watched
        BY <1>1, <4>2 DEF Submit, clientVars
      <4> QED
        BY <4>1, <4>2
    <3> QED
      BY <1>1, <3>1, <3>2 DEF Submit
  <2>2. ASSUME NEW j \in Ids PROVE Good(j)'
    <3>1. CASE j = i
      <4>1. table'[i] = "queued" /\ thread'[i] = "spawned" /\ now' = now
        BY <1>1 DEF Submit
      <4>2. \/ client'[i] = "polling" /\ polled'[i] = now
            \/ client'[i] = "none"
        BY <1>1 DEF Submit, clientVars, Entry
      <4> QED
        BY <3>1, <4>1, <4>2 DEF Entry, Timely, Polling, Told, Known
    <3>2. CASE j # i /\ ~Expired(j)
      BY <1>1, <2>1, <3>2
      DEF Submit, Expired, clientVars, Entry, Timely, Polling, Told, Known, Deadline
    <3>3. CASE j # i /\ Expired(j)
      <4>1. thread[j] = "recorded" /\ table'[j] = "none"
        BY <1>1, <3>3 DEF Submit, Expired, Entry
      <4>2. Retention >= PollGap + LockDelay => client[j] # "polling"
        BY <3>3, <4>1 DEF Expired, Timely, Polling
      <4> QED
        BY <1>1, <2>1, <3>3, <4>1, <4>2
        DEF Submit, clientVars, Entry, Timely, Polling, Told, Known, Deadline
    <3> QED
      BY <3>1, <3>2, <3>3
  <2> QED
    BY <2>1, <2>2
<1>2. ASSUME NEW i \in Ids, Start(i) PROVE TableInv'
  <2>1. TableTypes'
    BY <1>2 DEF Start, SetStatus, clientVars
  <2>2. ASSUME NEW j \in Ids PROVE Good(j)'
    BY <1>2, <2>1
    DEF Start, SetStatus, clientVars, Entry, Timely, Polling, Told, Known, Deadline
  <2> QED
    BY <2>1, <2>2
<1>3. ASSUME NEW i \in Ids, NEW s \in Final, Return(i, s) PROVE TableInv'
  <2>1. TableTypes'
    BY <1>3 DEF Return, clientVars
  <2>2. ASSUME NEW j \in Ids PROVE Good(j)'
    BY <1>3, <2>1 DEF Return, clientVars, Entry, Timely, Polling, Told, Known, Deadline
  <2> QED
    BY <2>1, <2>2
<1>4. ASSUME NEW i \in Ids, Panic(i) PROVE TableInv'
  <2>1. TableTypes'
    BY <1>4 DEF Panic, clientVars
  <2>2. ASSUME NEW j \in Ids PROVE Good(j)'
    BY <1>4, <2>1 DEF Panic, clientVars, Entry, Timely, Polling, Told, Known, Deadline
  <2> QED
    BY <2>1, <2>2
<1>5. ASSUME NEW i \in Ids, Record(i) PROVE TableInv'
  <2>1. TableTypes'
    BY <1>5 DEF Record, SetStatus, clientVars, Entry
  <2>2. ASSUME NEW j \in Ids PROVE Good(j)'
    BY <1>5, <2>1
    DEF Record, SetStatus, clientVars, Entry, Timely, Polling, Told, Known, Deadline
  <2> QED
    BY <2>1, <2>2
<1>6. ASSUME UNCHANGED <<now, tableVars, clientVars>> PROVE TableInv'
  <2>1. TableTypes'
    BY <1>6 DEF tableVars, clientVars
  <2>2. ASSUME NEW j \in Ids PROVE Good(j)'
    BY <1>6 DEF tableVars, clientVars, Entry, Timely, Polling, Told, Known, Deadline
  <2> QED
    BY <2>1, <2>2
<1>7. ASSUME NEW i \in Ids, Poll(i) PROVE TableInv'
  <2>1. TableTypes'
    BY <1>7 DEF Poll, Answer, tableVars
  <2>2. ASSUME NEW j \in Ids PROVE Good(j)'
    BY <1>7, <2>1
    DEF Poll, Answer, tableVars, Entry, Timely, Polling, Told, Known, Deadline
  <2> QED
    BY <2>1, <2>2
<1>8. ASSUME NEW i \in Ids, GiveUp(i) PROVE TableInv'
  <2>1. TableTypes'
    BY <1>8 DEF GiveUp, tableVars
  <2>2. ASSUME NEW j \in Ids PROVE Good(j)'
    BY <1>8, <2>1 DEF GiveUp, tableVars, Entry, Timely, Polling, Told, Known, Deadline
  <2> QED
    BY <2>1, <2>2
<1>9. ASSUME Tick PROVE TableInv'
  <2>1. TableTypes'
    BY <1>9 DEF Tick, tableVars, clientVars
  <2>2. ASSUME NEW j \in Ids PROVE Good(j)'
    BY <1>9, <2>1
    DEF Tick, tableVars, clientVars, Entry, Timely, Polling, Told, Known, Deadline
  <2> QED
    BY <2>1, <2>2
<1>10. ASSUME NEW i \in Ids, EnterQueue(i) \/ LeaveQueue(i) PROVE TableInv'
  BY <1>6, <1>10 DEF EnterQueue, LeaveQueue
<1>11. ASSUME NEW e \in Entrants, QueueWakeup(e) PROVE TableInv'
  BY <1>6, <1>11 DEF QueueWakeup
<1>12. ASSUME NEW d \in Direct, DirectEnter(d) \/ DirectLeave(d) PROVE TableInv'
  BY <1>6, <1>12 DEF DirectEnter, DirectLeave
<1>13. ASSUME UNCHANGED vars PROVE TableInv'
  BY <1>6, <1>13 DEF vars
<1> QED
  BY <1>1, <1>2, <1>3, <1>4, <1>5, <1>7, <1>8, <1>9, <1>10, <1>11, <1>12, <1>13
  DEF Next, JobStep

\* It holds from the beginning on.
LEMMA TableInvariant == SafeSpec => []TableInv
<1>1. Init => TableInv
  BY JobsAssumption DEF Init, TableInv, TableTypes, Time, Final, Statuses, Threads,
     Answers, Entry, Timely, Polling, Told, Known
<1> QED
  BY <1>1, TableInvStep, PTL DEF SafeSpec

\* The queue's record, the table, the threads and the clients keep their types,
\* for any jobs, clock and delays.
THEOREM JobsTypeCorrect == SafeSpec => []TypeOK
<1>1. QueueTypeOK /\ TableInv => TypeOK
  BY DEF TableInv, TableTypes, TypeOK
<1> QED
  BY <1>1, QueueInJobs, TableInvariant, PTL

\* An entry of the table always says where the job's thread is (jobs.rs 119-139).
THEOREM TableTellsTruth == SafeSpec => []TableTellsThread
<1>1. TableInv => TableTellsThread
  BY DEF TableInv, Entry, TableTellsThread
<1> QED
  BY <1>1, TableInvariant, PTL

\* No client that polls in time finds its job pruned, for every retention that
\* covers the time between two polls and the wait for the table's mutex.
THEOREM ClientNeverForgotten == SafeSpec => []ClientKnowsItsJob
<1>1. TableInv => ClientKnowsItsJob
  BY DEF TableInv, Known, ClientKnowsItsJob
<1> QED
  BY <1>1, TableInvariant, PTL

\* Clients report what the closure returned, and a timeout only of a result
\* that came after the last poll that the deadline allowed.
THEOREM ClientHearsOutcome == SafeSpec => []ClientReportsOutcome
<1>1. TableInv => ClientReportsOutcome
  BY DEF TableInv, Told, ClientReportsOutcome
<1> QED
  BY <1>1, TableInvariant, PTL

\* A final status is never overwritten, and is pruned only after its retention.
THEOREM FinalStatusStays == SafeSpec => FinalStatusKept
<1> DEFINE Kept(j) == \/ table'[j] = table[j]
                      \/ table'[j] = "none" /\ now > update[j].finished + Retention
<1>1. TableInv /\ [Next]_vars => [\A j \in Ids : table[j] \in Final => Kept(j)]_vars
  <2> SUFFICES ASSUME TableInv, Next, NEW j \in Ids, table[j] \in Final
               PROVE  Kept(j)
    OBVIOUS
  <2>0. table \in [Ids -> Statuses] /\ now \in Time /\ update[j].finished \in Time
    BY DEF TableInv, TableTypes
  <2>1. thread[j] = "recorded"
    BY <2>0 DEF TableInv, TableTypes, Entry, Final, Threads
  <2>2. ASSUME NEW i \in Ids, Submit(i) PROVE Kept(j)
    <3>1. i # j
      BY <2>1, <2>2 DEF Submit
    <3>2. Expired(j) => now > update[j].finished + Retention
      BY JobsAssumption, <2>0 DEF Expired, Time
    <3> QED
      BY <2>0, <2>2, <3>1, <3>2 DEF Submit
  <2>3. ASSUME NEW i \in Ids, JobStep(i) PROVE Kept(j)
    BY <2>0, <2>1, <2>3 DEF JobStep, Start, Record, EnterQueue, LeaveQueue, Panic,
       Return, SetStatus, tableVars
  <2>4. ASSUME UNCHANGED table PROVE Kept(j)
    BY <2>4
  <2> QED
    BY <2>2, <2>3, <2>4 DEF Next, Poll, GiveUp, Answer, QueueWakeup, DirectEnter,
       DirectLeave, Tick, tableVars
<1> QED
  BY <1>1, TableInvariant, PTL DEF SafeSpec, FinalStatusKept

-----------------------------------------------------------------------------
(* What a step does to a job. *)

Waits(j) == pc[j] \in {"asleep", "notified"}

\* What a step may do to an ordered job: its thread goes on, or its turn does.
ThreadMoves(j) ==
  /\ pc'[j] = pc[j]
  /\ \/ thread[j] = "none" /\ thread'[j] = "spawned"
     \/ thread[j] = "spawned" /\ thread'[j] = "working" /\ HasTurn(j)
     \/ thread[j] = "working" /\ thread'[j] \in {"returned", "panicked"}
     \/ thread[j] = "returned" /\ thread'[j] = "recorded"
TurnMoves(j) ==
  /\ thread'[j] = thread[j]
  /\ \/ pc[j] = "outside" /\ thread[j] = "spawned" /\ pc'[j] \in {"asleep", "holding"}
     \/ Waits(j) /\ (Waits(j)' \/ pc'[j] = "holding")
     \/ /\ pc[j] = "holding" /\ thread[j] \in {"recorded", "panicked"}
        /\ pc'[j] = "outside"
Rests(j) == thread'[j] = thread[j] /\ (j \in Ordered => pc'[j] = pc[j])

\* The queue moves those who wait, and otherwise the thread whose call it is.
LEMMA QueueMoves ==
  ASSUME QueueTypeOK, NEW e \in Entrants, NEW j \in Entrants
  PROVE  /\ Enter(e) => pc[e] = "outside" /\ pc'[e] \in {"asleep", "holding"}
         /\ Recheck(e) \/ SpuriousWake(e) =>
              /\ pc[e] \in {"asleep", "notified"}
              /\ pc'[e] \in {"asleep", "notified", "holding"}
         /\ Leave(e) => pc[e] = "holding" /\ pc'[e] = "outside"
         /\ Enter(e) \/ Recheck(e) \/ SpuriousWake(e) \/ Leave(e) =>
              (j # e => pc'[j] = pc[j] \/ (pc[j] = "asleep" /\ pc'[j] = "notified"))
<1>1. Enter(e) => pc[e] = "outside" /\ pc'[e] \in {"asleep", "holding"} /\ (j # e => pc'[j] = pc[j])
  BY DEF Enter, CheckTurn, QueueTypeOK
<1>2. Recheck(e) \/ SpuriousWake(e) =>
        /\ pc[e] \in {"asleep", "notified"}
        /\ pc'[e] \in {"asleep", "notified", "holding"} /\ (j # e => pc'[j] = pc[j])
  BY DEF Recheck, SpuriousWake, CheckTurn, QueueTypeOK
<1>3. Leave(e) => /\ pc[e] = "holding" /\ pc'[e] = "outside"
                  /\ j # e => pc'[j] = pc[j] \/ (pc[j] = "asleep" /\ pc'[j] = "notified")
  BY DEF Leave, Notified, QueueTypeOK
<1> QED
  BY <1>1, <1>2, <1>3

\* Every step is one of these for a job, whoever takes it.
LEMMA JobMoves ==
  ASSUME QueueTypeOK, TableInv, [Next]_vars, NEW j \in Ids
  PROVE  Rests(j) \/ ThreadMoves(j) \/ (j \in Ordered /\ TurnMoves(j))
<1> USE DEF Rests, ThreadMoves, TurnMoves, Waits
<1>0. thread \in [Ids -> Threads] /\ (j \in Ordered => j \in Entrants /\ j \notin Direct)
  BY QueueUsers DEF TableInv, TableTypes
<1>1. ASSUME NEW i \in Ids,
             Submit(i) \/ Start(i) \/ Record(i) \/ Panic(i) \/ \E s \in Final : Return(i, s)
      PROVE  Rests(j) \/ ThreadMoves(j)
  BY <1>0, <1>1 DEF Submit, Start, Record, Panic, Return, queueVars
<1>2. ASSUME NEW e \in Entrants, UNCHANGED thread,
             \/ Recheck(e) \/ SpuriousWake(e)
             \/ Enter(e) /\ (e = j => thread[j] = "spawned")
             \/ Leave(e) /\ (e = j => thread[j] \in {"recorded", "panicked"}),
             j \in Ordered
      PROVE  Rests(j) \/ TurnMoves(j)
  BY <1>0, <1>2, QueueMoves
<1>3. ASSUME NEW i \in Ids, EnterQueue(i) \/ LeaveQueue(i), j \in Ordered
      PROVE  Rests(j) \/ TurnMoves(j)
  BY <1>2, <1>3, QueueUsers DEF EnterQueue, LeaveQueue, tableVars
<1>4. ASSUME NEW e \in Entrants, QueueWakeup(e), j \in Ordered
      PROVE  Rests(j) \/ TurnMoves(j)
  BY <1>2, <1>4 DEF QueueWakeup, tableVars
<1>5. ASSUME NEW d \in Direct, DirectEnter(d) \/ DirectLeave(d), j \in Ordered
      PROVE  Rests(j) \/ TurnMoves(j)
  BY <1>0, <1>2, <1>5, QueueUsers DEF DirectEnter, DirectLeave, tableVars
<1>6. ASSUME UNCHANGED <<queueVars, thread>> PROVE Rests(j)
  BY <1>6 DEF queueVars
<1>7. ASSUME NEW i \in Ids, Poll(i) \/ GiveUp(i) PROVE Rests(j)
  BY <1>6, <1>7 DEF Poll, GiveUp, Answer, tableVars
<1>8. ASSUME Tick \/ UNCHANGED vars PROVE Rests(j)
  BY <1>6, <1>8 DEF Tick, vars, tableVars
<1>9. ASSUME UNCHANGED thread, j \notin Ordered PROVE Rests(j)
  BY <1>9
<1> QED
  BY <1>1, <1>3, <1>4, <1>5, <1>7, <1>8, <1>9
  DEF Next, JobStep, EnterQueue, LeaveQueue, QueueWakeup, DirectEnter, DirectLeave, tableVars

\* An ordered job asks for its turn after it was submitted, and only once.
TurnOf(j) ==
  /\ thread[j] = "none" => pc[j] = "outside"
  /\ thread[j] \in {"working", "returned"} => pc[j] = "holding"
  /\ thread[j] \in {"recorded", "panicked"} => pc[j] \in {"holding", "outside"}
TurnsOf == \A j \in Ordered : TurnOf(j)

LEMMA OneTurnEach == SafeSpec => []TurnsOf
<1>1. Init => TurnsOf
  BY QueueUsers DEF Init, QueueInit, TurnsOf, TurnOf
<1>2. QueueTypeOK /\ TableInv /\ TurnsOf /\ [Next]_vars => TurnsOf'
  <2> SUFFICES ASSUME QueueTypeOK, TableInv, TurnsOf, [Next]_vars, NEW j \in Ordered
               PROVE  TurnOf(j)'
    BY DEF TurnsOf
  <2>1. j \in Ids /\ TurnOf(j)
    BY QueueUsers DEF TurnsOf
  <2>2. Rests(j) \/ ThreadMoves(j) \/ TurnMoves(j)
    BY <2>1, JobMoves
  <2>3. CASE Rests(j)
    BY <2>1, <2>3 DEF Rests, TurnOf
  <2>4. CASE ThreadMoves(j)
    BY <2>1, <2>4 DEF ThreadMoves, HasTurn, TurnOf
  <2>5. CASE TurnMoves(j)
    BY <2>1, <2>5 DEF TurnMoves, Waits, TurnOf
  <2> QED
    BY <2>2, <2>3, <2>4, <2>5
<1> QED
  BY <1>1, <1>2, QueueInJobs, TableInvariant, PTL DEF SafeSpec

\* How far a job has got: its thread, and its turn before and after its work.
Stage == [none |-> 0, spawned |-> 1, working |-> 4, returned |-> 5, recorded |-> 6,
          panicked |-> 6]
Turn(j) == IF j \notin Ordered THEN 0
           ELSE IF thread[j] = "spawned" /\ Waits(j) THEN 1
           ELSE IF thread[j] = "spawned" /\ pc[j] = "holding" THEN 2
           ELSE IF thread[j] \in {"recorded", "panicked"} /\ pc[j] = "outside" THEN 1
           ELSE 0
Place(j) == Stage[thread[j]] + Turn(j)

\* No job goes round: it takes at most seven steps of its own but for the wake-ups
\* that find it not its turn, enters the queue once, and a job that has ended, by
\* a panic too, takes only one more, which gives its turn back (jobs.rs 104-187).
THEOREM JobsAdvance ==
  SafeSpec => /\ [](\A j \in Ids : Place(j) \in 0..7)
              /\ [][\A j \in Ids :
                     \/ Place(j)' > Place(j)
                     \/ /\ Place(j)' = Place(j) /\ thread'[j] = thread[j]
                        /\ j \in Ordered => pc'[j] = pc[j] \/ (Waits(j) /\ Waits(j)')]_vars
<1> DEFINE Advances(j) ==
      \/ Place(j)' > Place(j)
      \/ /\ Place(j)' = Place(j) /\ thread'[j] = thread[j]
         /\ j \in Ordered => pc'[j] = pc[j] \/ (Waits(j) /\ Waits(j)')
<1>1. QueueTypeOK /\ TableInv /\ TableInv' /\ TurnsOf /\ [Next]_vars
        => [\A j \in Ids : Advances(j)]_vars
  <2> SUFFICES ASSUME QueueTypeOK, TableInv, TableInv', TurnsOf, [Next]_vars, NEW j \in Ids
               PROVE  Advances(j)
    OBVIOUS
  <2>1. thread[j] \in Threads /\ thread'[j] \in Threads
    BY DEF TableInv, TableTypes
  <2>2. j \in Ordered => TurnOf(j)
    BY DEF TurnsOf
  <2>3. CASE Rests(j)
    BY <2>1, <2>3 DEF Rests, Place, Turn, Waits, Stage, Threads
  <2>4. CASE ThreadMoves(j)
    BY <2>1, <2>2, <2>4 DEF ThreadMoves, HasTurn, TurnOf, Place, Turn, Waits, Stage, Threads
  <2>5. CASE j \in Ordered /\ TurnMoves(j)
    BY <2>1, <2>2, <2>5 DEF TurnMoves, TurnOf, Place, Turn, Waits, Stage, Threads
  <2> QED
    BY <2>3, <2>4, <2>5, JobMoves
<1>2. TableInv => \A j \in Ids : Place(j) \in 0..7
  <2> SUFFICES ASSUME TableInv, NEW j \in Ids PROVE Place(j) \in 0..7
    OBVIOUS
  <2>1. thread[j] \in Threads
    BY DEF TableInv, TableTypes
  <2> QED
    BY <2>1 DEF Threads, Place, Turn, Stage
<1> QED
  BY <1>1, <1>2, QueueInJobs, TableInvariant, OneTurnEach, PTL DEF SafeSpec

-----------------------------------------------------------------------------
(* The lease of an ordered job covers its work. *)

Works(j) == thread[j] \in {"working", "returned"}

\* An ordered job works only while it holds the lease.
WorksUnderLease == \A j \in Ordered : Works(j) => pc[j] = "holding"

\* Nobody but the job's own thread drops its lease, and only after its work.
LEMMA LeaseCoversWork == SafeSpec => []WorksUnderLease
<1>1. TurnsOf => WorksUnderLease
  BY DEF TurnsOf, TurnOf, WorksUnderLease, Works
<1> QED
  BY <1>1, OneTurnEach, PTL

\* No two heavy jobs work together, and none beside a direct holder of the
\* queue: the lease is taken before the work and dropped after the final update.
THEOREM HeavyJobsWorkAlone == SafeSpec => []OneHeavyAtATime
<1>1. LeaseConsistent /\ WorksUnderLease => OneHeavyAtATime
  <2> SUFFICES ASSUME LeaseConsistent, WorksUnderLease PROVE OneHeavyAtATime
    OBVIOUS
  <2>1. \A a, b \in Entrants :
          pc[a] = "holding" /\ pc[b] = "holding" => a = b
    BY DEF LeaseConsistent
  <2>2. \A j \in Ordered, d \in Direct : j # d
    BY QueueUsers
  <2> QED
    BY <2>1, <2>2, QueueUsers DEF OneHeavyAtATime, WorksUnderLease, Works
<1> QED
  BY <1>1, QueueInJobs, LeaseCoversWork, PTL

-----------------------------------------------------------------------------
\* The operations of the queue, as the abstract executor sees its turns.
LEMMA QueueTurns ==
  ASSUME QueueTypeOK, LeaseConsistent, NEW e \in Entrants
  PROVE  /\ Enter(e) => Executor!Turns!Request(e) \/ Executor!Turns!Acquire(e)
         /\ Recheck(e) \/ SpuriousWake(e)
              => Executor!Turns!Grant \/ UNCHANGED <<waiting, running>>
         /\ Leave(e) => Executor!Turns!Release /\ running = e
<1>1. /\ Fifo!Request(e) => Executor!Turns!Request(e)
      /\ Fifo!Acquire(e) => Executor!Turns!Acquire(e)
      /\ Fifo!Grant => Executor!Turns!Grant
      /\ Fifo!Release => Executor!Turns!Release
  BY DEF Fifo!Request, Fifo!Acquire, Fifo!Grant, Fifo!Release, Fifo!Queued,
         Executor!Turns!Request, Executor!Turns!Acquire, Executor!Turns!Grant,
         Executor!Turns!Release, Executor!Turns!Queued
<1> QED
  BY <1>1, EnterRequests, WakeupGrants, LeaveReleases

\* Each step of a job, a client, the queue or the clock is a step of the abstract
\* executor or none.
LEMMA ExecutorStep ==
  /\ QueueTypeOK /\ LeaseConsistent /\ TableInv /\ TableInv' /\ WorksUnderLease
  /\ [Next]_vars
  => [Executor!Next]_(Executor!vars)
<1> SUFFICES ASSUME QueueTypeOK, LeaseConsistent, TableInv, TableInv',
                    WorksUnderLease, [Next]_vars
             PROVE  Executor!Next \/ UNCHANGED Executor!vars
  OBVIOUS
<1> USE DEF TableInv, TableTypes, queueVars
<1> DEFINE Shows(j) ==
      IF thread[j] = "recorded" /\ table[j] = "none" THEN "forgotten" ELSE table[j]
<1>1. \A j \in Ids : Shown[j] = Shows(j) /\ Shown'[j] = Shows(j)'
  BY DEF Shown
<1>2. Shown = [j \in Ids |-> Shown[j]] /\ Shown' = [j \in Ids |-> Shown'[j]]
  BY DEF Shown
<1>3. ASSUME UNCHANGED <<thread, table>> PROVE UNCHANGED Shown
  BY <1>3 DEF Shown
<1>4. \A j \in Ids :
        /\ thread[j] = "none" => Shown[j] = "none"
        /\ thread[j] = "spawned" => Shown[j] = "queued"
        /\ thread[j] \in {"working", "returned", "panicked"} => Shown[j] = "running"
        /\ thread[j] = "recorded" => Shown[j] \in Final \cup {"forgotten"}
  BY <1>1 DEF Entry
<1>5. ASSUME NEW i \in Ids, Submit(i) PROVE Executor!Accept(i)
  <2> DEFINE gone == {j \in Ids : j # i /\ Expired(j)}
  <2>1. thread[i] = "none" /\ Shown[i] = "none" /\ UNCHANGED <<waiting, running>>
    BY <1>4, <1>5 DEF Submit
  <2>2. \A j \in Ids : Expired(j) => thread[j] = "recorded" /\ table[j] # "none"
    BY DEF Expired, Entry, Final, Threads
  <2>3. gone \in SUBSET {j \in Ids : Shown[j] \in Executor!Ended}
    BY <1>1, <2>2 DEF Expired, Final, Executor!Ended
  <2>4. \A j \in Ids : Shown'[j] = IF j = i THEN "queued"
                                   ELSE IF j \in gone THEN "forgotten" ELSE Shown[j]
    <3>1. Shown'[i] = "queued"
      BY <1>1, <1>5 DEF Submit
    <3>2. \A j \in Ids : j # i /\ Expired(j) => Shown'[j] = "forgotten"
      BY <1>1, <1>5, <2>2 DEF Submit
    <3>3. \A j \in Ids : j # i /\ ~Expired(j) => Shown'[j] = Shown[j]
      BY <1>1, <1>5 DEF Submit
    <3> QED
      BY <3>1, <3>2, <3>3
  <2>5. Shown' = [j \in Ids |-> IF j = i THEN "queued"
                                ELSE IF j \in gone THEN "forgotten" ELSE Shown[j]]
    BY <1>2, <2>4
  <2> HIDE DEF gone
  <2> QED
    BY <2>1, <2>3, <2>5 DEF Executor!Accept
<1>6. ASSUME NEW i \in Ids, Start(i) PROVE Executor!Change(i, "queued", "running")
  <2>1. i \in Ordered => running = i
    BY <1>6, QueueUsers DEF Start, HasTurn, LeaseConsistent
  <2>2. Shown[i] = "queued" /\ Shown' = [Shown EXCEPT ![i] = "running"]
    BY <1>1, <1>2, <1>4, <1>6 DEF Start, SetStatus, Entry
  <2> QED
    BY <1>6, <2>1, <2>2 DEF Start, Executor!Change, Executor!HasTurn
<1>7. ASSUME NEW i \in Ids, Record(i)
      PROVE  \E s \in Executor!Ended : Executor!Change(i, "running", s)
  <2>1. i \in Ordered => running = i
    BY <1>7, QueueUsers DEF Record, WorksUnderLease, Works, LeaseConsistent
  <2>2. update[i].status \in Executor!Ended
    BY <1>7 DEF Record, Entry, Final, Executor!Ended
  <2>3. Shown[i] = "running" /\ Shown' = [Shown EXCEPT ![i] = update[i].status]
    BY <1>1, <1>2, <1>4, <1>7, <2>2 DEF Record, SetStatus, Entry, Executor!Ended
  <2> QED
    BY <1>7, <2>1, <2>2, <2>3 DEF Record, Executor!Change, Executor!HasTurn
<1>8. ASSUME NEW i \in Ids, Panic(i) \/ \E s \in Final : Return(i, s)
      PROVE  UNCHANGED Executor!vars
  BY <1>1, <1>2, <1>8 DEF Panic, Return, Executor!vars, Entry
<1>9. ASSUME NEW i \in Ids, EnterQueue(i) PROVE Executor!Ask(i)
  BY <1>3, <1>4, <1>9, QueueTurns, QueueUsers DEF EnterQueue, tableVars, Executor!Ask
<1>10. ASSUME NEW i \in Ids, LeaveQueue(i) PROVE Executor!GiveBack
  BY <1>3, <1>4, <1>10, QueueTurns, QueueUsers DEF LeaveQueue, tableVars, Executor!GiveBack, Final
<1>11. ASSUME NEW i \in Ids, Poll(i) \/ GiveUp(i) PROVE UNCHANGED Executor!vars
  BY <1>3, <1>11 DEF Poll, GiveUp, Answer, tableVars, Executor!vars
<1>12. ASSUME NEW e \in Entrants, QueueWakeup(e)
       PROVE  Executor!Grant \/ UNCHANGED Executor!vars
  BY <1>3, <1>12, QueueTurns DEF QueueWakeup, tableVars, Executor!Grant, Executor!vars
<1>13. ASSUME NEW d \in Direct, DirectEnter(d) PROVE Executor!Ask(d)
  BY <1>3, <1>13, QueueTurns, QueueUsers DEF DirectEnter, tableVars, Executor!Ask
<1>14. ASSUME NEW d \in Direct, DirectLeave(d) PROVE Executor!GiveBack
  BY <1>3, <1>14, QueueTurns, QueueUsers DEF DirectLeave, tableVars, Executor!GiveBack
<1>15. ASSUME Tick \/ UNCHANGED vars PROVE UNCHANGED Executor!vars
  BY <1>3, <1>15 DEF Tick, vars, tableVars, Executor!vars
<1>16. ASSUME NEW i \in Ids, JobStep(i) PROVE Executor!Next \/ UNCHANGED Executor!vars
  <2>1. CASE Start(i) \/ Record(i)
    BY <1>6, <1>7, <2>1 DEF Executor!Next
  <2>2. CASE EnterQueue(i)
    BY <1>9, <2>2 DEF EnterQueue, Executor!Next
  <2>3. CASE LeaveQueue(i)
    BY <1>10, <2>3 DEF Executor!Next
  <2>4. CASE Panic(i) \/ \E s \in Final : Return(i, s)
    BY <1>8, <2>4
  <2> QED
    BY <1>16, <2>1, <2>2, <2>3, <2>4 DEF JobStep
<1>17. ASSUME NEW i \in Ids, Submit(i) \/ Poll(i) \/ GiveUp(i)
       PROVE  Executor!Next \/ UNCHANGED Executor!vars
  BY <1>5, <1>11, <1>17 DEF Executor!Next
<1>18. ASSUME NEW e \in Entrants, QueueWakeup(e)
       PROVE  Executor!Next \/ UNCHANGED Executor!vars
  BY <1>12, <1>18 DEF Executor!Next
<1>19. ASSUME NEW d \in Direct, DirectEnter(d) \/ DirectLeave(d) PROVE Executor!Next
  BY <1>13, <1>14, <1>19 DEF Executor!Next
<1> QED
  BY <1>15, <1>16, <1>17, <1>18, <1>19 DEF Next

\* The job manager, its threads and the queue implement the abstract executor,
\* for any number of jobs, of direct users and of clients that poll them.
THEOREM JobsAreExecuted == SafeSpec => ImplementsExecutor
<1>1. Init => Executor!Init
  BY DEF Init, QueueInit, Shown, Executor!Init, Executor!Turns!Init
<1> QED
  BY <1>1, ExecutorStep, QueueInJobs, TableInvariant, LeaseCoversWork, PTL
  DEF SafeSpec, ImplementsExecutor, Executor!SafeSpec

\* So heavy jobs and direct users have their turns in the order of their
\* requests, however many wait and whoever unwinds (jobs.rs 40-53).
THEOREM TurnsInOrder == SafeSpec => Executor!Turns!SafeSpec
<1>1. Executor!Init => Executor!Turns!Init
  BY DEF Executor!Init
<1>2. [Executor!Next]_(Executor!vars) => [Executor!Turns!Next]_(Executor!Turns!vars)
  BY DEF Executor!Next, Executor!vars, Executor!Accept, Executor!Change, Executor!Ask,
         Executor!Grant, Executor!GiveBack, Executor!Turns!Next, Executor!Turns!vars
<1> QED
  BY <1>1, <1>2, JobsAreExecuted, PTL
  DEF ImplementsExecutor, Executor!SafeSpec, Executor!Turns!SafeSpec
=============================================================================
