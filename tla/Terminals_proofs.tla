--------------------------- MODULE Terminals_proofs ---------------------------
(***************************************************************************)
(* Proofs about interactive terminals.  The heart is Phases: who owns a    *)
(* terminal follows from how far its session has got, so that the step     *)
(* that takes the last owner away is the one that drops the lease, and, if *)
(* no request failed, the one that has deleted the remote terminal.        *)
(***************************************************************************)
EXTENDS Terminals, SequenceTheorems, TLAPS

Before == {"idle", "queued", "opening"}

\* The owners and the remote terminals of a session by its phase.
PhaseOf(s) ==
  /\ pc[s] \in Before => refs[s] = {} /\ try[s] <= 3 /\ remote[s] <= try[s]
  /\ pc[s] = "prompt" => refs[s] = {"opener"}
  /\ pc[s] = "open" => IF s \in Streams THEN refs[s] = {"stream"}
                                        ELSE "map" \in refs[s] \/ mapLock = s
  /\ "map" \in refs[s] => pc[s] = "open" /\ mapLock # s
  /\ mapLock = s => pc[s] = "open" /\ "closer" \in refs[s]
  /\ reader[s] # "none" => "reader" \in refs[s]
  /\ ~faulty[s] => remote[s] = IF pc[s] \in {"prompt", "open"} THEN 1 ELSE 0
Phases == \A s \in Sessions : PhaseOf(s)

\* Who is in the queue waits there, once.
QueueInv ==
  /\ \A i \in 1..Len(queue) : pc[queue[i]] = "queued"
  /\ \A i, j \in 1..Len(queue) : queue[i] = queue[j] => i = j

\* The inductive invariant.
IInv == TypeOK /\ Phases /\ QueueInv /\ LeaseFollowsTerminal

\* A step of one session.
SessionStep(s) ==
  \/ Enter(s) \/ Opening(s) \/ RemoteEnds(s)
  \/ s \in Api /\ \/ PumpOutput(s) \/ PumpFails(s) \/ PumpStops(s)
                  \/ ReadChecks(s) \/ Reading(s) \/ CloseBegins(s) \/ CloseEnds(s)
  \/ s \in Streams /\ (StreamEnds(s) \/ StreamFails(s))

-----------------------------------------------------------------------------
(* What the helpers of the model do. *)

\* A session drops its own lease only.
LEMMA DropOwn ==
  ASSUME TypeOK, NEW s \in Sessions, DropLease(s)
  PROVE  /\ queue' = queue /\ holder' \in Heavy \cup {None} /\ holder' # s
         /\ \A v \in Sessions \ {s} : holder' = v <=> holder = v
BY TerminalsAssumption DEF TypeOK, DropLease, Lease!Release, lockVars, Sessions

\* With the last owner, and only with it, the lease is dropped.
LEMMA OwnersChange ==
  ASSUME TypeOK, NEW s \in Sessions, NEW owners, Owners(s, owners)
  PROVE  /\ refs' = [refs EXCEPT ![s] = owners]
         /\ queue' = queue /\ holder' \in Heavy \cup {None}
         /\ owners = {} => holder' # s
         /\ owners # {} => holder' = holder
         /\ \A v \in Sessions \ {s} : holder' = v <=> holder = v
<1>1. CASE owners = {}
  BY <1>1, DropOwn DEF Owners
<1>2. CASE owners # {}
  BY <1>2 DEF Owners, TypeOK, lockVars
<1> QED
  BY <1>1, <1>2

\* A session that asks for the lease queues or has it at once.
LEMMA EnterTakes ==
  ASSUME TypeOK, NEW s \in Sessions, Enter(s)
  PROVE  /\ holder' \in Heavy \cup {None} /\ queue' \in Seq(Heavy) /\ pc[s] = "idle"
         /\ \E label \in {"queued", "opening"} : pc' = [pc EXCEPT ![s] = label]
         /\ UNCHANGED <<try, refs, mapLock, closed, pump, output, reader, remote, faulty, faults>>
         /\ \/ queue' = queue
            \/ queue' = Append(queue, s) /\ pc'[s] = "queued"
         /\ \/ holder' = holder /\ pc'[s] = "queued" /\ holder # s
            \/ s \notin Heavy /\ holder' = holder /\ pc'[s] = "opening"
            \/ holder = None /\ holder' = s /\ pc'[s] = "opening"
<1> USE DEF NoFault, liveVars
<1>1. CASE s \notin Heavy
  BY <1>1 DEF Enter, TypeOK, Goto, lockVars
<1>2. CASE s \in Heavy /\ Lease!Acquire(s) /\ Goto(s, "opening")
  BY <1>2 DEF Enter, TypeOK, Goto, Lease!Acquire
<1>3. CASE s \in Heavy /\ Lease!Request(s) /\ Goto(s, "queued")
  <2>1. queue' \in Seq(Heavy)
    BY <1>3, AppendProperties DEF Lease!Request, TypeOK
  <2> QED
    BY <1>3, <2>1 DEF Enter, TypeOK, Goto, Lease!Request
<1> QED
  BY <1>1, <1>2, <1>3 DEF Enter

LEMMA GrantTakes ==
  ASSUME TypeOK, Granted
  PROVE  /\ Head(queue) \in Heavy /\ holder = None /\ holder' = Head(queue)
         /\ queue # <<>> /\ queue' = Tail(queue) /\ queue' \in Seq(Heavy)
BY HeadTailProperties DEF TypeOK, Granted, Lease!Grant

-----------------------------------------------------------------------------
(* A step of one session leaves the others alone. *)

LEMMA OthersAlone ==
  ASSUME TypeOK, NEW s \in Sessions, SessionStep(s), NEW v \in Sessions \ {s}
  PROVE  /\ pc'[v] = pc[v] /\ refs'[v] = refs[v] /\ try'[v] = try[v]
         /\ reader'[v] = reader[v] /\ remote'[v] = remote[v] /\ faulty'[v] = faulty[v]
         /\ mapLock' = v <=> mapLock = v
         /\ holder' = v <=> holder = v
<1> USE TerminalsAssumption DEF TypeOK, Goto, Fault, NoFault, lockVars, liveVars, Sessions
<1>1. CASE Enter(s)
  BY <1>1, EnterTakes
<1>2. CASE Start(s)
  BY <1>2, OwnersChange DEF Start
<1>3. CASE StartFails(s)
  BY <1>3, DropOwn DEF StartFails
<1>4. CASE ContextFails(s)
  BY <1>4, DropOwn DEF ContextFails
<1>5. CASE Ready(s)
  BY <1>5, OwnersChange DEF Ready
<1>6. CASE PromptFails(s)
  BY <1>6, OwnersChange DEF PromptFails
<1>7. CASE RemoteEnds(s)
  BY <1>7 DEF RemoteEnds
<1>8. CASE PumpOutput(s)
  BY <1>8 DEF PumpOutput
<1>9. CASE PumpFails(s)
  BY <1>9 DEF PumpFails
<1>10. CASE PumpStops(s)
  BY <1>10 DEF PumpStops
<1>11. CASE ReadChecks(s)
  BY <1>11, OwnersChange DEF ReadChecks
<1>12. CASE ReadWaits(s)
  BY <1>12 DEF ReadWaits
<1>13. CASE ReadTimesOut(s)
  BY <1>13 DEF ReadTimesOut
<1>14. CASE ReadReturns(s)
  BY <1>14, OwnersChange DEF ReadReturns
<1>15. CASE CloseBegins(s)
  BY <1>15, OwnersChange DEF CloseBegins
<1>16. CASE CloseEnds(s)
  BY <1>16, OwnersChange DEF CloseEnds, Deleted
<1>17. CASE StreamEnds(s)
  BY <1>17, OwnersChange DEF StreamEnds, Deleted
<1>18. CASE StreamFails(s)
  BY <1>18, OwnersChange DEF StreamFails
<1> QED
  BY <1>1, <1>2, <1>3, <1>4, <1>5, <1>6, <1>7, <1>8, <1>9, <1>10, <1>11,
     <1>12, <1>13, <1>14, <1>15, <1>16, <1>17, <1>18 DEF SessionStep, Opening, Reading

LEMMA TypesKept ==
  ASSUME TypeOK, Phases, NEW s \in Sessions, SessionStep(s)
  PROVE  TypeOK'
<1> USE TerminalsAssumption DEF TypeOK, Goto, Fault, NoFault, lockVars, liveVars, Sessions,
      Woken
<1>p. PhaseOf(s)
  BY DEF Phases
<1>1. CASE Enter(s)
  BY <1>1, <1>p, EnterTakes
<1>2. CASE Start(s)
  <2>1. remote' \in [Sessions -> 0..4]
    BY <1>2, <1>p DEF Start, PhaseOf, Before
  <2>2. refs' \in [Sessions -> SUBSET {"opener", "map", "reader", "closer", "stream"}]
    BY <1>2, OwnersChange DEF Start
  <2>3. queue' \in Seq(Heavy) /\ holder' \in Heavy \cup {None}
    BY <1>2, OwnersChange DEF Start
  <2> QED
    BY <1>2, <2>1, <2>2, <2>3 DEF Start
<1>3. CASE StartFails(s)
  <2>1. remote' \in [Sessions -> 0..4] /\ try' \in [Sessions -> 0..4]
    BY <1>3, <1>p DEF StartFails, PhaseOf, Before
  <2>2. queue' \in Seq(Heavy) /\ holder' \in Heavy \cup {None}
    BY <1>3, DropOwn DEF StartFails
  <2>3. pc' \in [Sessions -> {"idle", "queued", "opening", "prompt", "open", "ended"}]
    BY <1>3 DEF StartFails
  <2>4. faults' \in 0..MaxFaults /\ faulty' \in [Sessions -> BOOLEAN]
    BY <1>3 DEF StartFails
  <2> QED
    BY <1>3, <2>1, <2>2, <2>3, <2>4 DEF StartFails
<1>4. CASE ContextFails(s)
  BY <1>4, <1>p, DropOwn DEF ContextFails
<1>5. CASE Ready(s)
  BY <1>5, <1>p, OwnersChange DEF Ready
<1>6. CASE PromptFails(s)
  BY <1>6, <1>p, OwnersChange DEF PromptFails
<1>7. CASE RemoteEnds(s)
  BY <1>7, <1>p DEF RemoteEnds
<1>8. CASE PumpOutput(s)
  BY <1>8, <1>p DEF PumpOutput
<1>9. CASE PumpFails(s)
  BY <1>9, <1>p DEF PumpFails
<1>10. CASE PumpStops(s)
  BY <1>10, <1>p DEF PumpStops
<1>11. CASE ReadChecks(s)
  <2>1. refs' \in [Sessions -> SUBSET {"opener", "map", "reader", "closer", "stream"}]
    BY <1>11, OwnersChange DEF ReadChecks
  <2>2. queue' \in Seq(Heavy) /\ holder' \in Heavy \cup {None}
    BY <1>11, OwnersChange DEF ReadChecks
  <2>3. output' \in [Sessions -> BOOLEAN]
    BY <1>11 DEF ReadChecks
  <2>4. reader' \in [Sessions -> {"none", "checked", "waiting", "woken"}]
    BY <1>11 DEF ReadChecks
  <2> QED
    BY <1>11, <2>1, <2>2, <2>3, <2>4 DEF ReadChecks
<1>12. CASE ReadWaits(s)
  BY <1>12, <1>p DEF ReadWaits
<1>13. CASE ReadTimesOut(s)
  BY <1>13, <1>p DEF ReadTimesOut
<1>14. CASE ReadReturns(s)
  BY <1>14, <1>p, OwnersChange DEF ReadReturns
<1>15. CASE CloseBegins(s)
  <2>1. refs' \in [Sessions -> SUBSET {"opener", "map", "reader", "closer", "stream"}]
    BY <1>15, OwnersChange DEF CloseBegins
  <2>2. queue' \in Seq(Heavy) /\ holder' \in Heavy \cup {None}
    BY <1>15, OwnersChange DEF CloseBegins
  <2>3. closed' \in [Sessions -> BOOLEAN]
    BY <1>15 DEF CloseBegins
  <2>4. reader' \in [Sessions -> {"none", "checked", "waiting", "woken"}]
    BY <1>15 DEF CloseBegins
  <2>5. s \in Api
    BY <1>15, <1>p DEF CloseBegins, PhaseOf
  <2> QED
    BY <1>15, <2>1, <2>2, <2>3, <2>4, <2>5 DEF CloseBegins
<1>16. CASE CloseEnds(s)
  <2>1. refs' \in [Sessions -> SUBSET {"opener", "map", "reader", "closer", "stream"}]
    BY <1>16, OwnersChange DEF CloseEnds
  <2>2. queue' \in Seq(Heavy) /\ holder' \in Heavy \cup {None}
    BY <1>16, OwnersChange DEF CloseEnds
  <2>3. remote' \in [Sessions -> 0..4]
    BY <1>16 DEF CloseEnds, Deleted
  <2>4. faults' \in 0..MaxFaults
    BY <1>16 DEF CloseEnds, Deleted
  <2>5. faulty' \in [Sessions -> BOOLEAN]
    BY <1>16 DEF CloseEnds, Deleted
  <2>6. pc' \in [Sessions -> {"idle", "queued", "opening", "prompt", "open", "ended"}]
    BY <1>16 DEF CloseEnds
  <2> QED
    BY <1>16, <2>1, <2>2, <2>3, <2>4, <2>5, <2>6 DEF CloseEnds
<1>17. CASE StreamEnds(s)
  <2>1. refs' \in [Sessions -> SUBSET {"opener", "map", "reader", "closer", "stream"}]
    BY <1>17, OwnersChange DEF StreamEnds
  <2>2. queue' \in Seq(Heavy) /\ holder' \in Heavy \cup {None}
    BY <1>17, OwnersChange DEF StreamEnds
  <2>3. remote' \in [Sessions -> 0..4]
    BY <1>17 DEF StreamEnds, Deleted
  <2>4. faults' \in 0..MaxFaults
    BY <1>17 DEF StreamEnds, Deleted
  <2>5. faulty' \in [Sessions -> BOOLEAN]
    BY <1>17 DEF StreamEnds, Deleted
  <2>6. pc' \in [Sessions -> {"idle", "queued", "opening", "prompt", "open", "ended"}]
    BY <1>17 DEF StreamEnds
  <2> QED
    BY <1>17, <2>1, <2>2, <2>3, <2>4, <2>5, <2>6 DEF StreamEnds
<1>18. CASE StreamFails(s)
  BY <1>18, <1>p, OwnersChange DEF StreamFails
<1> QED
  BY <1>1, <1>2, <1>3, <1>4, <1>5, <1>6, <1>7, <1>8, <1>9, <1>10, <1>11,
     <1>12, <1>13, <1>14, <1>15, <1>16, <1>17, <1>18 DEF SessionStep, Opening, Reading

LEMMA PhasesKept ==
  ASSUME TypeOK, Phases, NEW s \in Sessions, SessionStep(s)
  PROVE  Phases'
<1>1. ASSUME NEW v \in Sessions \ {s} PROVE PhaseOf(v)'
  BY <1>1, OthersAlone DEF Phases, PhaseOf
<1>2. PhaseOf(s)'
  <2> USE TerminalsAssumption DEF TypeOK, Goto, Fault, NoFault, lockVars, liveVars, Sessions,
        Woken, PhaseOf, Before
  <2>p. PhaseOf(s)
    BY DEF Phases
  <2>1. CASE Enter(s)
    BY <2>1, <2>p, EnterTakes
  <2>2. CASE Start(s)
    BY <2>2, <2>p, OwnersChange DEF Start
  <2>3. CASE StartFails(s)
    BY <2>3, <2>p, DropOwn DEF StartFails
  <2>4. CASE ContextFails(s)
    <3>1. /\ faulty'[s] /\ mapLock' = mapLock /\ reader' = reader /\ refs' = refs
          /\ remote' = remote /\ refs[s] = {} /\ remote[s] <= try[s] /\ try[s] <= 3
      BY <2>4, <2>p DEF ContextFails
    <3>2. try'[s] = try[s] \/ (try[s] < 2 /\ try'[s] = 2)
      BY <2>4 DEF ContextFails
    <3>3. pc'[s] \in {"idle", "ended"} /\ mapLock # s /\ reader[s] = "none"
      BY <2>4, <2>p DEF ContextFails
    <3>4. remote'[s] <= try'[s] /\ try'[s] <= 3
      BY <3>1, <3>2
    <3> QED
      BY <3>1, <3>3, <3>4
  <2>5. CASE Ready(s)
    BY <2>5, <2>p, OwnersChange DEF Ready
  <2>6. CASE PromptFails(s)
    BY <2>6, <2>p, OwnersChange DEF PromptFails
  <2>7. CASE RemoteEnds(s)
    BY <2>7, <2>p DEF RemoteEnds
  <2>8. CASE PumpOutput(s)
    BY <2>8, <2>p DEF PumpOutput
  <2>9. CASE PumpFails(s)
    BY <2>9, <2>p DEF PumpFails
  <2>10. CASE PumpStops(s)
    BY <2>10, <2>p DEF PumpStops
  <2>11. CASE ReadChecks(s)
    BY <2>11, <2>p, OwnersChange DEF ReadChecks
  <2>12. CASE ReadWaits(s)
    BY <2>12, <2>p DEF ReadWaits
  <2>13. CASE ReadTimesOut(s)
    BY <2>13, <2>p DEF ReadTimesOut
  <2>14. CASE ReadReturns(s)
    BY <2>14, <2>p, OwnersChange DEF ReadReturns
  <2>15. CASE CloseBegins(s)
    BY <2>15, <2>p, OwnersChange DEF CloseBegins
  <2>16. CASE CloseEnds(s)
    BY <2>16, <2>p, OwnersChange DEF CloseEnds, Deleted
  <2>17. CASE StreamEnds(s)
    BY <2>17, <2>p, OwnersChange DEF StreamEnds, Deleted
  <2>18. CASE StreamFails(s)
    BY <2>18, <2>p, OwnersChange DEF StreamFails
  <2> QED
    BY <2>1, <2>2, <2>3, <2>4, <2>5, <2>6, <2>7, <2>8, <2>9, <2>10, <2>11,
       <2>12, <2>13, <2>14, <2>15, <2>16, <2>17, <2>18 DEF SessionStep, Opening, Reading
<1> QED
  BY <1>1, <1>2 DEF Phases

LEMMA LeaseKept ==
  ASSUME TypeOK, Phases, LeaseFollowsTerminal, NEW s \in Sessions, SessionStep(s)
  PROVE  LeaseFollowsTerminal'
<1> DEFINE Follows(v) == holder = v <=> pc[v] = "opening" \/ refs[v] # {}
<1>1. ASSUME NEW v \in Heavy \ {s} PROVE Follows(v)'
  BY <1>1, OthersAlone, TerminalsAssumption DEF LeaseFollowsTerminal, Sessions
<1>2. ASSUME s \in Heavy PROVE Follows(s)'
  <2> USE TerminalsAssumption DEF TypeOK, Goto, Fault, NoFault, lockVars, liveVars, Sessions,
        PhaseOf, Before
  <2>p. PhaseOf(s) /\ Follows(s)
    BY <1>2 DEF Phases, LeaseFollowsTerminal
  <2>1. CASE Enter(s)
    BY <2>1, <1>2, <2>p, EnterTakes
  <2>2. CASE Start(s)
    BY <2>2, <1>2, <2>p, OwnersChange DEF Start
  <2>3. CASE StartFails(s)
    BY <2>3, <1>2, <2>p, DropOwn DEF StartFails
  <2>4. CASE ContextFails(s)
    BY <2>4, <1>2, <2>p, DropOwn DEF ContextFails
  <2>5. CASE Ready(s)
    BY <2>5, <1>2, <2>p, OwnersChange DEF Ready
  <2>6. CASE PromptFails(s)
    BY <2>6, <1>2, <2>p, OwnersChange DEF PromptFails
  <2>7. CASE RemoteEnds(s)
    BY <2>7, <1>2, <2>p DEF RemoteEnds
  <2>8. CASE PumpOutput(s)
    BY <2>8, <1>2, <2>p DEF PumpOutput
  <2>9. CASE PumpFails(s)
    BY <2>9, <1>2, <2>p DEF PumpFails
  <2>10. CASE PumpStops(s)
    BY <2>10, <1>2, <2>p DEF PumpStops
  <2>11. CASE ReadChecks(s)
    BY <2>11, <1>2, <2>p, OwnersChange DEF ReadChecks
  <2>12. CASE ReadWaits(s)
    BY <2>12, <1>2, <2>p DEF ReadWaits
  <2>13. CASE ReadTimesOut(s)
    BY <2>13, <1>2, <2>p DEF ReadTimesOut
  <2>14. CASE ReadReturns(s)
    BY <2>14, <1>2, <2>p, OwnersChange DEF ReadReturns
  <2>15. CASE CloseBegins(s)
    BY <2>15, <1>2, <2>p, OwnersChange DEF CloseBegins
  <2>16. CASE CloseEnds(s)
    BY <2>16, <1>2, <2>p, OwnersChange DEF CloseEnds, Deleted
  <2>17. CASE StreamEnds(s)
    BY <2>17, <1>2, <2>p, OwnersChange DEF StreamEnds, Deleted
  <2>18. CASE StreamFails(s)
    BY <2>18, <1>2, <2>p, OwnersChange DEF StreamFails
  <2> QED
    BY <2>1, <2>2, <2>3, <2>4, <2>5, <2>6, <2>7, <2>8, <2>9, <2>10, <2>11,
       <2>12, <2>13, <2>14, <2>15, <2>16, <2>17, <2>18 DEF SessionStep, Opening, Reading
<1> QED
  BY <1>1, <1>2 DEF LeaseFollowsTerminal

LEMMA QueueKept ==
  ASSUME TypeOK, QueueInv, Phases, NEW s \in Sessions, SessionStep(s)
  PROVE  QueueInv'
<1>1. ASSUME queue' = queue, pc' = pc \/ pc[s] # "queued" PROVE QueueInv'
  <2>1. ASSUME NEW i \in 1..Len(queue) PROVE pc'[queue[i]] = "queued"
    <3>1. queue[i] \in Sessions /\ pc[queue[i]] = "queued"
      BY TerminalsAssumption DEF TypeOK, QueueInv, Sessions
    <3> QED
      BY <1>1, <3>1, OthersAlone
  <2> QED
    BY <1>1, <2>1 DEF QueueInv
<1>2. CASE Enter(s)
  <2>1. CASE queue' = queue
    BY <1>1, <1>2, <2>1, EnterTakes
  <2>2. CASE queue' = Append(queue, s) /\ pc'[s] = "queued"
    <3>1. /\ Len(queue') = Len(queue) + 1 /\ queue'[Len(queue) + 1] = s
          /\ \A i \in 1..Len(queue) : queue'[i] = queue[i]
      BY <2>2, AppendProperties DEF TypeOK
    <3>2. Len(queue) \in Nat
      BY DEF TypeOK
    <3>3. \A i \in 1..Len(queue) :
            queue[i] \in Sessions /\ queue[i] # s /\ pc'[queue[i]] = "queued"
      <4> SUFFICES ASSUME NEW i \in 1..Len(queue)
                   PROVE queue[i] \in Sessions /\ queue[i] # s /\ pc'[queue[i]] = "queued"
        OBVIOUS
      <4>1. queue[i] \in Sessions /\ pc[queue[i]] = "queued"
        BY TerminalsAssumption DEF TypeOK, QueueInv, Sessions
      <4> QED
        BY <1>2, <4>1, EnterTakes, OthersAlone
    <3>4. ASSUME NEW i \in 1..Len(queue') PROVE i = Len(queue) + 1 \/ i \in 1..Len(queue)
      BY <3>1, <3>2
    <3>5. \A i \in 1..Len(queue') : pc'[queue'[i]] = "queued"
      BY <2>2, <3>1, <3>3, <3>4
    <3>6. \A i, j \in 1..Len(queue') : queue'[i] = queue'[j] => i = j
      BY <3>1, <3>3, <3>4 DEF QueueInv
    <3> QED
      BY <3>5, <3>6 DEF QueueInv
  <2> QED
    BY <1>2, <2>1, <2>2, EnterTakes
<1>3. CASE \/ Start(s) \/ StartFails(s) \/ ContextFails(s) \/ Ready(s) \/ PromptFails(s)
           \/ StreamEnds(s) \/ StreamFails(s)
  <2>1. pc[s] # "queued"
    BY <1>3 DEF Start, StartFails, ContextFails, Ready, PromptFails, StreamEnds, StreamFails
  <2>2. queue' = queue
    BY <1>3, OwnersChange, DropOwn DEF Start, StartFails, ContextFails, Ready, PromptFails,
       StreamEnds, StreamFails, lockVars
  <2> QED
    BY <1>1, <2>1, <2>2
<1>4. CASE CloseEnds(s)
  <2>1. pc[s] # "queued"
    BY <1>4 DEF CloseEnds, Phases, PhaseOf
  <2> QED
    BY <1>1, <1>4, <2>1, OwnersChange DEF CloseEnds
<1>5. CASE \/ RemoteEnds(s) \/ PumpOutput(s) \/ PumpFails(s) \/ PumpStops(s) \/ ReadChecks(s)
           \/ Reading(s) \/ CloseBegins(s)
  <2>1. queue' = queue /\ pc' = pc
    BY <1>5, OwnersChange DEF RemoteEnds, PumpOutput, PumpFails, PumpStops, ReadChecks, Reading,
       ReadWaits, ReadTimesOut, ReadReturns, CloseBegins, lockVars
  <2> QED
    BY <1>1, <2>1
<1> QED
  BY <1>2, <1>3, <1>4, <1>5 DEF SessionStep, Opening

\* The front of the queue gets the lease of a session that nobody owns yet.
LEMMA GrantKept ==
  ASSUME IInv, Granted
  PROVE  IInv'
<1> DEFINE h == Head(queue)
<1>1. /\ h \in Heavy /\ h \in Sessions /\ holder = None /\ holder' = h
      /\ queue' \in Seq(Heavy) /\ h # None
  BY GrantTakes, TerminalsAssumption DEF IInv, Sessions
<1>2. /\ pc' = [pc EXCEPT ![h] = "opening"]
      /\ UNCHANGED <<try, refs, mapLock, closed, pump, output, reader, remote, faulty, faults>>
  BY DEF Granted, Goto, NoFault, liveVars
<1> HIDE DEF h
<1>3. refs[h] = {} /\ pc[h] # "opening"
  BY <1>1 DEF IInv, LeaseFollowsTerminal
<1>4. TypeOK'
  BY <1>1, <1>2 DEF IInv, TypeOK
<1>5. LeaseFollowsTerminal'
  <2> SUFFICES ASSUME NEW v \in Heavy
               PROVE  holder' = v <=> pc'[v] = "opening" \/ refs'[v] # {}
    BY DEF LeaseFollowsTerminal
  <2>1. v \in Sessions /\ v # None
    BY TerminalsAssumption DEF Sessions
  <2> QED
    BY <1>1, <1>2, <1>3, <2>1 DEF IInv, TypeOK, LeaseFollowsTerminal
<1>6. /\ Len(queue) \in Nat \ {0} /\ Len(queue') = Len(queue) - 1 /\ h = queue[1]
      /\ \A i \in 1..Len(queue') : queue'[i] = queue[i + 1]
  <2>1. queue \in Seq(Heavy) /\ queue # <<>> /\ queue' = Tail(queue)
    BY GrantTakes DEF IInv, TypeOK
  <2>2. h = queue[1]
    BY <2>1, HeadTailProperties DEF h
  <2>3. Len(queue) \in Nat /\ Len(queue) # 0
    BY <2>1, EmptySeq
  <2>4. Len(Tail(queue)) = Len(queue) - 1 /\ \A i \in 1..Len(Tail(queue)) : Tail(queue)[i] = queue[i + 1]
    BY <2>1, HeadTailProperties
  <2> QED
    BY <2>1, <2>2, <2>3, <2>4
<1>7. pc[h] = "queued"
  BY <1>6 DEF IInv, QueueInv
<1>8. Phases'
  <2> SUFFICES ASSUME NEW v \in Sessions PROVE PhaseOf(v)'
    BY DEF Phases
  <2>1. PhaseOf(v)
    BY DEF IInv, Phases
  <2> QED
    BY <1>1, <1>2, <1>7, <2>1 DEF IInv, TypeOK, PhaseOf, Before
<1>9. QueueInv'
  <2>1. ASSUME NEW i \in 1..Len(queue')
        PROVE  /\ i + 1 \in 1..Len(queue) /\ queue'[i] = queue[i + 1] /\ queue[i + 1] # h
               /\ queue[i + 1] \in Sessions /\ pc[queue[i + 1]] = "queued"
    <3>1. i + 1 \in 1..Len(queue) /\ i + 1 # 1 /\ 1 \in 1..Len(queue)
      BY <1>6
    <3>2. queue[i + 1] \in Heavy
      BY <3>1 DEF IInv, TypeOK
    <3>3. queue[i + 1] # h
      BY <1>6, <3>1 DEF IInv, QueueInv
    <3> QED
      BY <1>6, <3>1, <3>2, <3>3, TerminalsAssumption DEF IInv, QueueInv, Sessions
  <2>2. \A i \in 1..Len(queue') : pc'[queue'[i]] = "queued"
    BY <1>1, <1>2, <2>1 DEF IInv, TypeOK
  <2>3. \A i, j \in 1..Len(queue') : queue'[i] = queue'[j] => i = j
    <3> SUFFICES ASSUME NEW i \in 1..Len(queue'), NEW j \in 1..Len(queue'), queue'[i] = queue'[j]
                 PROVE  i = j
      OBVIOUS
    <3>1. i + 1 = j + 1
      BY <2>1 DEF IInv, QueueInv
    <3> QED
      BY <3>1, <1>6
  <2> QED
    BY <2>2, <2>3 DEF QueueInv
<1> QED
  BY <1>4, <1>5, <1>8, <1>9 DEF IInv

-----------------------------------------------------------------------------
THEOREM InductiveInvariant == SafeSpec => []IInv
<1>1. Init => IInv
  <2> SUFFICES ASSUME Init PROVE IInv
    OBVIOUS
  <2> USE TerminalsAssumption DEF Init, Lease!Init, Sessions
  <2>1. TypeOK
    <3>1. closed \in [Sessions -> BOOLEAN] /\ output \in [Sessions -> BOOLEAN]
          /\ faulty \in [Sessions -> BOOLEAN]
      BY Zenon
    <3>2. try \in [Sessions -> 0..4] /\ remote \in [Sessions -> 0..4] /\ faults \in 0..MaxFaults
      OBVIOUS
    <3>3. queue \in Seq(Heavy) /\ holder \in Heavy \cup {None} /\ mapLock \in Api \cup {None}
      OBVIOUS
    <3> QED
      BY <3>1, <3>2, <3>3 DEF TypeOK
  <2>2. Phases
    BY DEF Phases, PhaseOf, Before
  <2>3. QueueInv
    BY DEF QueueInv
  <2>4. LeaseFollowsTerminal
    BY DEF LeaseFollowsTerminal
  <2> QED
    BY <2>1, <2>2, <2>3, <2>4 DEF IInv
<1>2. IInv /\ [Next]_vars => IInv'
  <2> SUFFICES ASSUME IInv, [Next]_vars PROVE IInv'
    OBVIOUS
  <2>1. ASSUME NEW s \in Sessions, SessionStep(s) PROVE IInv'
    BY <2>1, TypesKept, PhasesKept, QueueKept, LeaseKept DEF IInv
  <2>2. CASE Granted
    BY <2>2, GrantKept
  <2>3. CASE UNCHANGED vars
    BY <2>3 DEF vars, lockVars, liveVars, IInv, TypeOK, Phases, PhaseOf, QueueInv,
       LeaseFollowsTerminal
  <2> QED
    BY <2>1, <2>2, <2>3 DEF Next, SessionStep, Sessions
<1> QED
  BY <1>1, <1>2, PTL DEF SafeSpec

\* Variables keep their types: at most four terminals per session.
THEOREM TerminalsTypeCorrect == SafeSpec => []TypeOK
BY InductiveInvariant, PTL DEF IInv

\* A heavy session has the lease exactly while its terminal has an owner.
THEOREM LeaseFollows == SafeSpec => []LeaseFollowsTerminal
BY InductiveInvariant, PTL DEF IInv

\* Whoever lets go of a terminal last has deleted it, or a request failed.
THEOREM NothingStays == SafeSpec => []NothingLeftBehind
<1>1. IInv => NothingLeftBehind
  BY DEF IInv, Phases, PhaseOf, NothingLeftBehind
<1> QED
  BY <1>1, InductiveInvariant, PTL

\* A step of a session uses the queue or leaves it alone.
LEMMA SessionUsesQueue ==
  ASSUME NEW s \in Sessions, SessionStep(s)
  PROVE  [Lease!Next]_lockVars
<1> USE DEF lockVars
<1>1. ASSUME DropLease(s) PROVE [Lease!Next]_lockVars
  BY <1>1 DEF DropLease, Lease!Next
<1>2. ASSUME NEW owners, Owners(s, owners) PROVE [Lease!Next]_lockVars
  BY <1>1, <1>2 DEF Owners
<1>3. CASE Enter(s)
  BY <1>3 DEF Enter, Lease!Next
<1>4. CASE StartFails(s) \/ ContextFails(s)
  BY <1>1, <1>4 DEF StartFails, ContextFails
<1>5. CASE Start(s) \/ Ready(s) \/ PromptFails(s) \/ RemoteEnds(s)
  BY <1>2, <1>5 DEF Start, Ready, PromptFails, RemoteEnds
<1>6. CASE PumpOutput(s) \/ PumpFails(s) \/ PumpStops(s)
  BY <1>6 DEF PumpOutput, PumpFails, PumpStops
<1>7. CASE ReadChecks(s) \/ Reading(s)
  BY <1>2, <1>7 DEF ReadChecks, Reading, ReadWaits, ReadTimesOut, ReadReturns
<1>8. CASE CloseBegins(s) \/ CloseEnds(s)
  BY <1>2, <1>8 DEF CloseBegins, CloseEnds
<1>9. CASE StreamEnds(s) \/ StreamFails(s)
  BY <1>2, <1>9 DEF StreamEnds, StreamFails
<1> QED
  BY <1>3, <1>4, <1>5, <1>6, <1>7, <1>8, <1>9 DEF SessionStep, Opening

\* The sessions use the heavy queue as its specification wants, so that what
\* HeavyQueue promises holds for them; and it never refuses a session that asks,
\* since one that has failed or has not begun neither waits nor holds a lease
\* (terminal.rs 20, 24-64; mod.rs 1361-1412; stream.rs 76-140).
THEOREM SessionsUseFifo ==
  SafeSpec => /\ Lease!SafeSpec
              /\ [](\A s \in Heavy : pc[s] = "idle" => ~Lease!Queued(s) /\ holder # s)
<1>1. Init => Lease!Init
  BY DEF Init
<1>2. [Next]_vars => [Lease!Next]_lockVars
  <2>1. CASE Granted
    BY <2>1 DEF Granted, Lease!Next
  <2>2. CASE UNCHANGED vars
    BY <2>2 DEF vars
  <2> QED
    BY <2>1, <2>2, SessionUsesQueue DEF Next, SessionStep, Sessions
<1>3. IInv => \A s \in Heavy : pc[s] = "idle" => ~Lease!Queued(s) /\ holder # s
  <2> SUFFICES ASSUME IInv, NEW s \in Heavy, pc[s] = "idle"
               PROVE  ~Lease!Queued(s) /\ holder # s
    OBVIOUS
  <2>1. refs[s] = {}
    BY TerminalsAssumption DEF IInv, Phases, PhaseOf, Before, Sessions
  <2>2. holder # s
    BY <2>1 DEF IInv, LeaseFollowsTerminal
  <2>3. ~Lease!Queued(s)
    BY DEF IInv, QueueInv, Lease!Queued
  <2> QED
    BY <2>2, <2>3
<1> QED
  BY <1>1, <1>2, <1>3, InductiveInvariant, PTL DEF SafeSpec, Lease!SafeSpec, lockVars, Lease!vars

-----------------------------------------------------------------------------
\* How far a session has got, where each failed start counts for a whole round.
Place == [idle |-> 0, queued |-> 1, opening |-> 2, prompt |-> 3, open |-> 4, ended |-> 5]
Progress(s) == 6 * try[s] + Place[pc[s]]
Advances(s) == \/ pc'[s] = pc[s] /\ try'[s] = try[s]
               \/ pc[s] # "ended" /\ Progress(s)' > Progress(s)

\* A session never goes back but for a failed start, and there are at most four:
\* it asks for the lease at most twice, and a session that is over stays so
\* (mod.rs 1361-1387, terminal.rs 24-64, stream.rs 76-140).
THEOREM SessionsAdvance ==
  SafeSpec => /\ [](\A s \in Sessions : Progress(s) \in 0..29)
              /\ [][\A s \in Sessions : Advances(s)]_vars
<1>1. IInv /\ [Next]_vars => [\A s \in Sessions : Advances(s)]_vars
  <2> SUFFICES ASSUME IInv, Next, NEW v \in Sessions PROVE Advances(v)
    OBVIOUS
  <2> USE DEF Advances, Progress, Place, IInv
  <2>1. try[v] \in 0..4
    BY DEF TypeOK
  <2>2. CASE Granted
    <3>1. queue # <<>> /\ pc' = [pc EXCEPT ![Head(queue)] = "opening"] /\ try' = try
      BY <2>2 DEF Granted, Lease!Grant, Goto
    <3>2. pc[Head(queue)] = "queued"
      BY <3>1 DEF QueueInv, TypeOK
    <3> QED
      BY <2>1, <3>1, <3>2 DEF TypeOK
  <2>3. ASSUME NEW s \in Sessions, s # v, SessionStep(s) PROVE Advances(v)
    BY <2>3, OthersAlone
  <2>4. ASSUME SessionStep(v) PROVE Advances(v)
    <3> USE DEF TypeOK, Goto, Fault
    <3>1. CASE Enter(v)
      BY <2>1, <3>1 DEF Enter
    <3>2. CASE Start(v) \/ Ready(v) \/ PromptFails(v)
      BY <2>1, <3>2 DEF Start, Ready, PromptFails
    <3>3. CASE StartFails(v)
      BY <2>1, <3>3 DEF StartFails
    <3>4. CASE ContextFails(v)
      BY <2>1, <3>4 DEF ContextFails
    <3>5. CASE RemoteEnds(v)
      BY <3>5 DEF RemoteEnds
    <3>6. CASE v \in Api /\ (PumpOutput(v) \/ PumpFails(v) \/ PumpStops(v))
      BY <3>6 DEF PumpOutput, PumpFails, PumpStops
    <3>7. CASE v \in Api /\ (ReadChecks(v) \/ Reading(v) \/ CloseBegins(v))
      BY <3>7 DEF ReadChecks, Reading, ReadWaits, ReadTimesOut, ReadReturns, CloseBegins
    <3>8. CASE v \in Api /\ CloseEnds(v)
      <4>1. pc[v] = "open"
        BY <3>8 DEF CloseEnds, Phases, PhaseOf
      <4> QED
        BY <2>1, <3>8, <4>1 DEF CloseEnds
    <3>9. CASE v \in Streams /\ (StreamEnds(v) \/ StreamFails(v))
      BY <2>1, <3>9 DEF StreamEnds, StreamFails
    <3> QED
      BY <2>4, <3>1, <3>2, <3>3, <3>4, <3>5, <3>6, <3>7, <3>8, <3>9
      DEF SessionStep, Opening
  <2> QED
    BY <2>2, <2>3, <2>4 DEF Next, SessionStep, Sessions
<1>2. IInv => \A s \in Sessions : Progress(s) \in 0..29
  <2>1. IInv => \A s \in Sessions : try[s] \in 0..4 /\ Place[pc[s]] \in 0..5
    BY DEF IInv, TypeOK, Place
  <2> QED
    BY <2>1 DEF Progress
<1> QED
  BY <1>1, <1>2, InductiveInvariant, PTL DEF SafeSpec
=============================================================================
