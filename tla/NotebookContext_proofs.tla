------------------------ MODULE NotebookContext_proofs ------------------------
(***************************************************************************)
(* Proofs about the operations that share a notebook.  The argument: as    *)
(* long as no reset has recorded outside of it, ensure_lock keeps all      *)
(* writers of state.json apart (LockHeldWhileDeciding), so that the one    *)
(* that fills the file is the one that has truncated it, and an operation  *)
(* that has found no record cannot be overtaken by another one's.          *)
(***************************************************************************)
EXTENDS NotebookContext, TLAPS

HasNotebook == {"probe", "probeNew", "truncate", "write", "use"}
NotRecording == {"idle", "lock", "read", "probe", "insert", "probeNew", "use"}

\* Where the local variables of an operation stand.
LocalsOf(w) ==
  /\ pc[w] \in HasNotebook => notebook[w] \in Notebooks
  /\ pc[w] = "lock" => ensure[w]
  /\ w \in Resetters =>
       /\ pc[w] \in NotRecording => attempt[w] = 0
       /\ attempt[w] = 1 => strayed
Locals == \A w \in Workers : LocalsOf(w)

\* Without a reset that records again, a file that is being filled was
\* truncated by the operation that fills it.
FilledAlone == \A w \in Workers : pc[w] = "write" /\ ~strayed => file = "empty"

\* The inductive invariant.
IInv ==
  /\ TypeOK /\ Locals /\ LockHeldWhileDeciding
  /\ FilledAlone /\ RecordReadable /\ InsertOnlyWithoutRecord

WorkerStep(w) == Begin(w) \/ Lock(w) \/ Step(w)

-----------------------------------------------------------------------------
(* What a step does to the other operations, and what kind of step it is. *)

\* A step of an operation touches no other one's variables, and the lock only
\* to take it while it is free or to give back its own.
LEMMA OneAtATime ==
  ASSUME TypeOK, NEW w \in Workers, WorkerStep(w)
  PROVE  /\ \A v \in Workers \ {w} :
              /\ pc'[v] = pc[v] /\ ensure'[v] = ensure[v] /\ dead'[v] = dead[v]
              /\ notebook'[v] = notebook[v] /\ attempt'[v] = attempt[v]
         /\ \/ lock' = lock
            \/ lock = None /\ lock' = w
            \/ lock = w /\ lock' = None
         /\ strayed => strayed'
<1> USE DEF TypeOK, Goto, Return, Unlock, Fail, Retry, Probe, AskAgain, AfterRecord
<1>1. CASE Begin(w)
  BY <1>1 DEF Begin
<1>2. CASE Lock(w)
  BY <1>2 DEF Lock
<1>3. CASE Read(w)
  BY <1>3 DEF Read
<1>4. CASE AuthFails(w)
  BY <1>4 DEF AuthFails
<1>5. CASE ProbeAnswers(w)
  BY <1>5 DEF ProbeAnswers
<1>6. CASE ProbeFails(w)
  BY <1>6 DEF ProbeFails
<1>7. CASE ProbeNewFails(w)
  BY <1>7 DEF ProbeNewFails
<1>8. CASE Insert(w)
  BY <1>8 DEF Insert
<1>9. CASE InsertFails(w)
  BY <1>9 DEF InsertFails
<1>10. CASE Truncate(w)
  BY <1>10 DEF Truncate
<1>11. CASE Write(w)
  BY <1>11 DEF Write
<1>12. CASE WriteFails(w)
  BY <1>12 DEF WriteFails
<1>13. CASE Finish(w)
  BY <1>13 DEF Finish
<1>14. CASE RunErrs(w)
  BY <1>14 DEF RunErrs
<1>15. CASE ResetAgain(w)
  BY <1>15 DEF ResetAgain
<1> QED
  BY <1>1, <1>2, <1>3, <1>4, <1>5, <1>6, <1>7, <1>8, <1>9, <1>10, <1>11, <1>12,
     <1>13, <1>14, <1>15 DEF WorkerStep, Step

\* state.json is changed by a truncation, by a write and by a failed write only.
LEMMA FileChanges ==
  ASSUME NEW w \in Workers, WorkerStep(w)
  PROVE  \/ file' = file
         \/ pc[w] = "truncate" /\ file' = "empty"
         \/ pc[w] = "write" /\ file' \in {notebook[w], "garbled", "partial"}
<1> USE DEF Begin, Lock, Read, AuthFails, ProbeAnswers, ProbeFails, ProbeNewFails,
      Insert, InsertFails, Truncate, WriteFails, Finish, RunErrs, ResetAgain
<1>1. CASE Write(w)
  BY <1>1 DEF Write, Filled
<1>2. CASE WorkerStep(w) /\ ~Write(w)
  BY <1>2 DEF WorkerStep, Step
<1> QED
  BY <1>1, <1>2

-----------------------------------------------------------------------------
(* Each part of the invariant is preserved. *)

\* Returning, and trying again, leave local variables of the right type.
LEMMA ReturnTypes ==
  ASSUME TypeOK, NEW w \in Workers, Return(w)
  PROVE  /\ pc' \in [Workers -> Pcs] /\ ensure' \in [Workers -> BOOLEAN]
         /\ dead' \in [Workers -> BOOLEAN] /\ notebook' \in [Workers -> Notebooks \cup {None}]
         /\ attempt' \in [Workers -> 0..1] /\ strayed' \in BOOLEAN
<1>1. attempt' \in [Workers -> 0..1]
  <2>1. 0 \in 0..1
    OBVIOUS
  <2> QED
    BY <2>1 DEF TypeOK, Return
<1>2. notebook' \in [Workers -> Notebooks \cup {None}]
  BY DEF TypeOK, Return
<1>3. pc' \in [Workers -> Pcs]
  BY DEF TypeOK, Return, Pcs
<1> QED
  BY <1>1, <1>2, <1>3 DEF TypeOK, Return

LEMMA RetryTypes ==
  ASSUME TypeOK, NEW w \in Workers, Retry(w)
  PROVE  /\ pc' \in [Workers -> Pcs] /\ ensure' \in [Workers -> BOOLEAN]
         /\ dead' \in [Workers -> BOOLEAN] /\ notebook' \in [Workers -> Notebooks \cup {None}]
         /\ attempt' \in [Workers -> 0..1] /\ strayed' \in BOOLEAN
         /\ lock' \in Workers \cup {None}
<1>1. CASE Fail(w)
  BY <1>1, ReturnTypes DEF Fail, TypeOK, Unlock
<1>2. CASE Probe(w, None, "read") /\ UNCHANGED lock
  BY <1>2 DEF Probe, TypeOK, Pcs
<1> QED
  BY <1>1, <1>2 DEF Retry

\* One step per action; what differs is which variables it touches.
LEMMA TypesKept ==
  ASSUME TypeOK, Locals, NEW w \in Workers, WorkerStep(w)
  PROVE  TypeOK'
<1> USE NotebookAssumption DEF TypeOK, Pcs, Goto, Unlock, Fail, Probe, AskAgain, Fault,
      NoFault, Unreadable, ProbeErrs
<1>l. pc[w] \in HasNotebook => notebook[w] \in Notebooks
  BY DEF Locals, LocalsOf
<1>1. CASE Begin(w)
  BY <1>1 DEF Begin, ContextStart
<1>2. CASE Lock(w)
  BY <1>2 DEF Lock
<1>3. CASE Read(w)
  BY <1>3 DEF Read, Recorded
<1>4. CASE AuthFails(w)
  BY <1>4, RetryTypes DEF AuthFails
<1>5. CASE ProbeAnswers(w)
  BY <1>5 DEF ProbeAnswers
<1>6. CASE ProbeFails(w)
  BY <1>6 DEF ProbeFails
<1>7. CASE ProbeNewFails(w)
  BY <1>7, RetryTypes DEF ProbeNewFails
<1>8. CASE Insert(w)
  BY <1>8 DEF Insert
<1>9. CASE InsertFails(w)
  BY <1>9, RetryTypes DEF InsertFails
<1>10. CASE Truncate(w)
  BY <1>10 DEF Truncate
<1>11. CASE Write(w)
  <2>1. file' \in Notebooks \cup Unreadable
    BY <1>11, <1>l DEF Write, Filled, HasNotebook
  <2>2. CASE Return(w)
    BY <1>11, <2>1, <2>2, ReturnTypes DEF Write
  <2>3. CASE Goto(w, "use")
    BY <1>11, <2>1, <2>3 DEF Write
  <2> QED
    BY <1>11, <2>2, <2>3 DEF Write, AfterRecord
<1>12. CASE WriteFails(w)
  BY <1>12, ReturnTypes DEF WriteFails
<1>13. CASE Finish(w)
  BY <1>13, ReturnTypes DEF Finish
<1>14. CASE RunErrs(w)
  <2>1. CASE AskAgain(w) /\ attempt[w] = 0
    BY <1>14, <2>1 DEF RunErrs, ContextStart
  <2>2. CASE Return(w)
    BY <1>14, <2>2, ReturnTypes DEF RunErrs
  <2> QED
    BY <1>14, <2>1, <2>2 DEF RunErrs
<1>15. CASE ResetAgain(w)
  <2>1. CASE Return(w) /\ ProbeErrs(w)
    BY <1>15, <2>1, ReturnTypes DEF ResetAgain
  <2>2. CASE attempt' = [attempt EXCEPT ![w] = 1] /\ strayed' = TRUE
    <3>1. attempt' \in [Workers -> 0..1]
      BY <2>2
    <3>2. pc' \in [Workers -> Pcs]
      BY <1>15 DEF ResetAgain, Return
    <3>3. faults' \in 0..MaxFaults
      BY <1>15 DEF ResetAgain
    <3>4. UNCHANGED <<file, lock, alive, created>>
      BY <1>15 DEF ResetAgain
    <3>5. ensure' \in [Workers -> BOOLEAN] /\ dead' \in [Workers -> BOOLEAN]
      BY <1>15, ReturnTypes DEF ResetAgain
    <3>6. notebook' \in [Workers -> Notebooks \cup {None}]
      BY <1>15, ReturnTypes DEF ResetAgain
    <3> QED
      BY <2>2, <3>1, <3>2, <3>3, <3>4, <3>5, <3>6
  <2> QED
    BY <1>15, <2>1, <2>2 DEF ResetAgain
<1> QED
  BY <1>1, <1>2, <1>3, <1>4, <1>5, <1>6, <1>7, <1>8, <1>9, <1>10, <1>11, <1>12,
     <1>13, <1>14, <1>15 DEF WorkerStep, Step

LEMMA LocalsKept ==
  ASSUME TypeOK, Locals, NEW w \in Workers, WorkerStep(w)
  PROVE  Locals'
<1>1. ASSUME NEW v \in Workers \ {w} PROVE LocalsOf(v)'
  BY <1>1, OneAtATime DEF Locals, LocalsOf
<1>2. LocalsOf(w)'
  <2> USE NotebookAssumption DEF TypeOK, Goto, Return, Unlock, Fail, Retry, Probe,
        AskAgain, AfterRecord, LocalsOf, HasNotebook, NotRecording
  <2>l. LocalsOf(w)
    BY DEF Locals
  <2>1. CASE Begin(w)
    BY <2>1, <2>l DEF Begin, ContextStart
  <2>2. CASE Lock(w)
    BY <2>2, <2>l DEF Lock
  <2>3. CASE Read(w)
    BY <2>3, <2>l DEF Read, Recorded
  <2>4. CASE AuthFails(w)
    BY <2>4, <2>l DEF AuthFails
  <2>5. CASE ProbeAnswers(w)
    BY <2>5, <2>l DEF ProbeAnswers
  <2>6. CASE ProbeFails(w)
    BY <2>6, <2>l DEF ProbeFails
  <2>7. CASE ProbeNewFails(w)
    BY <2>7, <2>l DEF ProbeNewFails
  <2>8. CASE Insert(w)
    BY <2>8, <2>l DEF Insert
  <2>9. CASE InsertFails(w)
    BY <2>9, <2>l DEF InsertFails
  <2>10. CASE Truncate(w)
    BY <2>10, <2>l DEF Truncate
  <2>11. CASE Write(w)
    BY <2>11, <2>l DEF Write
  <2>12. CASE WriteFails(w)
    BY <2>12, <2>l DEF WriteFails
  <2>13. CASE Finish(w)
    BY <2>13, <2>l DEF Finish
  <2>14. CASE RunErrs(w)
    BY <2>14, <2>l DEF RunErrs, ContextStart
  <2>15. CASE ResetAgain(w)
    BY <2>15, <2>l DEF ResetAgain
  <2> QED
    BY <2>1, <2>2, <2>3, <2>4, <2>5, <2>6, <2>7, <2>8, <2>9, <2>10, <2>11, <2>12,
       <2>13, <2>14, <2>15 DEF WorkerStep, Step
<1> QED
  BY <1>1, <1>2 DEF Locals

\* The operations that have to hold ensure_lock.
Owes(w) == \/ ensure[w] /\ InContext(w)
           \/ (pc[w] \in {"truncate", "write"} /\ ~(w \in Resetters /\ attempt[w] = 1))

LEMMA LockKept ==
  ASSUME TypeOK, Locals, LockHeldWhileDeciding, NEW w \in Workers, WorkerStep(w)
  PROVE  LockHeldWhileDeciding'
<1>1. ASSUME NEW v \in Workers \ {w} PROVE Owes(v)' <=> lock' = v
  <2>1. Owes(v)' <=> Owes(v)
    BY <1>1, OneAtATime DEF Owes, InContext
  <2>2. lock' = v <=> lock = v
    BY <1>1, OneAtATime, NotebookAssumption DEF Workers
  <2> QED
    BY <1>1, <2>1, <2>2 DEF LockHeldWhileDeciding, Owes
<1>2. Owes(w)' <=> lock' = w
  <2> USE NotebookAssumption DEF TypeOK, Goto, Return, Unlock, Fail, Retry, Probe,
        AskAgain, AfterRecord, LocalsOf, NotRecording, Owes, InContext, Workers
  <2>l. LocalsOf(w) /\ (Owes(w) <=> lock = w)
    BY DEF Locals, LockHeldWhileDeciding
  <2>1. CASE Begin(w)
    BY <2>1, <2>l DEF Begin, ContextStart
  <2>2. CASE Lock(w)
    BY <2>2, <2>l DEF Lock
  <2>3. CASE Read(w)
    BY <2>3, <2>l DEF Read, Recorded
  <2>4. CASE AuthFails(w)
    BY <2>4, <2>l DEF AuthFails
  <2>5. CASE ProbeAnswers(w)
    BY <2>5, <2>l DEF ProbeAnswers
  <2>6. CASE ProbeFails(w)
    BY <2>6, <2>l DEF ProbeFails
  <2>7. CASE ProbeNewFails(w)
    BY <2>7, <2>l DEF ProbeNewFails
  <2>8. CASE Insert(w)
    BY <2>8, <2>l DEF Insert
  <2>9. CASE InsertFails(w)
    BY <2>9, <2>l DEF InsertFails
  <2>10. CASE Truncate(w)
    BY <2>10, <2>l DEF Truncate
  <2>11. CASE Write(w)
    BY <2>11, <2>l DEF Write
  <2>12. CASE WriteFails(w)
    BY <2>12, <2>l DEF WriteFails
  <2>13. CASE Finish(w)
    BY <2>13, <2>l DEF Finish
  <2>14. CASE RunErrs(w)
    BY <2>14, <2>l DEF RunErrs, ContextStart
  <2>15. CASE ResetAgain(w)
    BY <2>15, <2>l DEF ResetAgain
  <2> QED
    BY <2>1, <2>2, <2>3, <2>4, <2>5, <2>6, <2>7, <2>8, <2>9, <2>10, <2>11, <2>12,
       <2>13, <2>14, <2>15 DEF WorkerStep, Step
<1> QED
  BY <1>1, <1>2 DEF LockHeldWhileDeciding, Owes

\* Two operations that write or decide under ensure_lock are the same one, if
\* no reset has strayed.
LEMMA OneWriter ==
  ASSUME TypeOK, Locals, LockHeldWhileDeciding, ~strayed,
         NEW v \in Workers, pc[v] \in {"truncate", "write"}
  PROVE  lock = v
BY DEF TypeOK, Locals, LocalsOf, LockHeldWhileDeciding

\* Only a truncation brings an operation to where it fills the file, and all
\* that leaves there has changed it: filled, or broken off.
LEMMA Filling ==
  ASSUME TypeOK, Locals, NEW w \in Workers, WorkerStep(w)
  PROVE  /\ pc'[w] = "write" => file' = "empty"
         /\ pc[w] = "write" => file' # "empty"
         /\ file' = "garbled" => file = "garbled" \/ (pc[w] = "write" /\ file # "empty")
<1> USE NotebookAssumption DEF TypeOK, Goto, Return, Fail, Retry, Probe, AskAgain,
      AfterRecord, Unreadable
<1>1. CASE Write(w)
  <2>1. notebook[w] \in Notebooks /\ pc[w] = "write"
    BY <1>1 DEF Write, Locals, LocalsOf, HasNotebook
  <2>2. pc'[w] # "write"
    BY <1>1 DEF Write
  <2> QED
    BY <1>1, <2>1, <2>2 DEF Write, Filled
<1>2. CASE Truncate(w) \/ WriteFails(w)
  BY <1>2 DEF Truncate, WriteFails
<1>3. CASE WorkerStep(w) /\ ~(Write(w) \/ Truncate(w) \/ WriteFails(w))
  <2>1. file' = file /\ pc[w] # "write"
    BY <1>3 DEF WorkerStep, Step, Begin, Lock, Read, AuthFails, ProbeAnswers, ProbeFails,
       ProbeNewFails, Insert, InsertFails, Finish, RunErrs, ResetAgain
  <2>2. pc'[w] # "write"
    BY <1>3 DEF WorkerStep, Step, Begin, Lock, Read, AuthFails, ProbeAnswers, ProbeFails,
       ProbeNewFails, Insert, InsertFails, Finish, RunErrs, ResetAgain, ContextStart
  <2> QED
    BY <2>1, <2>2
<1> QED
  BY <1>1, <1>2, <1>3

LEMMA RecordKept ==
  ASSUME TypeOK, Locals, LockHeldWhileDeciding, FilledAlone, RecordReadable,
         NEW w \in Workers, WorkerStep(w)
  PROVE  FilledAlone' /\ RecordReadable'
<1>1. FilledAlone'
  <2> SUFFICES ASSUME NEW v \in Workers, pc'[v] = "write", ~strayed'
               PROVE  file' = "empty"
    BY DEF FilledAlone
  <2>1. ~strayed
    BY OneAtATime
  <2>2. CASE v = w
    BY <2>2, Filling
  <2>3. CASE v # w
    <3>1. pc[v] = "write" /\ file = "empty" /\ lock = v
      BY <2>1, <2>3, OneAtATime, OneWriter DEF FilledAlone
    <3>2. pc[w] # "write" /\ pc[w] # "truncate"
      BY <2>1, <2>3, <3>1, OneWriter
    <3> QED
      BY <3>1, <3>2, FileChanges
  <2> QED
    BY <2>2, <2>3
<1>2. file' = "empty" => \E v \in Workers : Recording(v)'
  <2> SUFFICES ASSUME file' = "empty" PROVE \E v \in Workers : pc'[v] = "write"
    BY DEF Recording
  <2>1. CASE pc[w] = "truncate"
    <3>1. Truncate(w) \/ WriteFails(w)
      BY <2>1 DEF WorkerStep, Step, Begin, Lock, Read, AuthFails, ProbeAnswers, ProbeFails,
         ProbeNewFails, Insert, InsertFails, Write, Finish, RunErrs, ResetAgain
    <3>2. CASE Truncate(w)
      BY <3>2 DEF Truncate, Goto, TypeOK
    <3>3. CASE WriteFails(w)
      <4>1. file = "empty"
        BY <2>1, <3>3 DEF WriteFails
      <4>2. PICK v \in Workers : pc[v] = "write"
        BY <4>1 DEF RecordReadable, Recording
      <4> QED
        BY <2>1, <4>2, OneAtATime
    <3> QED
      BY <3>1, <3>2, <3>3
  <2>2. CASE pc[w] # "truncate"
    <3>1. pc[w] # "write" /\ file = "empty"
      BY <2>2, Filling, FileChanges
    <3>2. PICK v \in Workers : pc[v] = "write"
      BY <3>1 DEF RecordReadable, Recording
    <3> QED
      BY <3>1, <3>2, OneAtATime
  <2> QED
    BY <2>1, <2>2
<1>3. file' = "garbled" => strayed'
  BY Filling, OneAtATime DEF FilledAlone, RecordReadable
<1> QED
  BY <1>1, <1>2, <1>3 DEF RecordReadable

\* No operation decides to provision while another one records.
LEMMA InsertKept ==
  ASSUME TypeOK, Locals, LockHeldWhileDeciding, InsertOnlyWithoutRecord,
         NEW w \in Workers, WorkerStep(w)
  PROVE  InsertOnlyWithoutRecord'
<1> SUFFICES ASSUME NEW v \in Workers, pc'[v] = "insert", ensure'[v], ~dead'[v],
                    file' \in Notebooks, ~strayed'
             PROVE  FALSE
  BY DEF InsertOnlyWithoutRecord
<1>1. ~strayed
  BY OneAtATime
<1>2. CASE v = w
  <2>1. Read(w)
    BY <1>2 DEF WorkerStep, Step, Begin, Lock, AuthFails, ProbeAnswers, ProbeFails,
       ProbeNewFails, Insert, InsertFails, Truncate, Write, WriteFails, Finish, RunErrs,
       ResetAgain, Goto, Return, Fail, Retry, Probe, AskAgain, AfterRecord, ContextStart, TypeOK
  <2> QED
    BY <1>2, <2>1 DEF Read, Recorded, Goto, Probe, TypeOK
<1>3. CASE v # w
  <2>1. pc[v] = "insert" /\ ensure[v] /\ ~dead[v]
    BY <1>3, OneAtATime
  <2>2. file \notin Notebooks
    BY <1>1, <2>1 DEF InsertOnlyWithoutRecord
  <2>3. pc[w] = "write"
    BY <2>2, FileChanges, NotebookAssumption DEF Unreadable
  <2>4. lock = w /\ lock = v
    BY <1>1, <2>1, <2>3, OneWriter DEF LockHeldWhileDeciding, InContext
  <2> QED
    BY <1>3, <2>4
<1> QED
  BY <1>2, <1>3

-----------------------------------------------------------------------------
THEOREM InductiveInvariant == SafeSpec => []IInv
<1>1. Init => IInv
  <2> SUFFICES ASSUME Init PROVE IInv
    OBVIOUS
  <2>1. TypeOK
    <3>1. faults \in 0..MaxFaults /\ attempt \in [Workers -> 0..1]
      BY NotebookAssumption DEF Init
    <3>2. ensure \in [Workers -> BOOLEAN] /\ dead \in [Workers -> BOOLEAN] /\ strayed \in BOOLEAN
      BY Zenon DEF Init
    <3>3. /\ file \in Notebooks \cup Unreadable /\ lock \in Workers \cup {None}
          /\ alive \subseteq created /\ created \subseteq Notebooks
          /\ pc \in [Workers -> Pcs] /\ notebook \in [Workers -> Notebooks \cup {None}]
      BY DEF Init, Unreadable, Pcs
    <3> QED
      BY <3>1, <3>2, <3>3 DEF TypeOK
  <2>2. Locals
    BY DEF Init, Locals, LocalsOf, HasNotebook
  <2>3. LockHeldWhileDeciding
    BY NotebookAssumption DEF Init, LockHeldWhileDeciding, InContext, Workers
  <2>4. FilledAlone /\ RecordReadable /\ InsertOnlyWithoutRecord
    BY DEF Init, FilledAlone, RecordReadable, InsertOnlyWithoutRecord
  <2> QED
    BY <2>1, <2>2, <2>3, <2>4 DEF IInv
<1>2. IInv /\ [Next]_vars => IInv'
  <2> SUFFICES ASSUME IInv, [Next]_vars PROVE IInv'
    OBVIOUS
  <2>1. ASSUME NEW w \in Workers, WorkerStep(w) PROVE IInv'
    BY <2>1, TypesKept, LocalsKept, LockKept, RecordKept, InsertKept DEF IInv
  <2>2. ASSUME NEW n \in Notebooks, NotebookDies(n) PROVE IInv'
    <3>1. TypeOK'
      BY <2>2, NotebookAssumption DEF IInv, TypeOK, NotebookDies, Fault, workerVars
    <3> QED
      BY <2>2, <3>1 DEF IInv, NotebookDies, workerVars, Locals, LocalsOf,
         LockHeldWhileDeciding, InContext, FilledAlone, RecordReadable, Recording,
         InsertOnlyWithoutRecord
  <2>3. ASSUME UNCHANGED vars PROVE IInv'
    BY <2>3 DEF vars, workerVars, IInv, TypeOK, Locals, LocalsOf,
       LockHeldWhileDeciding, InContext, FilledAlone, RecordReadable, Recording,
       InsertOnlyWithoutRecord
  <2> QED
    BY <2>1, <2>2, <2>3 DEF Next, WorkerStep
<1> QED
  BY <1>1, <1>2, PTL DEF SafeSpec

\* Variables keep their types: a run makes at most two attempts.
THEOREM NotebookTypeCorrect == SafeSpec => []TypeOK
BY InductiveInvariant, PTL DEF IInv

\* ensure_lock is held by exactly the operation that decides or records.
THEOREM LockIsHeld == SafeSpec => []LockHeldWhileDeciding
BY InductiveInvariant, PTL DEF IInv

\* A truncated state.json has a writer at work, and writes mix only after a
\* reset recorded outside of the lock.
THEOREM RecordStaysReadable == SafeSpec => []RecordReadable
BY InductiveInvariant, PTL DEF IInv

\* Nobody who holds ensure_lock provisions beside a record that is not known to
\* be dead.
THEOREM NoNeedlessInsert == SafeSpec => []InsertOnlyWithoutRecord
BY InductiveInvariant, PTL DEF IInv

-----------------------------------------------------------------------------
(* The operations advance. *)

\* How many steps an operation has left at most if nothing fails any more: a
\* notebook that has died makes it turn back once, a reset records twice.
Doomed(w) == pc[w] \in {"probeNew", "truncate", "write", "use"} /\ notebook[w] \notin alive
Recorder(w) == w \in Resetters /\ attempt[w] = 0 /\ pc[w] # "idle"
StepsLeft == [idle |-> 0, use |-> 1, write |-> 2, truncate |-> 3, probeNew |-> 4,
              insert |-> 5, probe |-> 6, read |-> 7, lock |-> 8]
Left(w) == StepsLeft[pc[w]] + (IF Doomed(w) THEN 8 ELSE 0) + (IF Recorder(w) THEN 3 ELSE 0)

\* A step of an operation brings it nearer to its end, unless something fails.
LEMMA StepAdvances ==
  ASSUME TypeOK, Locals, NEW w \in Workers, Lock(w) \/ Step(w), faults' = faults
  PROVE  Left(w)' < Left(w)
<1> USE NotebookAssumption DEF TypeOK, Locals, LocalsOf, HasNotebook, NotRecording, Pcs,
      Left, Doomed, Recorder, StepsLeft, Goto, Return, Probe, Fault
<1>0. faults \in Nat /\ faults # faults + 1
  OBVIOUS
<1>1. CASE Lock(w)
  BY <1>1 DEF Lock
<1>2. CASE Read(w)
  BY <1>2 DEF Read
<1>3. CASE AuthFails(w) \/ InsertFails(w) \/ WriteFails(w)
  BY <1>0, <1>3 DEF AuthFails, InsertFails, WriteFails
<1>4. CASE ProbeAnswers(w)
  BY <1>4 DEF ProbeAnswers
<1>5. CASE ProbeFails(w)
  BY <1>5 DEF ProbeFails
<1>6. CASE ProbeNewFails(w)
  <2>1. notebook[w] \notin alive
    BY <1>0, <1>6 DEF ProbeNewFails, ProbeErrs
  <2> QED
    BY <1>6, <2>1 DEF ProbeNewFails, Retry, Fail
<1>7. CASE Insert(w)
  BY <1>7 DEF Insert
<1>8. CASE Truncate(w)
  BY <1>8 DEF Truncate
<1>9. CASE Write(w)
  BY <1>9 DEF Write, AfterRecord
<1>10. CASE Finish(w)
  BY <1>10 DEF Finish
<1>11. CASE RunErrs(w)
  <2>1. notebook[w] \notin alive
    BY <1>0, <1>11 DEF RunErrs, ProbeErrs
  <2> QED
    BY <1>11, <2>1 DEF RunErrs, AskAgain, ContextStart
<1>12. CASE ResetAgain(w)
  <2>1. CASE ProbeErrs(w) /\ Return(w)
    BY <1>12, <2>1 DEF ResetAgain
  <2>2. CASE notebook[w] \in alive /\ pc' = [pc EXCEPT ![w] = "truncate"]
    BY <1>12, <2>2 DEF ResetAgain
  <2> QED
    BY <1>12, <2>1, <2>2 DEF ResetAgain
<1> QED
  BY <1>1, <1>2, <1>3, <1>4, <1>5, <1>6, <1>7, <1>8, <1>9, <1>10, <1>11, <1>12 DEF Step

\* Failures are only added, and but for a notebook's death none takes a live one.
LEMMA FailuresCount ==
  ASSUME TypeOK, NEW w \in Workers, WorkerStep(w)
  PROVE  (faults' = faults \/ faults' > faults) /\ alive \subseteq alive'
<1> USE NotebookAssumption DEF TypeOK, Fault, NoFault, ProbeErrs
<1>1. CASE Begin(w) \/ Lock(w) \/ Read(w) \/ ProbeAnswers(w)
  BY <1>1 DEF Begin, Lock, Read, ProbeAnswers
<1>2. CASE AuthFails(w) \/ ProbeFails(w) \/ ProbeNewFails(w) \/ InsertFails(w)
  BY <1>2 DEF AuthFails, ProbeFails, ProbeNewFails, InsertFails
<1>3. CASE Insert(w) \/ Truncate(w) \/ Write(w) \/ WriteFails(w)
  BY <1>3 DEF Insert, Truncate, Write, WriteFails
<1>4. CASE Finish(w) \/ RunErrs(w) \/ ResetAgain(w)
  BY <1>4 DEF Finish, RunErrs, ResetAgain
<1> QED
  BY <1>1, <1>2, <1>3, <1>4 DEF WorkerStep, Step

\* What a step does to an operation under way.
Advances(w) ==
  \/ faults' > faults
  \/ Left(w)' < Left(w)
  \/ pc'[w] = pc[w] /\ Left(w)' <= Left(w)

\* No operation goes round: between two failures each has at most 15 steps of
\* its own, whatever the others do meanwhile, so that the retries of a context
\* (mod.rs 587-640) and of a run (mod.rs 870-924) end with the failures.
THEOREM OperationsAdvance ==
  SafeSpec => /\ [](\A w \in Workers : Left(w) \in 0..15)
              /\ [][\A w \in Workers : pc[w] # "idle" => Advances(w)]_vars
<1>1. IInv /\ [Next]_vars => [\A w \in Workers : pc[w] # "idle" => Advances(w)]_vars
  <2> SUFFICES ASSUME IInv, Next, NEW v \in Workers, pc[v] # "idle"
               PROVE  Advances(v)
    OBVIOUS
  <2> USE DEF IInv
  <2>1. ASSUME NEW n \in Notebooks, NotebookDies(n) PROVE faults' > faults
    BY <2>1 DEF NotebookDies, Fault, TypeOK
  <2>2. ASSUME NEW w \in Workers, w # v, WorkerStep(w) PROVE Advances(v)
    <3>1. /\ pc'[v] = pc[v] /\ notebook'[v] = notebook[v] /\ attempt'[v] = attempt[v]
          /\ alive \subseteq alive'
      BY <2>2, OneAtATime, FailuresCount
    <3>2. StepsLeft[pc[v]] \in Nat
      BY DEF StepsLeft, TypeOK, Pcs
    <3>3. (Recorder(v)' <=> Recorder(v)) /\ (Doomed(v)' => Doomed(v))
      BY <3>1 DEF Recorder, Doomed
    <3> QED
      BY <3>1, <3>2, <3>3 DEF Advances, Left
  <2>3. ASSUME Lock(v) \/ Step(v) PROVE Advances(v)
    BY <2>3, StepAdvances, FailuresCount DEF Advances, WorkerStep
  <2>4. ~Begin(v)
    BY DEF Begin
  <2> QED
    BY <2>1, <2>2, <2>3, <2>4 DEF Next, WorkerStep, Advances
<1>2. IInv => \A w \in Workers : Left(w) \in 0..15
  BY DEF IInv, TypeOK, Pcs, Left, StepsLeft, Doomed, Recorder
<1> QED
  BY <1>1, <1>2, InductiveInvariant, PTL DEF SafeSpec
=============================================================================
