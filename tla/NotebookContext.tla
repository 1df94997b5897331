--------------------------- MODULE NotebookContext ---------------------------
(***************************************************************************)
(* How the operations of the daemon agree on one notebook: Service and     *)
(* DaemonContext of src/daemon/mod.rs.  Every operation asks for a context *)
(* (direct_context): it probes the notebook that state.json records, and   *)
(* provisions another one if that fails.  Most operations do so under      *)
(* ensure_lock and record the notebook; a run with ensure=false does       *)
(* neither, and reset records its notebook again without the lock.         *)
(* A step is one remote request or one access to state.json or the lock.   *)
(***************************************************************************)
EXTENDS Naturals, FiniteSets

CONSTANTS Notebooks,  \* the notebooks the service may hand out
          Ensurers,   \* operations that end with the context: ensure, maintenance
          Runners,    \* run, with ensure=true or false
          Resetters,  \* reset
          None,
          MaxFaults   \* bound: failures of requests, writes and notebooks

\* What state.json may hold instead of a record: nothing yet, a truncated file
\* that is being written, the rest of a failed write, two writes on top of
\* each other.
Unreadable == {"absent", "empty", "partial", "garbled"}

ASSUME NotebookAssumption ==
  /\ MaxFaults \in Nat /\ IsFiniteSet(Notebooks)
  /\ None \notin Ensurers \cup Runners \cup Resetters
  /\ Runners \cap Resetters = {}
  /\ Unreadable \cap Notebooks = {} /\ None \notin Notebooks

Workers == Ensurers \cup Runners \cup Resetters

VARIABLES
  file,      \* state.json: the notebook it records, or why it is unreadable
  lock,      \* the owner of ensure_lock
  alive,     \* the notebooks that answer a probe
  created,   \* those the service has handed out
  pc,        \* where each operation is
  ensure,    \* whether it uses ensure_lock and records its notebook
  dead,      \* its previous_dead
  notebook,  \* the notebook it probes or uses
  attempt,   \* its attempt in run_command_inner
  strayed,   \* history: a reset has begun to record outside ensure_lock
  faults     \* faults so far

workerVars == <<pc, ensure, dead, notebook, attempt>>
vars == <<file, lock, alive, created, workerVars, strayed, faults>>

Pcs == {"idle", "lock", "read", "probe", "insert", "probeNew",
        "truncate", "write", "use"}

\* The type invariant: a run makes at most two attempts (mod.rs 870).
TypeOK ==
  /\ file \in Notebooks \cup Unreadable
  /\ lock \in Workers \cup {None}
  /\ alive \subseteq created /\ created \subseteq Notebooks
  /\ pc \in [Workers -> Pcs]
  /\ ensure \in [Workers -> BOOLEAN]
  /\ dead \in [Workers -> BOOLEAN]
  /\ notebook \in [Workers -> Notebooks \cup {None}]
  /\ attempt \in [Workers -> 0..1]
  /\ strayed \in BOOLEAN
  /\ faults \in 0..MaxFaults

Init ==
  /\ file = "absent" /\ lock = None
  /\ alive = {} /\ created = {}
  /\ pc = [w \in Workers |-> "idle"]
  /\ ensure = [w \in Workers |-> TRUE]
  /\ dead = [w \in Workers |-> FALSE]
  /\ notebook = [w \in Workers |-> None]
  /\ attempt = [w \in Workers |-> 0]
  /\ strayed = FALSE
  /\ faults = 0

-----------------------------------------------------------------------------
Goto(w, label) ==
  /\ pc' = [pc EXCEPT ![w] = label]
  /\ UNCHANGED <<ensure, dead, notebook, attempt, strayed>>
Fault == faults < MaxFaults /\ faults' = faults + 1
NoFault == UNCHANGED faults

\* The operation returns: its local variables are gone.
Return(w) ==
  /\ pc' = [pc EXCEPT ![w] = "idle"]
  /\ ensure' = [ensure EXCEPT ![w] = TRUE]
  /\ dead' = [dead EXCEPT ![w] = FALSE]
  /\ notebook' = [notebook EXCEPT ![w] = None]
  /\ attempt' = [attempt EXCEPT ![w] = 0]
  /\ UNCHANGED strayed

Unlock(w) == lock' = IF lock = w THEN None ELSE lock

\* Where a context starts: behind ensure_lock, or at the state file.
ContextStart(locked) == IF locked THEN "lock" ELSE "read"

\* A request, a maintenance round or a job begins; a run says in its request
\* whether it wants ensure.
Begin(w) ==
  /\ pc[w] = "idle"
  /\ \E e \in IF w \in Runners THEN BOOLEAN ELSE {TRUE} :
       /\ ensure' = [ensure EXCEPT ![w] = e]
       /\ pc' = [pc EXCEPT ![w] = ContextStart(e)]
  /\ UNCHANGED <<dead, notebook, attempt, strayed>>
  /\ NoFault /\ UNCHANGED <<file, lock, alive, created>>

\* Service::direct_context takes the lock for the whole context.
MutLockIgnored(w) ==
  /\ pc[w] = "lock"
  /\ lock' = w
  /\ Goto(w, "read")
  /\ NoFault /\ UNCHANGED <<file, alive, created>>
Lock(w) ==
  /\ pc[w] = "lock" /\ lock = None
  /\ lock' = w
  /\ Goto(w, "read")
  /\ NoFault /\ UNCHANGED <<file, alive, created>>

\* The operation fails; a guard it holds is dropped.
Fail(w) == Return(w) /\ Unlock(w)

\* The attempt's notebook, or none, and where the attempt goes on.
Probe(w, n, label) ==
  /\ notebook' = [notebook EXCEPT ![w] = n]
  /\ pc' = [pc EXCEPT ![w] = label]
  /\ UNCHANGED <<ensure, dead, attempt, strayed>>

\* A failed attempt is tried again, until the deadline.
Retry(w) == \/ Probe(w, None, "read") /\ UNCHANGED lock
            \/ Fail(w)

\* previous_notebook_from_state: an unreadable file counts as no notebook.
Recorded(w) == ~dead[w] /\ file \in Notebooks

Read(w) ==
  /\ pc[w] = "read"
  /\ \/ Recorded(w) /\ Probe(w, file, "probe")
     \/ ~Recorded(w) /\ Goto(w, "insert")
  /\ NoFault /\ UNCHANGED <<file, lock, alive, created>>

\* The authentication of an attempt fails before its first request.
AuthFails(w) ==
  /\ pc[w] \in {"read", "insert"}
  /\ Fault /\ Retry(w)
  /\ UNCHANGED <<file, alive, created>>

\* A context is found: recorded by the service's callers, used as it is by a
\* run with ensure=false.
ProbeAnswers(w) ==
  /\ pc[w] \in {"probe", "probeNew"}
  /\ notebook[w] \in alive
  /\ pc' = [pc EXCEPT ![w] = IF ensure[w] THEN "truncate" ELSE "use"]
  /\ dead' = [dead EXCEPT ![w] = FALSE]
  /\ UNCHANGED <<ensure, notebook, attempt, strayed>>
  /\ NoFault /\ UNCHANGED <<file, lock, alive, created>>

\* The notebook is gone, or its answer is an error of any kind.
ProbeErrs(w) == \/ notebook[w] \notin alive /\ NoFault
                \/ notebook[w] \in alive /\ Fault

MutProbeErrForgotten(w) ==
  /\ pc[w] = "probe" /\ ProbeErrs(w)
  /\ Goto(w, "read")
  /\ UNCHANGED <<file, lock, alive, created>>
ProbeFails(w) ==
  /\ pc[w] = "probe" /\ ProbeErrs(w)
  /\ dead' = [dead EXCEPT ![w] = TRUE]
  /\ notebook' = [notebook EXCEPT ![w] = None]
  /\ pc' = [pc EXCEPT ![w] = "insert"]
  /\ UNCHANGED <<file, lock, alive, created, ensure, attempt, strayed>>

ProbeNewFails(w) ==
  /\ pc[w] = "probeNew" /\ ProbeErrs(w)
  /\ Retry(w)
  /\ UNCHANGED <<file, alive, created>>

\* The service hands out a notebook that runs already or a new one.
Insert(w) ==
  /\ pc[w] = "insert"
  /\ \E n \in alive \cup (Notebooks \ created) :
       /\ Probe(w, n, "probeNew")
       /\ created' = created \cup {n} /\ alive' = alive \cup {n}
  /\ NoFault /\ UNCHANGED <<file, lock>>

\* The request fails, or the notebook is not READY yet.
InsertFails(w) ==
  /\ pc[w] = "insert"
  /\ Fault /\ Retry(w)
  /\ UNCHANGED <<file, alive, created>>

-----------------------------------------------------------------------------
(* record_ok_state: fs::write truncates the file and then fills it. *)

Truncate(w) ==
  /\ pc[w] = "truncate"
  /\ file' = "empty"
  /\ Goto(w, "write")
  /\ NoFault /\ UNCHANGED <<lock, alive, created>>

\* Over what another writer put there meanwhile, a shorter text leaves a tail.
Filled(n) == IF file = "empty" THEN {n} ELSE {n, "garbled"}

AfterRecord(w) == IF attempt[w] = 1 /\ w \in Resetters THEN Return(w) ELSE Goto(w, "use")

MutWriteKeepsLock(w) ==
  /\ pc[w] = "write"
  /\ file' \in Filled(notebook[w])
  /\ AfterRecord(w) /\ UNCHANGED lock
  /\ NoFault /\ UNCHANGED <<alive, created>>
Write(w) ==
  /\ pc[w] = "write"
  /\ file' \in Filled(notebook[w])
  /\ AfterRecord(w) /\ Unlock(w)
  /\ NoFault /\ UNCHANGED <<alive, created>>

\* An error of the write ends the operation, before or after the truncation.
WriteFails(w) ==
  /\ \/ pc[w] = "truncate" /\ UNCHANGED file
     \/ pc[w] = "write" /\ file' = "partial"
  /\ Fault /\ Fail(w)
  /\ UNCHANGED <<alive, created>>

-----------------------------------------------------------------------------
(* What the operation does with its notebook. *)

\* ensure has nothing to do; a run gets its marker and status.
Finish(w) ==
  /\ pc[w] = "use" /\ w \notin Resetters
  /\ w \in Runners => notebook[w] \in alive
  /\ Return(w)
  /\ NoFault /\ UNCHANGED <<file, lock, alive, created>>

\* A run's first error makes it ask for another notebook, its second one ends
\* it; the command may have been executed in either case.
AskAgain(w) ==
  /\ pc' = [pc EXCEPT ![w] = ContextStart(ensure[w])]
  /\ attempt' = [attempt EXCEPT ![w] = @ + 1]
  /\ dead' = [dead EXCEPT ![w] = TRUE]
  /\ notebook' = [notebook EXCEPT ![w] = None]
  /\ UNCHANGED <<ensure, strayed>>

RunErrs(w) ==
  /\ pc[w] = "use" /\ w \in Runners
  /\ ProbeErrs(w)
  /\ IF attempt[w] = 0 THEN AskAgain(w) ELSE Return(w)
  /\ UNCHANGED <<file, lock, alive, created>>

\* reset, after its work on the kernels: probe its notebook again and record
\* it, without ensure_lock; an error ends it.
ResetAgain(w) ==
  /\ pc[w] = "use" /\ w \in Resetters
  /\ \/ /\ notebook[w] \in alive /\ NoFault
        /\ pc' = [pc EXCEPT ![w] = "truncate"]
        /\ attempt' = [attempt EXCEPT ![w] = 1]
        /\ strayed' = TRUE
        /\ UNCHANGED <<ensure, dead, notebook>>
     \/ ProbeErrs(w) /\ Return(w)
  /\ UNCHANGED <<file, lock, alive, created>>

\* A notebook's lifetime ends; the service always has one left to hand out.
NotebookDies(n) ==
  /\ n \in alive /\ Fault
  /\ alive # {n} \/ created # Notebooks
  /\ alive' = alive \ {n}
  /\ UNCHANGED <<file, lock, created, workerVars, strayed>>

Step(w) ==
  \/ Read(w) \/ AuthFails(w) \/ ProbeAnswers(w) \/ ProbeFails(w) \/ ProbeNewFails(w)
  \/ Insert(w) \/ InsertFails(w) \/ Truncate(w) \/ Write(w) \/ WriteFails(w)
  \/ Finish(w) \/ RunErrs(w) \/ ResetAgain(w)

Next == \/ \E w \in Workers : Begin(w) \/ Lock(w) \/ Step(w)
        \/ \E n \in Notebooks : NotebookDies(n)

(***************************************************************************)
(* Requests end (a websocket that connects has no timeout, and is assumed  *)
(* to end) and threads are scheduled.  The mutex is not queued, but its    *)
(* owners are apart by whole requests and intervals, so that a waiting     *)
(* thread does not lose it for ever.  Maintenance begins again and again;  *)
(* the other operations need not.                                          *)
(***************************************************************************)
Fairness ==
  /\ \A w \in Workers : WF_vars(Step(w)) /\ SF_vars(Lock(w))
  /\ \A w \in Ensurers : WF_vars(Begin(w))

SafeSpec == Init /\ [][Next]_vars

Spec == SafeSpec /\ Fairness

-----------------------------------------------------------------------------
InContext(w) == pc[w] \in {"read", "probe", "insert", "probeNew"}
Recording(w) == pc[w] = "write"

\* Under ensure_lock a notebook is provisioned only when none is recorded or
\* the recorded one failed this operation: two operations that start together
\* do not provision one each (mod.rs 822-833, 587-612).  A reset that records
\* again, without the lock, may break it.
InsertOnlyWithoutRecord == \A w \in Workers :
  pc[w] = "insert" /\ ensure[w] /\ ~dead[w] /\ file \in Notebooks => strayed

\* ensure_lock is held by exactly the operation between its acquisition and
\* the end of its record, however the operation fails (mod.rs 822-833).  A
\* reset's second record is the only write outside of it.
LockHeldWhileDeciding == \A w \in Workers :
  (\/ ensure[w] /\ InContext(w)
   \/ (pc[w] \in {"truncate", "write"} /\ ~(w \in Resetters /\ attempt[w] = 1)))
    <=> lock = w

\* state.json is truncated only while a writer is at work, whatever fails, and
\* two writes do not mix, though fs::write is not atomic (util.rs 84-91): the
\* lock keeps the writers apart, all but a reset that records again.
RecordReadable ==
  /\ file = "empty" => \E w \in Workers : Recording(w)
  /\ file = "garbled" => strayed

\* Every operation ends: no failure leaves ensure_lock held, and the retry of
\* a failed context does not go round for ever.
EveryOperationEnds == \A w \in Workers : pc[w] # "idle" ~> pc[w] = "idle"

\* Maintenance keeps a usable notebook recorded: whatever dies, fails, races
\* or is overwritten by a reset, state.json names a live notebook again.
UsableNotebookRecorded == []<>(file \in alive)
=============================================================================
