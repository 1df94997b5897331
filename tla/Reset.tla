-------------------------------- MODULE Reset --------------------------------
(***************************************************************************)
(* Service::reset of src/daemon/mod.rs and the exit code that juctl reset  *)
(* makes of its reply (src/bin/juctl.rs): flag every running kernel, shut  *)
(* kernels, sessions and terminals down, start a fresh kernel, and look    *)
(* for the flag in it.  Resets are not serialised, and other users of the  *)
(* Jupyter server start and end kernels meanwhile.  A step is one request  *)
(* to the server, whose answer may be lost after it took effect.           *)
(***************************************************************************)
EXTENDS Naturals, FiniteSets

CONSTANTS Kernels,    \* kernel ids; the server never uses one twice
          Resets,     \* concurrent reset requests; each sets a flag of its own
          None,
          MaxFaults   \* bound: requests that err

ASSUME ResetAssumption ==
  MaxFaults \in Nat /\ None \notin Kernels /\ IsFiniteSet(Kernels)

VARIABLES
  live,       \* the kernels that run on the server
  used,       \* those that ever ran
  flags,      \* the flags set in each kernel
  pc,         \* where each reset is
  todo,       \* the rest of the list its loop goes through
  flagged,    \* its flagged_kernels
  tried,      \* the kernels whose DELETE erred
  closed,     \* its closed_kernels
  remaining,  \* its list of kernels that did not stop
  listed,     \* whether that list could be read (not part of the reply)
  opened,     \* the kernel it started
  cleared,    \* "cleared" of its flag check: "null", "true" or "false"
  exit,       \* the exit code of its juctl reset, None while it runs
  faults

serverVars == <<live, used, flags>>
resetVars == <<pc, todo, flagged, tried, closed, remaining, listed, opened, cleared,
               exit>>
vars == <<serverVars, resetVars, faults>>

Pcs == {"start", "flag", "stop", "remaining", "open", "check", "record", "done"}

\* The type invariant: the exit code is 0 or 1 (juctl.rs 601-689).
TypeOK ==
  /\ live \subseteq used /\ used \subseteq Kernels
  /\ flags \in [Kernels -> SUBSET Resets]
  /\ pc \in [Resets -> Pcs]
  /\ \A f \in {todo, flagged, tried, closed, remaining} : f \in [Resets -> SUBSET Kernels]
  /\ listed \in [Resets -> BOOLEAN]
  /\ opened \in [Resets -> Kernels \cup {None}]
  /\ cleared \in [Resets -> {"null", "true", "false"}]
  /\ exit \in [Resets -> {None, 0, 1}]
  /\ faults \in 0..MaxFaults

InitiallyLive(n) == {K \in SUBSET Kernels : Cardinality(K) <= n}

Init ==
  /\ live \in InitiallyLive(2) /\ used = live
  /\ flags = [k \in Kernels |-> {}]
  /\ pc = [r \in Resets |-> "start"]
  /\ todo = [r \in Resets |-> {}] /\ flagged = [r \in Resets |-> {}]
  /\ tried = [r \in Resets |-> {}] /\ closed = [r \in Resets |-> {}]
  /\ remaining = [r \in Resets |-> {}]
  /\ listed = [r \in Resets |-> FALSE]
  /\ opened = [r \in Resets |-> None]
  /\ cleared = [r \in Resets |-> "null"]
  /\ exit = [r \in Resets |-> None]
  /\ faults = 0

-----------------------------------------------------------------------------
Goto(r, label) == pc' = [pc EXCEPT ![r] = label]
Fault == faults < MaxFaults /\ faults' = faults + 1
NoFault == UNCHANGED faults

\* An error of the reset is an error of the request: juctl exits with 1.
Bail(r) == Goto(r, "done") /\ exit' = [exit EXCEPT ![r] = 1]

\* The context cannot be had.
ContextFails(r) ==
  /\ pc[r] = "start" /\ Fault /\ Bail(r)
  /\ UNCHANGED <<serverVars, todo, flagged, tried, closed, remaining, listed, opened, cleared>>

\* list_kernels: an error counts as an empty list.
ListKernels(r) ==
  \/ todo' = [todo EXCEPT ![r] = live] /\ NoFault
  \/ todo' = [todo EXCEPT ![r] = {}] /\ Fault

ListToFlag(r) ==
  /\ pc[r] = "start"
  /\ ListKernels(r) /\ Goto(r, "flag")
  /\ UNCHANGED <<serverVars, flagged, tried, closed, remaining, listed, opened, cleared, exit>>

\* kernel_execute sets the flag; its reply may be an error or never come.
SetFlag(r, k) ==
  /\ pc[r] = "flag" /\ k \in todo[r]
  /\ todo' = [todo EXCEPT ![r] = @ \ {k}]
  /\ \/ /\ k \in live /\ NoFault
        /\ flags' = [flags EXCEPT ![k] = @ \cup {r}]
        /\ flagged' = [flagged EXCEPT ![r] = @ \cup {k}]
     \/ /\ k \in live /\ Fault
        /\ flags' \in {flags, [flags EXCEPT ![k] = @ \cup {r}]}
        /\ UNCHANGED flagged
     \/ /\ k \notin live /\ NoFault
        /\ UNCHANGED <<flags, flagged>>
  /\ UNCHANGED <<live, used, pc, tried, closed, remaining, listed, opened, cleared, exit>>

ListToStop(r) ==
  /\ pc[r] = "flag" /\ todo[r] = {}
  /\ ListKernels(r) /\ Goto(r, "stop")
  /\ UNCHANGED <<serverVars, flagged, tried, closed, remaining, listed, opened, cleared, exit>>

\* shutdown_kernel: success of the DELETE and 404 both mean that the kernel is
\* gone; after any other answer, or none, it may run or not.
MutErrorIsClosed(r, k) ==
  /\ pc[r] = "stop" /\ k \in todo[r]
  /\ \/ live' = live \ {k} /\ NoFault
     \/ live' \in {live, live \ {k}} /\ Fault
  /\ todo' = [todo EXCEPT ![r] = @ \ {k}]
  /\ closed' = [closed EXCEPT ![r] = @ \cup {k}]
  /\ UNCHANGED <<used, flags, pc, flagged, tried, remaining, listed, opened, cleared, exit>>
ShutDown(r, k) ==
  /\ pc[r] = "stop" /\ k \in todo[r] /\ todo[r] \cap tried[r] = {}
  /\ \/ /\ live' = live \ {k} /\ NoFault
        /\ todo' = [todo EXCEPT ![r] = @ \ {k}]
        /\ closed' = [closed EXCEPT ![r] = @ \cup {k}]
        /\ UNCHANGED tried
     \/ /\ live' \in {live, live \ {k}} /\ Fault
        /\ tried' = [tried EXCEPT ![r] = @ \cup {k}]
        /\ UNCHANGED <<todo, closed>>
  /\ UNCHANGED <<used, flags, pc, flagged, remaining, listed, opened, cleared, exit>>

\* Its fallback after an error, POST .../shutdown.  The Jupyter server has no
\* such route: it answers 404, which counts as closed though the kernel may
\* run.  Only another error leaves the kernel out of closed_kernels.
ShutDownAgain(r, k) ==
  /\ pc[r] = "stop" /\ k \in todo[r] \cap tried[r]
  /\ todo' = [todo EXCEPT ![r] = @ \ {k}]
  /\ \/ closed' = [closed EXCEPT ![r] = @ \cup {k}] /\ NoFault
     \/ UNCHANGED closed /\ Fault
  /\ UNCHANGED <<serverVars, pc, flagged, tried, remaining, listed, opened, cleared, exit>>

\* Deleting a session ends its kernel; listing or deleting may err.
CloseSessions(r) ==
  /\ pc[r] = "stop" /\ todo[r] = {}
  /\ live' \in SUBSET live /\ NoFault
  /\ Goto(r, "remaining")
  /\ UNCHANGED <<used, flags, todo, flagged, tried, closed, remaining, listed, opened, cleared, exit>>

\* The kernels still listed that were not closed; an error counts as none.
MutRemainingOfFlagged(r) ==
  /\ pc[r] = "remaining" /\ Goto(r, "open")
  /\ remaining' = [remaining EXCEPT ![r] = (live \cap flagged[r]) \ closed[r]]
  /\ listed' = [listed EXCEPT ![r] = TRUE] /\ NoFault
  /\ UNCHANGED <<serverVars, todo, flagged, tried, closed, opened, cleared, exit>>
ListRemaining(r) ==
  /\ pc[r] = "remaining" /\ Goto(r, "open")
  /\ \/ /\ remaining' = [remaining EXCEPT ![r] = live \ closed[r]]
        /\ listed' = [listed EXCEPT ![r] = TRUE] /\ NoFault
     \/ Fault /\ UNCHANGED <<remaining, listed>>
  /\ UNCHANGED <<serverVars, todo, flagged, tried, closed, opened, cleared, exit>>

\* start_kernel, and a session for the notebook file.
MutStartReusesKernel(r) ==
  /\ pc[r] = "open"
  /\ \E k \in live \cup (Kernels \ used) :
       /\ opened' = [opened EXCEPT ![r] = k]
       /\ live' = live \cup {k} /\ used' = used \cup {k}
  /\ Goto(r, "check") /\ NoFault
  /\ UNCHANGED <<flags, todo, flagged, tried, closed, remaining, listed, cleared, exit>>
StartKernel(r) ==
  /\ pc[r] = "open"
  /\ \E k \in Kernels \ used :
       /\ opened' = [opened EXCEPT ![r] = k]
       /\ live' = live \cup {k} /\ used' = used \cup {k}
  /\ Goto(r, "check") /\ NoFault
  /\ UNCHANGED <<flags, todo, flagged, tried, closed, remaining, listed, cleared, exit>>

\* start_kernel errs (the server may have started one); the reset bails.
StartFails(r) ==
  /\ pc[r] = "open" /\ Fault /\ Bail(r)
  /\ \/ UNCHANGED <<live, used>>
     \/ \E k \in Kernels \ used : live' = live \cup {k} /\ used' = used \cup {k}
  /\ UNCHANGED <<flags, todo, flagged, tried, closed, remaining, listed, opened, cleared>>

\* The flag is evaluated in the new kernel.  Any reply that does not hold its
\* value counts as cleared; no reply leaves the check inconclusive.
CheckFlag(r) ==
  /\ pc[r] = "check" /\ Goto(r, "record")
  /\ \/ flagged[r] = {} /\ NoFault /\ UNCHANGED cleared
     \/ /\ flagged[r] # {} /\ opened[r] \in live /\ NoFault
        /\ cleared' = [cleared EXCEPT ![r] =
                         IF r \in flags[opened[r]] THEN "false" ELSE "true"]
     \/ /\ flagged[r] # {} /\ Fault
        /\ cleared' \in {cleared, [cleared EXCEPT ![r] = "true"]}
     \/ flagged[r] # {} /\ opened[r] \notin live /\ NoFault /\ UNCHANGED cleared
  /\ UNCHANGED <<serverVars, todo, flagged, tried, closed, remaining, listed, opened, exit>>

\* Probe and record the notebook, reply, and exit (command_reset).
Reply(r) ==
  /\ pc[r] = "record" /\ NoFault
  /\ Goto(r, "done")
  /\ exit' = [exit EXCEPT ![r] = IF cleared[r] = "false" THEN 1 ELSE 0]
  /\ UNCHANGED <<serverVars, todo, flagged, tried, closed, remaining, listed, opened, cleared>>

RecordFails(r) ==
  /\ pc[r] = "record" /\ Fault /\ Bail(r)
  /\ UNCHANGED <<serverVars, todo, flagged, tried, closed, remaining, listed, opened, cleared>>

\* Others start and end kernels.
OthersStart(k) ==
  /\ k \notin used
  /\ live' = live \cup {k} /\ used' = used \cup {k}
  /\ UNCHANGED <<flags, resetVars, faults>>
OthersStop(k) ==
  /\ k \in live
  /\ live' = live \ {k}
  /\ UNCHANGED <<used, flags, resetVars, faults>>

ResetStep(r) ==
  \/ ContextFails(r) \/ ListToFlag(r) \/ ListToStop(r) \/ CloseSessions(r)
  \/ \E k \in Kernels : SetFlag(r, k) \/ ShutDown(r, k) \/ ShutDownAgain(r, k)
  \/ ListRemaining(r) \/ StartKernel(r) \/ StartFails(r) \/ CheckFlag(r)
  \/ Reply(r) \/ RecordFails(r)

Next == \/ \E r \in Resets : ResetStep(r)
        \/ \E k \in Kernels : OthersStart(k) \/ OthersStop(k)

Spec == Init /\ [][Next]_vars

-----------------------------------------------------------------------------
Carriers(r) == {k \in live : r \in flags[k]}
Succeeded(r) == exit[r] = 0

\* A kernel that reset reports as closed is gone for good, but for those whose
\* DELETE erred: the 404 of the fallback proves nothing (direct.rs 658-683).
ClosedKernelsGone == \A r \in Resets : closed[r] \cap live \subseteq tried[r]

\* A success without a warning is a clean server, again but for the kernels
\* whose DELETE erred: if the last listing could be read and names nobody, no
\* other kernel carries the flag, whatever was lost (mod.rs 1184-1246).
QuietSuccessIsClean == \A r \in Resets :
  Succeeded(r) /\ listed[r] /\ remaining[r] = {} => Carriers(r) \subseteq tried[r]

\* The kernel that reset checks is never one it flagged, so that the check
\* for the flag cannot fail (mod.rs 1250-1328).
CheckedKernelIsNew == \A r \in Resets :
  opened[r] # None => r \notin flags[opened[r]] /\ cleared[r] # "false"

\* What README says of the check: it shows that the reset took effect, and the
\* exit code is not 0 if the flag survived.  Stated for the best of answers: the
\* check says "cleared" and no kernel is reported as remaining.
SurvivingFlagFails == \A r \in Resets :
  Succeeded(r) /\ cleared[r] = "true" /\ remaining[r] = {} => Carriers(r) = {}
=============================================================================
