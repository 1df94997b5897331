----------------------------- MODULE Reset_proofs -----------------------------
(***************************************************************************)
(* Proofs about the reset of a notebook.  Kernel ids are never used twice: *)
(* a kernel that a reset has closed, or one that it has seen before it     *)
(* starts its own, can therefore never come back as a live one.            *)
(***************************************************************************)
EXTENDS Reset, FiniteSetTheorems, TLAPS

\* Every variable keeps its type; the exit code is 0 or 1.
THEOREM ResetTypeCorrect == Spec => []TypeOK
<1>1. Init => TypeOK
  BY ResetAssumption DEF Init, TypeOK, InitiallyLive, Pcs
<1>2. TypeOK /\ [Next]_vars => TypeOK'
  <2> SUFFICES ASSUME TypeOK, [Next]_vars PROVE TypeOK'
    OBVIOUS
  <2> USE ResetAssumption DEF TypeOK, Pcs, Goto, Bail, Fault, NoFault, ListKernels,
        serverVars, resetVars
  <2>1. ASSUME NEW r \in Resets, ContextFails(r) PROVE TypeOK'
    BY <2>1 DEF ContextFails
  <2>2. ASSUME NEW r \in Resets, ListToFlag(r) PROVE TypeOK'
    BY <2>2 DEF ListToFlag
  <2>3. ASSUME NEW r \in Resets, NEW k \in Kernels, SetFlag(r, k) PROVE TypeOK'
    <3>1. todo' \in [Resets -> SUBSET Kernels]
      BY <2>3 DEF SetFlag
    <3>2. flags' \in [Kernels -> SUBSET Resets]
      BY <2>3 DEF SetFlag
    <3>3. flagged' \in [Resets -> SUBSET Kernels]
      BY <2>3 DEF SetFlag
    <3>4. faults' \in 0..MaxFaults
      BY <2>3 DEF SetFlag
    <3> QED
      BY <2>3, <3>1, <3>2, <3>3, <3>4 DEF SetFlag
  <2>4. ASSUME NEW r \in Resets, ListToStop(r) PROVE TypeOK'
    BY <2>4 DEF ListToStop
  <2>5. ASSUME NEW r \in Resets, NEW k \in Kernels, ShutDown(r, k) PROVE TypeOK'
    BY <2>5 DEF ShutDown
  <2>15. ASSUME NEW r \in Resets, NEW k \in Kernels, ShutDownAgain(r, k) PROVE TypeOK'
    BY <2>15 DEF ShutDownAgain
  <2>6. ASSUME NEW r \in Resets, CloseSessions(r) PROVE TypeOK'
    BY <2>6 DEF CloseSessions
  <2>7. ASSUME NEW r \in Resets, ListRemaining(r) PROVE TypeOK'
    <3>1. CASE /\ remaining' = [remaining EXCEPT ![r] = live \ closed[r]]
               /\ listed' = [listed EXCEPT ![r] = TRUE] /\ NoFault
      <4>1. remaining \in [Resets -> SUBSET Kernels] /\ live \subseteq Kernels
        OBVIOUS
      <4>2. remaining' \in [Resets -> SUBSET Kernels]
        BY <3>1, <4>1
      <4> QED
        BY <2>7, <3>1, <4>2 DEF ListRemaining
    <3>2. CASE Fault /\ UNCHANGED <<remaining, listed>>
      BY <2>7, <3>2 DEF ListRemaining
    <3> QED
      BY <2>7, <3>1, <3>2 DEF ListRemaining
  <2>8. ASSUME NEW r \in Resets, StartKernel(r) PROVE TypeOK'
    BY <2>8 DEF StartKernel
  <2>9. ASSUME NEW r \in Resets, StartFails(r) PROVE TypeOK'
    BY <2>9 DEF StartFails
  <2>10. ASSUME NEW r \in Resets, CheckFlag(r) PROVE TypeOK'
    BY <2>10 DEF CheckFlag
  <2>11. ASSUME NEW r \in Resets, Reply(r) PROVE TypeOK'
    BY <2>11 DEF Reply
  <2>12. ASSUME NEW r \in Resets, RecordFails(r) PROVE TypeOK'
    BY <2>12 DEF RecordFails
  <2>13. ASSUME NEW k \in Kernels, OthersStart(k) \/ OthersStop(k) PROVE TypeOK'
    BY <2>13 DEF OthersStart, OthersStop
  <2>14. ASSUME UNCHANGED vars PROVE TypeOK'
    BY <2>14 DEF vars
  <2> QED
    BY <2>1, <2>2, <2>3, <2>4, <2>5, <2>6, <2>7, <2>8, <2>9, <2>10, <2>11, <2>12,
       <2>13, <2>14, <2>15 DEF Next, ResetStep
<1> QED
  BY <1>1, <1>2, PTL DEF Spec

-----------------------------------------------------------------------------
\* Lists name kernels that exist or existed, and only those were ever flagged.
Past ==
  /\ \A r \in Resets : todo[r] \subseteq used /\ closed[r] \subseteq used
  /\ \A k \in Kernels \ used : flags[k] = {}

\* A reset starts its kernel after it has set its flags, and checks that one.
Phases == \A r \in Resets :
  /\ pc[r] \in {"start", "flag", "stop", "remaining", "open"} => opened[r] = None
  /\ pc[r] = "check" => opened[r] # None
  /\ opened[r] = None => cleared[r] = "null"
  /\ listed[r] => pc[r] \in {"open", "check", "record", "done"}

\* Once the last listing named nobody, no flagged kernel is left but those whose
\* DELETE erred.
Quiet == \A r \in Resets : listed[r] /\ remaining[r] = {} => Carriers(r) \subseteq tried[r]

\* The inductive invariant.
ResetInv == Past /\ Phases /\ Quiet /\ ClosedKernelsGone /\ CheckedKernelIsNew

\* No request of a reset and no other user of the server breaks it.
LEMMA ResetInvStep == TypeOK /\ ResetInv /\ [Next]_vars => ResetInv'
<1> SUFFICES ASSUME TypeOK, ResetInv, [Next]_vars PROVE ResetInv'
  OBVIOUS
<1> USE ResetAssumption DEF TypeOK, Pcs, Goto, Bail, Fault, NoFault, ListKernels,
      serverVars, resetVars, ResetInv, Past, Phases, Quiet, ClosedKernelsGone,
      CheckedKernelIsNew, Carriers
<1>1. ASSUME NEW r \in Resets, ContextFails(r) PROVE ResetInv'
  BY <1>1 DEF ContextFails
<1>2. ASSUME NEW r \in Resets, ListToFlag(r) PROVE ResetInv'
  BY <1>2 DEF ListToFlag
<1>3. ASSUME NEW r \in Resets, NEW k \in Kernels, SetFlag(r, k) PROVE ResetInv'
  BY <1>3 DEF SetFlag
<1>4. ASSUME NEW r \in Resets, ListToStop(r) PROVE ResetInv'
  BY <1>4 DEF ListToStop
<1>5. ASSUME NEW r \in Resets, NEW k \in Kernels, ShutDown(r, k) PROVE ResetInv'
  BY <1>5 DEF ShutDown
<1>14. ASSUME NEW r \in Resets, NEW k \in Kernels, ShutDownAgain(r, k) PROVE ResetInv'
  BY <1>14 DEF ShutDownAgain
<1>6. ASSUME NEW r \in Resets, CloseSessions(r) PROVE ResetInv'
  BY <1>6 DEF CloseSessions
<1>7. ASSUME NEW r \in Resets, ListRemaining(r) PROVE ResetInv'
  BY <1>7 DEF ListRemaining
<1>8. ASSUME NEW r \in Resets, StartKernel(r) PROVE ResetInv'
  <2>1. PICK k \in Kernels \ used : /\ opened' = [opened EXCEPT ![r] = k]
                                    /\ live' = live \cup {k} /\ used' = used \cup {k}
    BY <1>8 DEF StartKernel
  <2>2. flags[k] = {} /\ \A q \in Resets : k \notin closed[q]
    BY <2>1
  <2>3. Past' /\ Phases'
    BY <1>8, <2>1 DEF StartKernel
  <2>4. Quiet' /\ ClosedKernelsGone'
    BY <1>8, <2>1, <2>2 DEF StartKernel
  <2>5. CheckedKernelIsNew'
    BY <1>8, <2>1, <2>2 DEF StartKernel
  <2> QED
    BY <2>3, <2>4, <2>5
<1>9. ASSUME NEW r \in Resets, StartFails(r) PROVE ResetInv'
  BY <1>9 DEF StartFails
<1>10. ASSUME NEW r \in Resets, CheckFlag(r) PROVE ResetInv'
  BY <1>10 DEF CheckFlag
<1>11. ASSUME NEW r \in Resets, Reply(r) \/ RecordFails(r) PROVE ResetInv'
  BY <1>11 DEF Reply, RecordFails
<1>12. ASSUME NEW k \in Kernels, OthersStart(k) \/ OthersStop(k) PROVE ResetInv'
  BY <1>12 DEF OthersStart, OthersStop
<1>13. ASSUME UNCHANGED vars PROVE ResetInv'
  BY <1>13 DEF vars
<1> QED
  BY <1>1, <1>2, <1>3, <1>4, <1>5, <1>6, <1>7, <1>8, <1>9, <1>10, <1>11, <1>12, <1>13,
     <1>14
  DEF Next, ResetStep

\* It holds from the beginning on.
LEMMA ResetInvariant == Spec => []ResetInv
<1>1. Init => ResetInv
  BY DEF Init, ResetInv, Past, Phases, Quiet, ClosedKernelsGone, CheckedKernelIsNew, Carriers
<1> QED
  BY <1>1, ResetInvStep, ResetTypeCorrect, PTL DEF Spec

\* What reset reports as closed never runs again, whatever answers are lost and
\* whoever else uses the server, but for kernels whose DELETE erred.
THEOREM ClosedStayClosed == Spec => []ClosedKernelsGone
  BY ResetInvariant, PTL DEF ResetInv

\* A success whose last listing was read and empty left no flagged kernel but,
\* it may be, those whose DELETE erred.
THEOREM QuietSuccess == Spec => []QuietSuccessIsClean
<1>1. ResetInv => QuietSuccessIsClean
  BY DEF ResetInv, Quiet, QuietSuccessIsClean
<1> QED
  BY <1>1, ResetInvariant, PTL

\* The kernel that is checked for the flag never had it: for no number of
\* kernels, resets and failures can the check that sets the exit code fail.
THEOREM FlagCheckCannotFail == Spec => []CheckedKernelIsNew
  BY ResetInvariant, PTL DEF ResetInv

-----------------------------------------------------------------------------
\* Where a reset is on its way, and what its loop has left to go through.
Place == [start |-> 0, flag |-> 1, stop |-> 2, remaining |-> 3, open |-> 4,
          check |-> 5, record |-> 6, done |-> 7]
Left(r) == Cardinality(todo[r]) + Cardinality(todo[r] \ tried[r])
Advances(r) ==
  \/ Place[pc'[r]] > Place[pc[r]]
  \/ UNCHANGED <<pc[r], exit[r]>> /\ Left(r) \in Nat /\ Left(r)' < Left(r)

\* Sets that lose an element have fewer.
LEMMA OneLess ==
  ASSUME NEW S, IsFiniteSet(S), NEW k \in S
  PROVE  Cardinality(S) \in Nat /\ Cardinality(S \ {k}) = Cardinality(S) - 1
  BY FS_RemoveElement, FS_CardinalityType

\* A loop over kernels shrinks by the kernel it has dealt with.
LEMMA LoopShrinks ==
  ASSUME TypeOK, NEW r \in Resets, NEW k \in todo[r],
         todo' = [todo EXCEPT ![r] = @ \ {k}], tried' = tried
  PROVE  Left(r) \in Nat /\ Left(r)' < Left(r)
<1> DEFINE S == todo[r]
           U == todo[r] \ tried[r]
<1>1. S \subseteq Kernels /\ U \subseteq Kernels
  BY DEF TypeOK
<1>2. IsFiniteSet(S) /\ IsFiniteSet(U)
  BY ResetAssumption, <1>1, FS_Subset
<1>3. Cardinality(S) \in Nat /\ Cardinality(S \ {k}) = Cardinality(S) - 1
  BY <1>2, OneLess
<1>4. todo'[r] = S \ {k} /\ todo'[r] \ tried'[r] = U \ {k}
  BY DEF TypeOK
<1>7. /\ Left(r) = Cardinality(S) + Cardinality(U)
      /\ Left(r)' = Cardinality(S \ {k}) + Cardinality(U \ {k})
  BY <1>4 DEF Left
<1> HIDE DEF S, U
<1>5. CASE k \in U
  <2>1. Cardinality(U) \in Nat /\ Cardinality(U \ {k}) = Cardinality(U) - 1
    BY <1>2, <1>5, OneLess
  <2> QED
    BY <1>3, <1>7, <2>1
<1>6. CASE k \notin U
  <2>1. U \ {k} = U
    BY <1>6
  <2>2. Cardinality(U) \in Nat /\ Cardinality(U \ {k}) = Cardinality(U)
    BY <1>2, <2>1, FS_CardinalityType
  <2> QED
    BY <1>3, <1>7, <2>2
<1> QED
  BY <1>5, <1>6

\* A DELETE that errs leaves one kernel fewer to be tried.
LEMMA TryShrinks ==
  ASSUME TypeOK, NEW r \in Resets, NEW k \in todo[r], todo[r] \cap tried[r] = {},
         tried' = [tried EXCEPT ![r] = @ \cup {k}], todo' = todo
  PROVE  Left(r) \in Nat /\ Left(r)' < Left(r)
<1> DEFINE S == todo[r]
<1>1. IsFiniteSet(S)
  BY ResetAssumption, FS_Subset DEF TypeOK
<1>2. Cardinality(S) \in Nat /\ Cardinality(S \ {k}) = Cardinality(S) - 1
  BY <1>1, OneLess
<1>3. S \ tried[r] = S /\ todo'[r] = S /\ todo'[r] \ tried'[r] = S \ {k}
  BY DEF TypeOK
<1>4. /\ Left(r) = Cardinality(S) + Cardinality(S)
      /\ Left(r)' = Cardinality(S) + Cardinality(S \ {k})
  BY <1>3 DEF Left
<1> HIDE DEF S
<1> QED
  BY <1>2, <1>4

\* Each step of a reset leads on or shortens the loop it is in, over the kernels
\* as they were listed, whatever starts, stops or fails meanwhile; nobody else
\* sets it back, and its exit code is final (mod.rs 1154-1246, juctl.rs 601-689).
THEOREM ResetsAdvance ==
  Spec => [][\A r \in Resets : IF ResetStep(r) THEN Advances(r)
                               ELSE UNCHANGED <<pc[r], todo[r], exit[r]>>]_vars
<1> DEFINE Proceeds(r) == IF ResetStep(r) THEN Advances(r)
                          ELSE UNCHANGED <<pc[r], todo[r], exit[r]>>
<1>1. TypeOK /\ [Next]_vars => [\A r \in Resets : Proceeds(r)]_vars
  <2> SUFFICES ASSUME TypeOK, Next, NEW v \in Resets PROVE Proceeds(v)
    OBVIOUS
  <2>1. ASSUME ResetStep(v) PROVE Advances(v)
    <3>1. ASSUME NEW k \in Kernels, SetFlag(v, k) \/ ShutDown(v, k) \/ ShutDownAgain(v, k)
          PROVE  Advances(v)
      <4>1. UNCHANGED <<pc, exit>> /\ k \in todo[v]
        BY <3>1 DEF SetFlag, ShutDown, ShutDownAgain
      <4>2. CASE todo' = [todo EXCEPT ![v] = @ \ {k}] /\ UNCHANGED tried
        BY <4>1, <4>2, LoopShrinks DEF Advances
      <4>3. CASE /\ todo[v] \cap tried[v] = {} /\ UNCHANGED todo
                 /\ tried' = [tried EXCEPT ![v] = @ \cup {k}]
        BY <4>1, <4>3, TryShrinks DEF Advances
      <4> QED
        BY <3>1, <4>2, <4>3 DEF SetFlag, ShutDown, ShutDownAgain
    <3>2. CASE ContextFails(v) \/ StartFails(v) \/ RecordFails(v)
      BY <3>2 DEF ContextFails, StartFails, RecordFails, Bail, Goto, TypeOK, Advances, Place
    <3>3. CASE ListToFlag(v) \/ ListToStop(v) \/ CloseSessions(v) \/ ListRemaining(v)
      BY <3>3 DEF ListToFlag, ListToStop, CloseSessions, ListRemaining, Goto, TypeOK,
                  Advances, Place
    <3>4. CASE StartKernel(v) \/ CheckFlag(v) \/ Reply(v)
      BY <3>4 DEF StartKernel, CheckFlag, Reply, Goto, TypeOK, Advances, Place
    <3> QED
      BY <2>1, <3>1, <3>2, <3>3, <3>4 DEF ResetStep
  <2>2. ASSUME NEW r \in Resets, r # v, ResetStep(r)
        PROVE  UNCHANGED <<pc[v], todo[v], exit[v]>>
    <3> USE DEF TypeOK, Goto, Bail, ListKernels
    <3>1. ASSUME NEW k \in Kernels, SetFlag(r, k) \/ ShutDown(r, k) \/ ShutDownAgain(r, k)
          PROVE  UNCHANGED <<pc[v], todo[v], exit[v]>>
      BY <2>2, <3>1 DEF SetFlag, ShutDown, ShutDownAgain
    <3>2. CASE ContextFails(r) \/ StartFails(r) \/ RecordFails(r)
      BY <2>2, <3>2 DEF ContextFails, StartFails, RecordFails
    <3>3. CASE ListToFlag(r) \/ ListToStop(r) \/ CloseSessions(r) \/ ListRemaining(r)
      BY <2>2, <3>3 DEF ListToFlag, ListToStop, CloseSessions, ListRemaining
    <3>4. CASE StartKernel(r) \/ CheckFlag(r) \/ Reply(r)
      BY <2>2, <3>4 DEF StartKernel, CheckFlag, Reply
    <3> QED
      BY <2>2, <3>1, <3>2, <3>3, <3>4 DEF ResetStep
  <2>3. ASSUME NEW k \in Kernels, OthersStart(k) \/ OthersStop(k)
        PROVE  UNCHANGED <<pc[v], todo[v], exit[v]>>
    BY <2>3 DEF OthersStart, OthersStop, resetVars
  <2> QED
    BY <2>1, <2>2, <2>3 DEF Next
<1> QED
  BY <1>1, ResetTypeCorrect, PTL DEF Spec
=============================================================================
