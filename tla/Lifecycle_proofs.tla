--------------------------- MODULE Lifecycle_proofs ---------------------------
(***************************************************************************)
(* What the commands of juctl leave behind, for every number of commands,  *)
(* processes and Chromes: proofs about Lifecycle.                          *)
(* Two arguments that share the type invariant: one about Chromes and the  *)
(* handles of their launchers, and one about what lives while the latest   *)
(* command has the account to itself.                                      *)
(***************************************************************************)
EXTENDS Lifecycle, TLAPS

\* A handle is a Chrome that its process has launched.
Handles == \A p \in Procs : handle[p] # None =>
  chrome[handle[p]] # "unused" /\ launcher[handle[p]] = p
Launched == \A c \in Chromes : chrome[c] # "unused" => launcher[c] \in Procs

\* A process that has not started has done nothing.
Unborn == \A p \in Procs : proc[p] = "unused" =>
  /\ handle[p] = None /\ thread[p] = "idle" /\ ~tried[p]
  /\ \A c \in Chromes : launcher[c] # p

\* Between should_launch and launch_chrome the handle's Chrome stays dead.
Launching == \A p \in Procs : thread[p] = "launch" => ~Running(handle[p])

\* What jud --login and jud --once have launched is visible or stray.
OneShot == {"login", "loggedIn", "once", "window"}
OneShots == \A c \in Chromes, p \in Procs :
  launcher[c] = p /\ proc[p] \in OneShot => visible[c] \/ stray[c]

\* Behind stop_chrome the handle is empty or holds a stray one.
Exiting == \A p \in Procs : proc[p] = "exiting" /\ handle[p] # None => stray[handle[p]]

ChromeInv == /\ Handles /\ Launched /\ Unborn /\ Launching /\ OneShots /\ Exiting
             /\ ChromeBelongsToDaemon

\* Where a command may be, whatever else goes on.
LogoutPath == {"stopApi", "awaitStop", "list", "signal", "awaitEnd", "failed", "remove", "ok"}
Paths == \A c \in Commands :
  /\ kind[c] = "logout" => pc[c] \in LogoutPath
  /\ pc[c] \in {"awaitStop", "awaitLogin"} => target[c] \in Procs

\* A command that has the account to itself: there is one process at most, and
\* where the command is says which one.
Nobody == \A p \in Procs : ~Alive(p)
Alone == /\ \A c, d \in Commands : pc[c] # "idle" /\ pc[d] # "idle" => c = d
         /\ \A p, q \in Procs : Alive(p) /\ Alive(q) => p = q
Serving == {"boot", "up", "closing", "draining"}
Bound == \A p \in Procs : proc[p] \in Serving /\ tried[p] => stream = p
Phase(c) ==
  /\ pc[c] \in {"stopApi", "start"} => \A p \in Procs : Alive(p) => proc[p] = "up"
  /\ pc[c] \in {"awaitStop", "awaitLogin"} => \A p \in Procs : Alive(p) => p = target[c]
  /\ pc[c] \in {"signal", "awaitEnd"} => \A p \in Procs : Alive(p) => p \in listed[c]
  /\ pc[c] \in {"spawn", "spawnLogin", "remove"} => Nobody
  /\ kind[c] = "logout" /\ pc[c] = "ok" => Nobody /\ (kept \/ ~cached)
QuietInv == quiet => Alone /\ Bound /\ \A c \in Commands : Phase(c)

IInv == TypeOK /\ ChromeInv /\ Paths /\ QuietInv

-----------------------------------------------------------------------------
\* Every step keeps the types.
LEMMA TypeStep ==
  ASSUME TypeOK, [Next]_vars
  PROVE TypeOK'
<1> USE LifecycleAssumption DEF TypeOK, vars, commandVars, procVars, chromeVars, cacheVars, Kinds, Over, CommandPcs, ProcStates
<1>1. ASSUME NEW c \in Commands, NEW k \in Kinds, Begin(c, k) PROVE TypeOK'
  <2>1. /\ kind' \in [Commands -> Kinds] /\ again' \in [Commands -> BOOLEAN]
        /\ target' \in [Commands -> Procs \cup {None}]
        /\ listed' \in [Commands -> SUBSET Procs]
    BY <1>1 DEF Begin
  <2>2. pc' \in [Commands -> CommandPcs] /\ quiet' \in BOOLEAN
    BY <1>1 DEF Begin
  <2>3. begun' \in 0..MaxCommands
    BY <1>1 DEF Begin
  <2> QED
    BY <1>1, <2>1, <2>2, <2>3 DEF Begin
<1>2. ASSUME NEW c \in Commands, ShutdownRequest(c) PROVE TypeOK'
  BY <1>2 DEF ShutdownRequest, Goto, Become, Answers
<1>3. ASSUME NEW c \in Commands, Stopped(c) PROVE TypeOK'
  BY <1>3 DEF Stopped, Goto, AfterStop
<1>4. ASSUME NEW c \in Commands, StopTimesOut(c) PROVE TypeOK'
  BY <1>4 DEF StopTimesOut, Goto
<1>5. ASSUME NEW c \in Commands, List(c) PROVE TypeOK'
  BY <1>5 DEF List, Goto, AfterStop, Living, Alive
<1>6. ASSUME NEW c \in Commands, Signal(c) PROVE TypeOK'
  BY <1>6 DEF Signal, Goto, Living, Alive
<1>7. ASSUME NEW c \in Commands, Start(c) PROVE TypeOK'
  BY <1>7 DEF Start, Goto
<1>8. ASSUME NEW c \in Commands, Spawn(c) PROVE TypeOK'
  BY <1>8 DEF Spawn, Goto, Spawned, Become
<1>9. ASSUME NEW c \in Commands, SpawnFails(c) PROVE TypeOK'
  BY <1>9 DEF SpawnFails, Goto
<1>10. ASSUME NEW c \in Commands, Await(c) PROVE TypeOK'
  BY <1>10 DEF Await, Goto
<1>11. ASSUME NEW c \in Commands, SpawnLogin(c) PROVE TypeOK'
  BY <1>11 DEF SpawnLogin, Goto, Spawned, Become
<1>12. ASSUME NEW c \in Commands, AwaitLogin(c) PROVE TypeOK'
  BY <1>12 DEF AwaitLogin, Goto, Become
<1>13. ASSUME NEW c \in Commands, Remove(c) PROVE TypeOK'
  BY <1>13 DEF Remove, Goto
<1>14. ASSUME NEW p \in Procs, BindApi(p) PROVE TypeOK'
  BY <1>14 DEF BindApi, Become
<1>15. ASSUME NEW p \in Procs, BindStream(p) PROVE TypeOK'
  BY <1>15 DEF BindStream
<1>16. ASSUME NEW p \in Procs, FreeApi(p) PROVE TypeOK'
  BY <1>16 DEF FreeApi, Become, Freed
<1>17. ASSUME NEW p \in Procs, StopChrome(p) PROVE TypeOK'
  BY <1>17 DEF StopChrome, Become, Freed
<1>18. ASSUME NEW p \in Procs, Exit(p) PROVE TypeOK'
  BY <1>18 DEF Exit, Become
<1>19. ASSUME NEW p \in Procs, RunOnce(p) PROVE TypeOK'
  <2>1. proc' \in [Procs -> ProcStates] /\ begun' \in 0..MaxCommands
    BY <1>19 DEF RunOnce, Spawned, Become
  <2>2. /\ api' \in {q \in Procs : proc'[q] \in {"up", "closing"}} \cup {None}
        /\ stream' \in {q \in Procs : proc'[q] \in {"boot", "up", "closing", "draining"}} \cup {None}
    BY <1>19 DEF RunOnce, Spawned, Become
  <2> QED
    BY <1>19, <2>1, <2>2 DEF RunOnce
<1>20. ASSUME NEW p \in Procs, OpenWindow(p) PROVE TypeOK'
  BY <1>20 DEF OpenWindow, Become
<1>21. ASSUME NEW p \in Procs, OneShotEnds(p) PROVE TypeOK'
  BY <1>21 DEF OneShotEnds, Become
<1>22. ASSUME NEW p \in Procs, FetchTargets(p) PROVE TypeOK'
  BY <1>22 DEF FetchTargets, ThreadAt, Working
<1>23. ASSUME NEW p \in Procs, ShouldLaunch(p) PROVE TypeOK'
  BY <1>23 DEF ShouldLaunch, ThreadAt, Working
<1>24. ASSUME NEW p \in Procs, LaunchChrome(p) PROVE TypeOK'
  BY <1>24 DEF LaunchChrome, ThreadAt, Working
<1>25. ASSUME NEW p \in Procs, LaunchFails(p) PROVE TypeOK'
  BY <1>25 DEF LaunchFails, ThreadAt, Working
<1>26. ASSUME NEW p \in Procs, CdpAnswers(p) PROVE TypeOK'
  BY <1>26 DEF CdpAnswers, ThreadAt, Working
<1>27. ASSUME NEW p \in Procs, CdpTimesOut(p) PROVE TypeOK'
  BY <1>27 DEF CdpTimesOut, ThreadAt, Working
<1>28. ASSUME NEW p \in Procs, Extract(p) PROVE TypeOK'
  BY <1>28 DEF Extract, ThreadAt, Working, Become
<1>29. ASSUME NEW p \in Procs, ExtractFails(p) PROVE TypeOK'
  BY <1>29 DEF ExtractFails, ThreadAt, Working
<1>30. ASSUME NEW c \in Chromes, ChromeBoots(c) PROVE TypeOK'
  BY <1>30 DEF ChromeBoots, Running
<1>31. ASSUME NEW c \in Chromes, ChromeExits(c) PROVE TypeOK'
  BY <1>31 DEF ChromeExits, Running
<1>33. ASSUME NEW c \in Commands, AwaitEnd(c) PROVE TypeOK'
  BY <1>33 DEF AwaitEnd, Goto, AfterStop, Living, Alive
<1>34. ASSUME NEW p \in Procs, Die(p) PROVE TypeOK'
  BY <1>34 DEF Die, Become, Freed, Alive
<1>32. CASE UNCHANGED vars
  BY <1>32
<1> HIDE DEF TypeOK, commandVars, procVars, chromeVars, cacheVars, Kinds, Over, CommandPcs, ProcStates
<1> QED
  BY <1>1, <1>2, <1>3, <1>4, <1>5, <1>6, <1>7, <1>8, <1>9, <1>10, <1>11, <1>12,
     <1>13, <1>14, <1>15, <1>16, <1>17, <1>18, <1>19, <1>20, <1>21, <1>22, <1>23,
     <1>24, <1>25, <1>26, <1>27, <1>28, <1>29, <1>30, <1>31, <1>32,
     <1>33, <1>34
     DEF Next, CommandStep, ServerStep, AuthStep, OneShotStep

\* A Chrome that nobody may forget keeps the handle of its launcher.
LEMMA ChromeStep ==
  ASSUME TypeOK, ChromeInv, [Next]_vars
  PROVE ChromeInv'
<1> USE LifecycleAssumption
       DEF vars, commandVars, procVars, chromeVars, cacheVars, TypeOK, ProcStates, Alive, Running, ChromeInv,
           Handles, Launched, Unborn, Launching, OneShots, OneShot, Exiting, ChromeBelongsToDaemon
<1>1. ASSUME NEW c \in Commands, NEW k \in Kinds, Begin(c, k) PROVE ChromeInv'
  BY <1>1 DEF Begin
<1>2. ASSUME NEW c \in Commands, ShutdownRequest(c) PROVE ChromeInv'
  BY <1>2 DEF ShutdownRequest, Goto, Become, Answers
<1>3. ASSUME NEW c \in Commands, Stopped(c) PROVE ChromeInv'
  BY <1>3 DEF Stopped, Goto, AfterStop
<1>4. ASSUME NEW c \in Commands, StopTimesOut(c) PROVE ChromeInv'
  BY <1>4 DEF StopTimesOut, Goto
<1>5. ASSUME NEW c \in Commands, List(c) PROVE ChromeInv'
  BY <1>5 DEF List, Goto, AfterStop, Living, Alive
<1>6. ASSUME NEW c \in Commands, Signal(c) PROVE ChromeInv'
  BY <1>6 DEF Signal, Goto, Living, Alive
<1>7. ASSUME NEW c \in Commands, Start(c) PROVE ChromeInv'
  BY <1>7 DEF Start, Goto
<1>8. ASSUME NEW c \in Commands, Spawn(c) PROVE ChromeInv'
  BY <1>8 DEF Spawn, Goto, Spawned, Become
<1>9. ASSUME NEW c \in Commands, SpawnFails(c) PROVE ChromeInv'
  BY <1>9 DEF SpawnFails, Goto
<1>10. ASSUME NEW c \in Commands, Await(c) PROVE ChromeInv'
  BY <1>10 DEF Await, Goto
<1>11. ASSUME NEW c \in Commands, SpawnLogin(c) PROVE ChromeInv'
  BY <1>11 DEF SpawnLogin, Goto, Spawned, Become
<1>12. ASSUME NEW c \in Commands, AwaitLogin(c) PROVE ChromeInv'
  BY <1>12 DEF AwaitLogin, Goto, Become
<1>13. ASSUME NEW c \in Commands, Remove(c) PROVE ChromeInv'
  BY <1>13 DEF Remove, Goto
<1>14. ASSUME NEW p \in Procs, BindApi(p) PROVE ChromeInv'
  BY <1>14 DEF BindApi, Become
<1>15. ASSUME NEW p \in Procs, BindStream(p) PROVE ChromeInv'
  BY <1>15 DEF BindStream
<1>16. ASSUME NEW p \in Procs, FreeApi(p) PROVE ChromeInv'
  BY <1>16 DEF FreeApi, Become, Freed
<1>17. ASSUME NEW p \in Procs, StopChrome(p) PROVE ChromeInv'
  BY <1>17 DEF StopChrome, Become, Freed
<1>18. ASSUME NEW p \in Procs, Exit(p) PROVE ChromeInv'
  BY <1>18 DEF Exit, Become
<1>19. ASSUME NEW p \in Procs, RunOnce(p) PROVE ChromeInv'
  BY <1>19 DEF RunOnce, Spawned, Become
<1>20. ASSUME NEW p \in Procs, OpenWindow(p) PROVE ChromeInv'
  BY <1>20 DEF OpenWindow, Become
<1>21. ASSUME NEW p \in Procs, OneShotEnds(p) PROVE ChromeInv'
  BY <1>21 DEF OneShotEnds, Become
<1>22. ASSUME NEW p \in Procs, FetchTargets(p) PROVE ChromeInv'
  BY <1>22 DEF FetchTargets, ThreadAt, Working
<1>23. ASSUME NEW p \in Procs, ShouldLaunch(p) PROVE ChromeInv'
  BY <1>23 DEF ShouldLaunch, ThreadAt, Working
<1>24. ASSUME NEW p \in Procs, LaunchChrome(p) PROVE ChromeInv'
  <2>1. PICK c \in Chromes :
          /\ chrome[c] = "unused"
          /\ chrome' = [chrome EXCEPT ![c] = "starting"]
          /\ visible' = [visible EXCEPT ![c] = proc[p] \in {"login", "window"}]
          /\ launcher' = [launcher EXCEPT ![c] = p]
          /\ stray' = [stray EXCEPT ![c] = proc[p] \in {"exiting", "once"}]
          /\ handle' = [handle EXCEPT ![p] = c]
    BY <1>24 DEF LaunchChrome
  <2>2. /\ Working(p) /\ thread[p] = "launch" /\ thread' = [thread EXCEPT ![p] = "wait"]
        /\ UNCHANGED procVars
    BY <1>24 DEF LaunchChrome, ThreadAt
  <2>3. /\ launcher'[c] = p /\ handle'[p] = c /\ chrome'[c] = "starting"
        /\ proc[p] \in {"login", "window"} => visible'[c]
        /\ proc[p] \in {"exiting", "once"} => stray'[c]
    <3>1. launcher'[c] = p /\ handle'[p] = c /\ chrome'[c] = "starting"
      BY <2>1
    <3>2. ASSUME proc[p] \in {"login", "window"} PROVE visible'[c]
      <4>1. visible' = [visible EXCEPT ![c] = TRUE]
        BY <2>1, <3>2
      <4> QED
        BY <4>1
    <3>3. ASSUME proc[p] \in {"exiting", "once"} PROVE stray'[c]
      <4>1. stray' = [stray EXCEPT ![c] = TRUE]
        BY <2>1, <3>3
      <4> QED
        BY <4>1
    <3> QED
      BY <3>1, <3>2, <3>3
  <2>4. \A d \in Chromes \ {c} : /\ launcher'[d] = launcher[d] /\ chrome'[d] = chrome[d]
                                 /\ visible'[d] = visible[d] /\ stray'[d] = stray[d]
    BY <2>1
  <2>5. \A q \in Procs \ {p} : handle'[q] = handle[q] /\ thread'[q] = thread[q]
    BY <2>1, <2>2
  <2>6. \A q \in Procs : handle[q] # c
    BY <2>1
  <2>7. Handles' /\ Launched' /\ Launching'
    BY <2>2, <2>3, <2>4, <2>5, <2>6
  <2>8. Unborn'
    BY <2>2, <2>3, <2>4, <2>5 DEF Working
  <2>9. ASSUME NEW d \in Chromes, NEW q \in Procs, launcher'[d] = q, proc'[q] \in OneShot
        PROVE visible'[d] \/ stray'[d]
    <3>1. CASE d = c
      <4>1. q = p /\ proc[p] \in {"login", "once", "window"}
        BY <2>2, <2>3, <2>9, <3>1 DEF Working
      <4> QED
        BY <2>3, <3>1, <4>1
    <3>2. CASE d # c
      BY <2>2, <2>4, <2>9, <3>2
    <3> QED
      BY <3>1, <3>2
  <2>10. ASSUME NEW q \in Procs, proc'[q] = "exiting", handle'[q] # None
         PROVE stray'[handle'[q]]
    <3>1. CASE q = p
      BY <2>2, <2>3, <2>10, <3>1
    <3>2. CASE q # p
      <4>1. /\ handle'[q] = handle[q] /\ handle[q] \in Chromes \ {c}
            /\ proc[q] = "exiting" /\ stray[handle[q]]
        BY <2>2, <2>5, <2>6, <2>10, <3>2
      <4> QED
        BY <2>4, <4>1
    <3> QED
      BY <3>1, <3>2
  <2>11. ChromeBelongsToDaemon'
    BY <2>2, <2>3, <2>4, <2>5 DEF Working
  <2> QED
    BY <2>7, <2>8, <2>9, <2>10, <2>11
<1>25. ASSUME NEW p \in Procs, LaunchFails(p) PROVE ChromeInv'
  BY <1>25 DEF LaunchFails, ThreadAt, Working
<1>26. ASSUME NEW p \in Procs, CdpAnswers(p) PROVE ChromeInv'
  BY <1>26 DEF CdpAnswers, ThreadAt, Working
<1>27. ASSUME NEW p \in Procs, CdpTimesOut(p) PROVE ChromeInv'
  BY <1>27 DEF CdpTimesOut, ThreadAt, Working
<1>28. ASSUME NEW p \in Procs, Extract(p) PROVE ChromeInv'
  BY <1>28 DEF Extract, ThreadAt, Working, Become
<1>29. ASSUME NEW p \in Procs, ExtractFails(p) PROVE ChromeInv'
  BY <1>29 DEF ExtractFails, ThreadAt, Working
<1>30. ASSUME NEW c \in Chromes, ChromeBoots(c) PROVE ChromeInv'
  BY <1>30 DEF ChromeBoots, Running
<1>31. ASSUME NEW c \in Chromes, ChromeExits(c) PROVE ChromeInv'
  BY <1>31 DEF ChromeExits, Running
<1>33. ASSUME NEW c \in Commands, AwaitEnd(c) PROVE ChromeInv'
  BY <1>33 DEF AwaitEnd, Goto, AfterStop, Living, Alive
<1>34. ASSUME NEW p \in Procs, Die(p) PROVE ChromeInv'
  BY <1>34 DEF Die, Become, Freed, Alive
<1>32. CASE UNCHANGED vars
  BY <1>32
<1> HIDE DEF commandVars, procVars, chromeVars, cacheVars, TypeOK, ProcStates, Alive, Running, ChromeInv,
           Handles, Launched, Unborn, Launching, OneShots, OneShot, Exiting, ChromeBelongsToDaemon
<1> QED
  BY <1>1, <1>2, <1>3, <1>4, <1>5, <1>6, <1>7, <1>8, <1>9, <1>10, <1>11, <1>12,
     <1>13, <1>14, <1>15, <1>16, <1>17, <1>18, <1>19, <1>20, <1>21, <1>22, <1>23,
     <1>24, <1>25, <1>26, <1>27, <1>28, <1>29, <1>30, <1>31, <1>32,
     <1>33, <1>34
     DEF Next, CommandStep, ServerStep, AuthStep, OneShotStep

\* A logout ends well only by removing, and who waits for a process has one.
LEMMA PathsStep ==
  ASSUME TypeOK, Paths, [Next]_vars
  PROVE Paths'
<1> USE LifecycleAssumption
       DEF vars, commandVars, procVars, chromeVars, cacheVars, TypeOK, Kinds, Over, CommandPcs, Paths, LogoutPath
<1>1. ASSUME NEW c \in Commands, NEW k \in Kinds, Begin(c, k) PROVE Paths'
  BY <1>1 DEF Begin
<1>2. ASSUME NEW c \in Commands, ShutdownRequest(c) PROVE Paths'
  BY <1>2 DEF ShutdownRequest, Goto, Become, Answers
<1>3. ASSUME NEW c \in Commands, Stopped(c) PROVE Paths'
  BY <1>3 DEF Stopped, Goto, AfterStop
<1>4. ASSUME NEW c \in Commands, StopTimesOut(c) PROVE Paths'
  BY <1>4 DEF StopTimesOut, Goto
<1>5. ASSUME NEW c \in Commands, List(c) PROVE Paths'
  BY <1>5 DEF List, Goto, AfterStop, Living, Alive
<1>6. ASSUME NEW c \in Commands, Signal(c) PROVE Paths'
  BY <1>6 DEF Signal, Goto, Living, Alive
<1>7. ASSUME NEW c \in Commands, Start(c) PROVE Paths'
  BY <1>7 DEF Start, Goto
<1>8. ASSUME NEW c \in Commands, Spawn(c) PROVE Paths'
  BY <1>8 DEF Spawn, Goto, Spawned, Become
<1>9. ASSUME NEW c \in Commands, SpawnFails(c) PROVE Paths'
  BY <1>9 DEF SpawnFails, Goto
<1>10. ASSUME NEW c \in Commands, Await(c) PROVE Paths'
  BY <1>10 DEF Await, Goto
<1>11. ASSUME NEW c \in Commands, SpawnLogin(c) PROVE Paths'
  BY <1>11 DEF SpawnLogin, Goto, Spawned, Become
<1>12. ASSUME NEW c \in Commands, AwaitLogin(c) PROVE Paths'
  BY <1>12 DEF AwaitLogin, Goto, Become
<1>13. ASSUME NEW c \in Commands, Remove(c) PROVE Paths'
  BY <1>13 DEF Remove, Goto
<1>14. ASSUME NEW p \in Procs, BindApi(p) PROVE Paths'
  BY <1>14 DEF BindApi, Become
<1>15. ASSUME NEW p \in Procs, BindStream(p) PROVE Paths'
  BY <1>15 DEF BindStream
<1>16. ASSUME NEW p \in Procs, FreeApi(p) PROVE Paths'
  BY <1>16 DEF FreeApi, Become, Freed
<1>17. ASSUME NEW p \in Procs, StopChrome(p) PROVE Paths'
  BY <1>17 DEF StopChrome, Become, Freed
<1>18. ASSUME NEW p \in Procs, Exit(p) PROVE Paths'
  BY <1>18 DEF Exit, Become
<1>19. ASSUME NEW p \in Procs, RunOnce(p) PROVE Paths'
  BY <1>19 DEF RunOnce, Spawned, Become
<1>20. ASSUME NEW p \in Procs, OpenWindow(p) PROVE Paths'
  BY <1>20 DEF OpenWindow, Become
<1>21. ASSUME NEW p \in Procs, OneShotEnds(p) PROVE Paths'
  BY <1>21 DEF OneShotEnds, Become
<1>22. ASSUME NEW p \in Procs, FetchTargets(p) PROVE Paths'
  BY <1>22 DEF FetchTargets, ThreadAt, Working
<1>23. ASSUME NEW p \in Procs, ShouldLaunch(p) PROVE Paths'
  BY <1>23 DEF ShouldLaunch, ThreadAt, Working
<1>24. ASSUME NEW p \in Procs, LaunchChrome(p) PROVE Paths'
  BY <1>24 DEF LaunchChrome, ThreadAt, Working
<1>25. ASSUME NEW p \in Procs, LaunchFails(p) PROVE Paths'
  BY <1>25 DEF LaunchFails, ThreadAt, Working
<1>26. ASSUME NEW p \in Procs, CdpAnswers(p) PROVE Paths'
  BY <1>26 DEF CdpAnswers, ThreadAt, Working
<1>27. ASSUME NEW p \in Procs, CdpTimesOut(p) PROVE Paths'
  BY <1>27 DEF CdpTimesOut, ThreadAt, Working
<1>28. ASSUME NEW p \in Procs, Extract(p) PROVE Paths'
  BY <1>28 DEF Extract, ThreadAt, Working, Become
<1>29. ASSUME NEW p \in Procs, ExtractFails(p) PROVE Paths'
  BY <1>29 DEF ExtractFails, ThreadAt, Working
<1>30. ASSUME NEW c \in Chromes, ChromeBoots(c) PROVE Paths'
  BY <1>30 DEF ChromeBoots, Running
<1>31. ASSUME NEW c \in Chromes, ChromeExits(c) PROVE Paths'
  BY <1>31 DEF ChromeExits, Running
<1>33. ASSUME NEW c \in Commands, AwaitEnd(c) PROVE Paths'
  BY <1>33 DEF AwaitEnd, Goto, AfterStop, Living, Alive
<1>34. ASSUME NEW p \in Procs, Die(p) PROVE Paths'
  BY <1>34 DEF Die, Become, Freed, Alive
<1>32. CASE UNCHANGED vars
  BY <1>32
<1> HIDE DEF commandVars, procVars, chromeVars, cacheVars, TypeOK, Kinds, Over, CommandPcs, Paths, LogoutPath
<1> QED
  BY <1>1, <1>2, <1>3, <1>4, <1>5, <1>6, <1>7, <1>8, <1>9, <1>10, <1>11, <1>12,
     <1>13, <1>14, <1>15, <1>16, <1>17, <1>18, <1>19, <1>20, <1>21, <1>22, <1>23,
     <1>24, <1>25, <1>26, <1>27, <1>28, <1>29, <1>30, <1>31, <1>32,
     <1>33, <1>34
     DEF Next, CommandStep, ServerStep, AuthStep, OneShotStep

\* While a command has the account to itself its phase says what lives.
LEMMA QuietStep ==
  ASSUME TypeOK, Unborn, Paths, QuietInv, [Next]_vars
  PROVE QuietInv'
<1> USE LifecycleAssumption
       DEF vars, commandVars, procVars, chromeVars, cacheVars, TypeOK, Kinds, Over, CommandPcs, ProcStates, Serving,
           Alive, Living, Unborn, Paths, LogoutPath, QuietInv, Alone, Nobody, Bound, Phase
<1>1. ASSUME NEW c \in Commands, NEW k \in Kinds, Begin(c, k) PROVE QuietInv'
  <2> SUFFICES ASSUME quiet' PROVE Alone' /\ Bound' /\ \A d \in Commands : Phase(d)'
    OBVIOUS
  <2>1. /\ \A d \in Commands : d # c => pc[d] \in Over
        /\ \A p \in Procs : Alive(p) => Complete(p)
        /\ UNCHANGED procVars /\ cached' = cached /\ kept' = kept
    BY <1>1 DEF Begin, Living
  <2>2. /\ \A d \in Commands : d # c => pc'[d] = "idle" /\ kind'[d] = "start"
        /\ pc'[c] \in {"start", "spawnLogin", "stopApi"}
        /\ pc'[c] = "spawnLogin" => Nobody
    BY <1>1, <2>1 DEF Begin, Living
  <2>3. Alone' /\ Bound'
    BY <2>1, <2>2 DEF Complete
  <2>4. \A d \in Commands : Phase(d)'
    BY <2>1, <2>2 DEF Complete
  <2> QED
    BY <2>3, <2>4
<1>2. ASSUME NEW c \in Commands, ShutdownRequest(c) PROVE QuietInv'
  BY <1>2 DEF ShutdownRequest, Goto, Become, Answers
<1>3. ASSUME NEW c \in Commands, Stopped(c) PROVE QuietInv'
  BY <1>3 DEF Stopped, Goto, AfterStop
<1>4. ASSUME NEW c \in Commands, StopTimesOut(c) PROVE QuietInv'
  BY <1>4 DEF StopTimesOut, Goto
<1>5. ASSUME NEW c \in Commands, List(c) PROVE QuietInv'
  BY <1>5 DEF List, Goto, AfterStop, Living, Alive
<1>6. ASSUME NEW c \in Commands, Signal(c) PROVE QuietInv'
  BY <1>6 DEF Signal, Goto, Living, Alive
<1>7. ASSUME NEW c \in Commands, Start(c) PROVE QuietInv'
  <2> SUFFICES ASSUME quiet PROVE Alone' /\ Bound' /\ \A d \in Commands : Phase(d)'
    BY <1>7 DEF Start
  <2>1. UNCHANGED <<kind, target, listed, proc, stream, tried, cached, kept>>
    BY <1>7 DEF Start
  <2>2. /\ pc[c] = "start" /\ pc'[c] \in {"ok", "spawn"}
        /\ \A d \in Commands : d # c => pc'[d] = pc[d] /\ pc[d] = "idle"
    BY <1>7 DEF Start, Goto
  <2>3. pc'[c] = "spawn" => Nobody
    BY <1>7, <2>2 DEF Start, Goto, MayBeSilent
  <2>4. Alone' /\ Bound'
    BY <2>1, <2>2
  <2>5. \A d \in Commands : Phase(d)'
    BY <2>1, <2>2, <2>3
  <2> QED
    BY <2>4, <2>5
<1>8. ASSUME NEW c \in Commands, Spawn(c) PROVE QuietInv'
  BY <1>8 DEF Spawn, Goto, Spawned, Become
<1>9. ASSUME NEW c \in Commands, SpawnFails(c) PROVE QuietInv'
  BY <1>9 DEF SpawnFails, Goto
<1>10. ASSUME NEW c \in Commands, Await(c) PROVE QuietInv'
  BY <1>10 DEF Await, Goto
<1>11. ASSUME NEW c \in Commands, SpawnLogin(c) PROVE QuietInv'
  BY <1>11 DEF SpawnLogin, Goto, Spawned, Become
<1>12. ASSUME NEW c \in Commands, AwaitLogin(c) PROVE QuietInv'
  <2> SUFFICES ASSUME quiet PROVE Alone' /\ Bound' /\ \A d \in Commands : Phase(d)'
    BY <1>12 DEF AwaitLogin
  <2>1. /\ pc[c] = "awaitLogin" /\ target[c] \in Procs
        /\ UNCHANGED <<kind, stream, tried, cached, kept, listed>>
        /\ \A d \in Commands : d # c => pc'[d] = pc[d] /\ pc[d] = "idle"
    BY <1>12 DEF AwaitLogin, Goto
  <2>2. /\ pc'[c] \in {"start", "ok", "failed"} /\ proc'[target[c]] = "ended"
        /\ \A p \in Procs : p # target[c] => proc'[p] = proc[p]
    BY <1>12, <2>1 DEF AwaitLogin, Goto, Become
  <2>3. Nobody'
    BY <2>1, <2>2
  <2> QED
    BY <2>1, <2>2, <2>3
<1>13. ASSUME NEW c \in Commands, Remove(c) PROVE QuietInv'
  BY <1>13 DEF Remove, Goto
<1>14. ASSUME NEW p \in Procs, BindApi(p) PROVE QuietInv'
  BY <1>14 DEF BindApi, Become
<1>15. ASSUME NEW p \in Procs, BindStream(p) PROVE QuietInv'
  BY <1>15 DEF BindStream
<1>16. ASSUME NEW p \in Procs, FreeApi(p) PROVE QuietInv'
  BY <1>16 DEF FreeApi, Become, Freed
<1>17. ASSUME NEW p \in Procs, StopChrome(p) PROVE QuietInv'
  BY <1>17 DEF StopChrome, Become, Freed
<1>18. ASSUME NEW p \in Procs, Exit(p) PROVE QuietInv'
  BY <1>18 DEF Exit, Become
<1>19. ASSUME NEW p \in Procs, RunOnce(p) PROVE QuietInv'
  BY <1>19 DEF RunOnce, Spawned, Become
<1>20. ASSUME NEW p \in Procs, OpenWindow(p) PROVE QuietInv'
  BY <1>20 DEF OpenWindow, Become
<1>21. ASSUME NEW p \in Procs, OneShotEnds(p) PROVE QuietInv'
  BY <1>21 DEF OneShotEnds, Become
<1>22. ASSUME NEW p \in Procs, FetchTargets(p) PROVE QuietInv'
  BY <1>22 DEF FetchTargets, ThreadAt, Working
<1>23. ASSUME NEW p \in Procs, ShouldLaunch(p) PROVE QuietInv'
  BY <1>23 DEF ShouldLaunch, ThreadAt, Working
<1>24. ASSUME NEW p \in Procs, LaunchChrome(p) PROVE QuietInv'
  BY <1>24 DEF LaunchChrome, ThreadAt, Working
<1>25. ASSUME NEW p \in Procs, LaunchFails(p) PROVE QuietInv'
  BY <1>25 DEF LaunchFails, ThreadAt, Working
<1>26. ASSUME NEW p \in Procs, CdpAnswers(p) PROVE QuietInv'
  BY <1>26 DEF CdpAnswers, ThreadAt, Working
<1>27. ASSUME NEW p \in Procs, CdpTimesOut(p) PROVE QuietInv'
  BY <1>27 DEF CdpTimesOut, ThreadAt, Working
<1>28. ASSUME NEW p \in Procs, Extract(p) PROVE QuietInv'
  BY <1>28 DEF Extract, ThreadAt, Working, Become
<1>29. ASSUME NEW p \in Procs, ExtractFails(p) PROVE QuietInv'
  BY <1>29 DEF ExtractFails, ThreadAt, Working
<1>30. ASSUME NEW c \in Chromes, ChromeBoots(c) PROVE QuietInv'
  BY <1>30 DEF ChromeBoots, Running
<1>31. ASSUME NEW c \in Chromes, ChromeExits(c) PROVE QuietInv'
  BY <1>31 DEF ChromeExits, Running
<1>33. ASSUME NEW c \in Commands, AwaitEnd(c) PROVE QuietInv'
  BY <1>33 DEF AwaitEnd, Goto, AfterStop, Living, Alive
<1>34. ASSUME NEW p \in Procs, Die(p) PROVE QuietInv'
  BY <1>34 DEF Die, Become, Freed, Alive
<1>32. CASE UNCHANGED vars
  <2> SUFFICES ASSUME quiet PROVE Alone' /\ Bound' /\ \A d \in Commands : Phase(d)'
    BY <1>32
  <2>1. UNCHANGED <<kind, pc, target, listed, proc, stream, tried, cached, kept>>
    BY <1>32
  <2>2. Alone' /\ Bound'
    BY <2>1
  <2>3. ASSUME NEW d \in Commands PROVE Phase(d)'
    BY <2>1
  <2> QED
    BY <2>2, <2>3
<1> HIDE DEF commandVars, procVars, chromeVars, cacheVars, TypeOK, Kinds, Over, CommandPcs, ProcStates, Serving,
           Alive, Living, Unborn, Paths, LogoutPath, QuietInv, Alone, Nobody, Bound, Phase
<1> QED
  BY <1>1, <1>2, <1>3, <1>4, <1>5, <1>6, <1>7, <1>8, <1>9, <1>10, <1>11, <1>12,
     <1>13, <1>14, <1>15, <1>16, <1>17, <1>18, <1>19, <1>20, <1>21, <1>22, <1>23,
     <1>24, <1>25, <1>26, <1>27, <1>28, <1>29, <1>30, <1>31, <1>32,
     <1>33, <1>34
     DEF Next, CommandStep, ServerStep, AuthStep, OneShotStep

-----------------------------------------------------------------------------
\* The invariant that carries the three properties.
THEOREM InductiveInvariant == SafeSpec => []IInv
<1>1. Init => IInv
  <2> SUFFICES ASSUME Init PROVE IInv
    OBVIOUS
  <2>1. TypeOK
    <3> USE LifecycleAssumption DEF Init
    <3>1. /\ kind \in [Commands -> Kinds] /\ pc \in [Commands -> CommandPcs]
          /\ again \in [Commands -> BOOLEAN] /\ quiet \in BOOLEAN /\ begun \in 0..MaxCommands
          /\ target \in [Commands -> Procs \cup {None}]
          /\ listed \in [Commands -> SUBSET Procs]
      BY DEF Kinds, CommandPcs, Over
    <3>2. /\ proc \in [Procs -> ProcStates] /\ api = None /\ stream = None
          /\ tried \in [Procs -> BOOLEAN] /\ signalled \in [Procs -> BOOLEAN]
      BY DEF ProcStates
    <3>3. /\ thread \in [Procs -> {"idle", "check", "launch", "wait", "extract"}]
          /\ handle \in [Procs -> Chromes \cup {None}]
      OBVIOUS
    <3>4. /\ chrome \in [Chromes -> {"unused", "starting", "ready", "dead"}]
          /\ visible \in [Chromes -> BOOLEAN] /\ stray \in [Chromes -> BOOLEAN]
      OBVIOUS
    <3>5. /\ launcher \in [Chromes -> Procs \cup {None}] /\ attempts = 0
          /\ cached \in BOOLEAN /\ kept \in BOOLEAN
      OBVIOUS
    <3>6. attempts \in 0..MaxAttempts
      BY <3>5
    <3> QED
      BY <3>1, <3>2, <3>3, <3>4, <3>5, <3>6 DEF TypeOK
  <2>2. ChromeInv
    BY LifecycleAssumption DEF Init, ChromeInv, Handles, Launched, Unborn, Launching,
       OneShots, Exiting, ChromeBelongsToDaemon, Running
  <2>3. Paths /\ QuietInv
    BY DEF Init, Paths, QuietInv, Alone, Bound, Phase, Alive
  <2> QED
    BY <2>1, <2>2, <2>3 DEF IInv
<1>2. IInv /\ [Next]_vars => IInv'
  BY TypeStep, ChromeStep, PathsStep, QuietStep DEF IInv, ChromeInv
<1> QED
  BY <1>1, <1>2, PTL DEF SafeSpec

\* Variables keep their types; a port is held by a process that can hold it.
THEOREM LifecycleTypeCorrect == SafeSpec => []TypeOK
BY InductiveInvariant, PTL DEF IInv

\* Of every Chrome that no signal, login, jud --once or late thread explains, a
\* living daemon has the handle.
THEOREM ChromesHaveOwners == SafeSpec => []ChromeBelongsToDaemon
BY InductiveInvariant, PTL DEF IInv, ChromeInv

\* An undisturbed start or restart ends with a daemon on both ports.
THEOREM QuietStarts == SafeSpec => []QuietStartIsComplete
<1>1. IInv => QuietStartIsComplete
  BY DEF IInv, QuietInv, Bound, Serving, QuietStartIsComplete
<1> QED
  BY <1>1, InductiveInvariant, PTL

\* An undisturbed logout that could remove the cache is final.
THEOREM LogoutsStick == SafeSpec => []LogoutSticks
<1>1. IInv => LogoutSticks
  BY DEF IInv, QuietInv, Phase, LogoutSticks
<1> QED
  BY <1>1, InductiveInvariant, PTL

-----------------------------------------------------------------------------
\* Where a command is on its way to its end.
Stage == [stopApi |-> 0, awaitStop |-> 1, list |-> 2, signal |-> 3, awaitEnd |-> 4,
          remove |-> 5, spawnLogin |-> 5, awaitLogin |-> 6, start |-> 7, spawn |-> 8,
          await |-> 9, idle |-> 10, ok |-> 10, failed |-> 10]

\* A command never goes back, whatever the daemons and the other commands do: it
\* asks a daemon to stop once, falls back on the process list once, and starts
\* at most one jud --login and one daemon (bin/juctl.rs 217-300, 366-384, 488-600).
THEOREM CommandsAdvance ==
  SafeSpec => [][\A c \in Commands :
                   \/ pc[c] \in Over
                   \/ pc'[c] = pc[c] \/ Stage[pc'[c]] > Stage[pc[c]]]_vars
<1> DEFINE Advance(c) == \/ pc[c] \in Over
                         \/ pc'[c] = pc[c] \/ Stage[pc'[c]] > Stage[pc[c]]
<1>1. TypeOK /\ [Next]_vars => [\A c \in Commands : Advance(c)]_vars
  <2> SUFFICES ASSUME TypeOK, Next, NEW c \in Commands, pc[c] \notin Over,
                      pc'[c] # pc[c]
               PROVE  Stage[pc'[c]] > Stage[pc[c]]
    OBVIOUS
  <2>1. pc \in [Commands -> CommandPcs]
    BY DEF TypeOK
  <2>2. ASSUME NEW d \in Commands, CommandStep(d)
        PROVE  Stage[pc'[c]] > Stage[pc[c]]
    <3> USE DEF Goto, Stage
    <3>1. d = c
      BY <2>1, <2>2 DEF CommandStep, ShutdownRequest, Stopped, StopTimesOut, List, Signal, AwaitEnd,
         Start, Spawn, SpawnFails, Await, SpawnLogin, AwaitLogin, Remove
    <3>2. AfterStop(c) \in {"ok", "start", "spawnLogin", "remove"}
      BY DEF AfterStop
    <3>3. CASE ShutdownRequest(c)
      BY <2>1, <3>3 DEF ShutdownRequest
    <3>4. CASE Stopped(c) \/ StopTimesOut(c) \/ List(c) \/ Signal(c) \/ AwaitEnd(c)
      BY <2>1, <3>2, <3>4 DEF Stopped, StopTimesOut, List, Signal, AwaitEnd
    <3>5. CASE Start(c) \/ Spawn(c) \/ SpawnFails(c) \/ Await(c)
      BY <2>1, <3>5 DEF Start, Spawn, SpawnFails, Await
    <3>6. CASE SpawnLogin(c) \/ AwaitLogin(c) \/ Remove(c)
      BY <2>1, <3>6 DEF SpawnLogin, AwaitLogin, Remove
    <3> QED
      BY <2>2, <3>1, <3>3, <3>4, <3>5, <3>6 DEF CommandStep
  <2>3. ASSUME NEW d \in Commands, NEW k \in Kinds, Begin(d, k) PROVE FALSE
    BY <2>1, <2>3 DEF Begin
  <2>4. ASSUME UNCHANGED pc PROVE FALSE
    BY <2>4
  <2>5. ASSUME NEW p \in Procs, ServerStep(p) \/ OneShotStep(p) \/ AuthStep(p) PROVE FALSE
    BY <2>4, <2>5 DEF ServerStep, BindApi, BindStream, FreeApi, StopChrome, Exit, Die,
       OneShotStep, RunOnce, OpenWindow, OneShotEnds, AuthStep, FetchTargets,
       ShouldLaunch, LaunchChrome, LaunchFails, CdpAnswers, CdpTimesOut, Extract,
       ExtractFails, commandVars
  <2>6. ASSUME NEW x \in Chromes, ChromeBoots(x) \/ ChromeExits(x) PROVE FALSE
    BY <2>4, <2>6 DEF ChromeBoots, ChromeExits, commandVars
  <2> QED
    BY <2>2, <2>3, <2>5, <2>6 DEF Next
<1> QED
  BY <1>1, LifecycleTypeCorrect, PTL DEF SafeSpec
=============================================================================
