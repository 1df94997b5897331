------------------------------ MODULE Lifecycle ------------------------------
(***************************************************************************)
(* The life of the daemons of one account: juctl start, stop, restart,     *)
(* login and logout (src/bin/juctl.rs, src/client.rs), the jud processes   *)
(* they start, run_server with its listeners and the thread that obtains   *)
(* auth (src/daemon/mod.rs, http.rs, stream.rs), the jud --once of a user, *)
(* and the Chromes that they launch.  A step is one request, signal, bind  *)
(* or access to the chrome handle; every wait may end at its deadline.     *)
(* ensure_lock admits one thread of a daemon at a time to Chrome, so that  *)
(* a process has one.                                                      *)
(***************************************************************************)
EXTENDS Naturals, FiniteSets

CONSTANTS Commands,    \* juctl processes, each runs one command after another
          MaxCommands, \* bound: commands that begin, jud --once included
          MaxProcs,    \* bound: jud processes ever started
          MaxChromes,  \* bound: Chromes ever launched
          MaxAttempts, \* bound: attempts to obtain auth from Chrome
          None

Procs == 1..MaxProcs
Chromes == 1..MaxChromes

ASSUME LifecycleAssumption ==
  /\ MaxCommands \in Nat /\ MaxProcs \in Nat /\ MaxChromes \in Nat /\ MaxAttempts \in Nat
  /\ None \notin Procs \cup Chromes

VARIABLES
  kind,      \* the command that a juctl runs
  pc,        \* where it is
  again,     \* its was_running
  target,    \* the daemon that answered its shutdown, or its jud --login
  listed,    \* its daemon_processes
  begun,     \* for the bound: commands begun
  quiet,     \* history: the latest command began alone, on a complete daemon or none
  proc,      \* the state of each jud process
  api,       \* who listens on the API port
  stream,    \* who listens on the stream port
  tried,     \* whether a process's stream thread has tried to bind
  signalled, \* whether juctl has sent it a signal
  thread,    \* where a process is in extract_auth_from_chrome
  handle,    \* its DaemonContext.chrome
  chrome,    \* the state of each Chrome
  visible,   \* launched without --headless
  launcher,  \* history: the process that launched it
  stray,     \* history: launched where no stop_chrome follows
  attempts,  \* for the bound: attempts made
  cached,    \* whether there is an auth cache
  kept       \* history: the latest logout could not remove it

commandVars == <<kind, pc, again, target, listed, begun, quiet>>
procVars == <<proc, api, stream, tried, signalled>>
chromeVars == <<chrome, visible, launcher, stray, attempts>>
cacheVars == <<cached, kept>>
vars == <<commandVars, procVars, thread, handle, chromeVars, cacheVars>>

Kinds == {"start", "stop", "restart", "login", "logout"}
Over == {"idle", "ok", "failed"}
CommandPcs == Over \cup {"stopApi", "awaitStop", "list", "signal", "awaitEnd", "start", "spawn",
                         "await", "spawnLogin", "awaitLogin", "remove"}
\* boot -> up -> closing -> draining -> exiting -> ended, or login -> loggedIn ->
\* ended, or once -> window -> ended
ProcStates == {"unused", "boot", "up", "closing", "draining", "exiting", "login",
               "loggedIn", "once", "window", "ended"}

\* The type invariant; a port is held by a process that can hold it.
TypeOK ==
  /\ kind \in [Commands -> Kinds] /\ pc \in [Commands -> CommandPcs]
  /\ again \in [Commands -> BOOLEAN] /\ quiet \in BOOLEAN /\ begun \in 0..MaxCommands
  /\ target \in [Commands -> Procs \cup {None}]
  /\ listed \in [Commands -> SUBSET Procs]
  /\ proc \in [Procs -> ProcStates]
  /\ api \in {p \in Procs : proc[p] \in {"up", "closing"}} \cup {None}
  /\ stream \in {p \in Procs : proc[p] \in {"boot", "up", "closing", "draining"}} \cup {None}
  /\ tried \in [Procs -> BOOLEAN] /\ signalled \in [Procs -> BOOLEAN]
  /\ thread \in [Procs -> {"idle", "check", "launch", "wait", "extract"}]
  /\ handle \in [Procs -> Chromes \cup {None}]
  /\ chrome \in [Chromes -> {"unused", "starting", "ready", "dead"}]
  /\ visible \in [Chromes -> BOOLEAN] /\ stray \in [Chromes -> BOOLEAN]
  /\ launcher \in [Chromes -> Procs \cup {None}]
  /\ cached \in BOOLEAN /\ kept \in BOOLEAN /\ attempts \in 0..MaxAttempts

Init ==
  /\ kind = [c \in Commands |-> "start"] /\ pc = [c \in Commands |-> "idle"]
  /\ again = [c \in Commands |-> FALSE] /\ target = [c \in Commands |-> None]
  /\ listed = [c \in Commands |-> {}] /\ quiet = TRUE /\ begun = 0
  /\ proc = [p \in Procs |-> "unused"] /\ api = None /\ stream = None
  /\ tried = [p \in Procs |-> FALSE] /\ signalled = [p \in Procs |-> FALSE]
  /\ thread = [p \in Procs |-> "idle"] /\ handle = [p \in Procs |-> None]
  /\ chrome = [c \in Chromes |-> "unused"] /\ visible = [c \in Chromes |-> FALSE]
  /\ launcher = [c \in Chromes |-> None] /\ stray = [c \in Chromes |-> FALSE]
  /\ cached = FALSE /\ kept = FALSE /\ attempts = 0

-----------------------------------------------------------------------------
Goto(c, label) == pc' = [pc EXCEPT ![c] = label]
Become(p, state) == proc' = [proc EXCEPT ![p] = state]

Alive(p) == proc[p] \notin {"unused", "ended"}
Living == {p \in Procs : Alive(p)}
Complete(p) == proc[p] = "up" /\ api = p /\ stream = p

\* A serving daemon answers; one that is closing may answer a last request.
Answers == {p \in Procs : proc[p] \in {"up", "closing"}}
MayBeSilent == \A p \in Procs : proc[p] # "up"

\* The next jud process starts.
Spawned(p, state) ==
  /\ proc[p] = "unused" /\ \A q \in 1..p - 1 : proc[q] # "unused"
  /\ Become(p, state)

\* The sockets of the processes that end are closed.
Freed(port, ps) == IF port \in ps THEN None ELSE port

-----------------------------------------------------------------------------
(* juctl. *)

\* A command begins; login asks the API and the process list for a daemon.  (A
\* juctl that is over is forgotten.)
Begin(c, k) ==
  /\ pc[c] \in Over /\ begun < MaxCommands /\ begun' = begun + 1
  /\ LET others == {d \in Commands : d # c /\ pc[d] \notin Over}
         fresh(old, value) == [d \in Commands |-> IF d \in others THEN old[d] ELSE value]
     IN  /\ kind' = [fresh(kind, "start") EXCEPT ![c] = k]
         /\ again' = [fresh(again, FALSE) EXCEPT ![c] = k = "login" /\ Living # {}]
         /\ target' = fresh(target, None) /\ listed' = fresh(listed, {})
         /\ pc' = [fresh(pc, "idle") EXCEPT ![c] =
                    IF k = "start" THEN "start"
                    ELSE IF k = "login" /\ Living = {} THEN "spawnLogin" ELSE "stopApi"]
         /\ quiet' = (others = {} /\ \A p \in Living : Complete(p))
  /\ UNCHANGED <<procVars, thread, handle, chromeVars, cacheVars>>

\* command_stop has succeeded: what the command goes on with.
AfterStop(c) == IF kind[c] = "stop" THEN "ok"
                ELSE IF kind[c] = "restart" THEN "start"
                ELSE IF kind[c] = "login" THEN "spawnLogin" ELSE "remove"

\* stop_via_api: the daemon is told to stop; without its answer, and without a
\* daemon, the processes are next.
ShutdownRequest(c) ==
  /\ pc[c] = "stopApi"
  /\ \/ MayBeSilent /\ Goto(c, "list") /\ UNCHANGED <<proc, target>>
     \/ \E p \in Answers :
          /\ Become(p, "closing")
          /\ \/ Goto(c, "awaitStop") /\ target' = [target EXCEPT ![c] = p]
             \/ Goto(c, "list") /\ UNCHANGED target
  /\ UNCHANGED <<kind, again, listed, begun, quiet, api, stream, tried, signalled, thread,
                 handle, chromeVars, cacheVars>>

\* Nobody answers on the port, and the process that answered is gone.
MutApiDownIsEnough(c) ==
  /\ pc[c] = "awaitStop" /\ MayBeSilent
  /\ Goto(c, AfterStop(c))
  /\ target' = [target EXCEPT ![c] = None]
  /\ UNCHANGED <<kind, again, listed, begun, quiet, procVars, thread, handle,
                 chromeVars, cacheVars>>
Stopped(c) ==
  /\ pc[c] = "awaitStop" /\ MayBeSilent /\ ~Alive(target[c])
  /\ Goto(c, AfterStop(c))
  /\ target' = [target EXCEPT ![c] = None]
  /\ UNCHANGED <<kind, again, listed, begun, quiet, procVars, thread, handle,
                 chromeVars, cacheVars>>

MutStopWaits(c) == FALSE /\ UNCHANGED vars
MutTimeoutIsSuccess(c) ==
  /\ pc[c] = "awaitStop"
  /\ Goto(c, AfterStop(c))
  /\ target' = [target EXCEPT ![c] = None]
  /\ UNCHANGED <<kind, again, listed, begun, quiet, procVars, thread, handle,
                 chromeVars, cacheVars>>
StopTimesOut(c) ==
  /\ pc[c] = "awaitStop"
  /\ Goto(c, "list")
  /\ target' = [target EXCEPT ![c] = None]
  /\ UNCHANGED <<kind, again, listed, begun, quiet, procVars, thread, handle,
                 chromeVars, cacheVars>>

\* stop_processes: every jud of the account in /proc, a jud --login included.
List(c) ==
  /\ pc[c] = "list"
  /\ listed' = [listed EXCEPT ![c] = Living]
  /\ Goto(c, IF Living = {} THEN AfterStop(c) ELSE "signal")
  /\ UNCHANGED <<kind, again, target, begun, quiet, procVars, thread, handle, chromeVars,
                 cacheVars>>

\* SIGINT, and SIGTERM if that is forced, to those that are still there.
Signal(c) ==
  /\ pc[c] = "signal"
  /\ signalled' = [p \in Procs |-> signalled[p] \/ p \in listed[c] \cap Living]
  /\ Goto(c, "awaitEnd")
  /\ UNCHANGED <<kind, again, target, listed, begun, quiet, proc, api, stream, tried, thread,
                 handle, chromeVars, cacheVars>>

\* Both have their default action: the process ends where it is, without
\* stop_chrome.
Die(p) ==
  /\ signalled[p] /\ Alive(p)
  /\ Become(p, "ended")
  /\ thread' = [thread EXCEPT ![p] = "idle"] /\ handle' = [handle EXCEPT ![p] = None]
  /\ tried' = [tried EXCEPT ![p] = FALSE]
  /\ api' = Freed(api, {p}) /\ stream' = Freed(stream, {p})
  /\ UNCHANGED <<commandVars, signalled, chromeVars, cacheVars>>

\* wait_until_stopped, up to its deadline.
AwaitEnd(c) ==
  /\ pc[c] = "awaitEnd"
  /\ Goto(c, IF listed[c] \cap Living = {} THEN AfterStop(c) ELSE "failed")
  /\ listed' = [listed EXCEPT ![c] = {}]
  /\ UNCHANGED <<kind, again, target, begun, quiet, procVars, thread, handle, chromeVars,
                 cacheVars>>

\* start_daemon: nothing to do if a daemon answers.
Start(c) ==
  /\ pc[c] = "start"
  /\ \/ Answers # {} /\ Goto(c, "ok")
     \/ MayBeSilent /\ Goto(c, "spawn")
  /\ UNCHANGED <<kind, again, target, listed, begun, quiet, procVars, thread, handle,
                 chromeVars, cacheVars>>

Spawn(c) ==
  /\ pc[c] = "spawn"
  /\ \E p \in Procs : Spawned(p, "boot")
  /\ Goto(c, "await")
  /\ UNCHANGED <<kind, again, target, listed, begun, quiet, api, stream, tried, signalled,
                 thread, handle, chromeVars, cacheVars>>

\* A jud that cannot be started; the bound on processes is such a case.
SpawnFails(c) ==
  /\ pc[c] \in {"spawn", "spawnLogin"}
  /\ Goto(c, "failed")
  /\ UNCHANGED <<kind, again, target, listed, begun, quiet, procVars, thread, handle,
                 chromeVars, cacheVars>>

\* Some daemon of the account answers, or the deadline passes first.
Await(c) ==
  /\ pc[c] = "await"
  /\ \/ Answers # {} /\ Goto(c, "ok")
     \/ Goto(c, "failed")
  /\ UNCHANGED <<kind, again, target, listed, begun, quiet, procVars, thread, handle,
                 chromeVars, cacheVars>>

\* command_login starts jud --login and waits for its end.
SpawnLogin(c) ==
  /\ pc[c] = "spawnLogin"
  /\ \E p \in Procs : Spawned(p, "login") /\ target' = [target EXCEPT ![c] = p]
  /\ Goto(c, "awaitLogin")
  /\ UNCHANGED <<kind, again, listed, begun, quiet, api, stream, tried, signalled, thread,
                 handle, chromeVars, cacheVars>>

\* It has succeeded and ends, without stop_chrome, or it has failed or was ended.
AwaitLogin(c) ==
  /\ pc[c] = "awaitLogin"
  /\ \/ /\ proc[target[c]] = "loggedIn"
        /\ Become(target[c], "ended") /\ handle' = [handle EXCEPT ![target[c]] = None]
        /\ Goto(c, IF again[c] THEN "start" ELSE "ok")
     \/ /\ proc[target[c]] = "ended"
        /\ Goto(c, "failed") /\ UNCHANGED <<proc, handle>>
  /\ target' = [target EXCEPT ![c] = None]
  /\ UNCHANGED <<kind, again, listed, begun, quiet, api, stream, tried, signalled,
                 thread, chromeVars, cacheVars>>

\* command_logout removes the auth cache, the state and the profile.  A file that
\* cannot be removed is reported, and the command succeeds all the same.
Remove(c) ==
  /\ pc[c] = "remove"
  /\ \/ cached' = FALSE /\ kept' = FALSE
     \/ cached /\ UNCHANGED cached /\ kept' = TRUE
  /\ Goto(c, "ok")
  /\ UNCHANGED <<kind, again, target, listed, begun, quiet, procVars, thread, handle,
                 chromeVars>>

-----------------------------------------------------------------------------
(* A jud: run_server's main and stream threads. *)

\* The API port decides: without it run_server goes straight to its end.
BindApi(p) ==
  /\ proc[p] = "boot"
  /\ \/ api = None /\ api' = p /\ Become(p, "up")
     \/ api # None /\ Become(p, "draining") /\ UNCHANGED api
  /\ UNCHANGED <<commandVars, stream, tried, signalled, thread, handle, chromeVars,
                 cacheVars>>

\* run_stream_server binds once; its error is dropped with the joined thread.
BindStream(p) ==
  /\ proc[p] \in {"boot", "up", "closing", "draining"} /\ ~tried[p]
  /\ tried' = [tried EXCEPT ![p] = TRUE]
  /\ stream' = IF stream = None THEN p ELSE stream
  /\ UNCHANGED <<commandVars, proc, api, signalled, thread, handle, chromeVars, cacheVars>>

\* run_http_server notices `stop` and returns; its socket is closed.
FreeApi(p) ==
  /\ proc[p] = "closing"
  /\ Become(p, "draining") /\ api' = Freed(api, {p})
  /\ UNCHANGED <<commandVars, stream, tried, signalled, thread, handle, chromeVars,
                 cacheVars>>

\* The stream thread is joined, the terminals are closed, and Chrome is stopped.
MutChromeKept(p) ==
  /\ proc[p] = "draining" /\ tried[p]
  /\ Become(p, "exiting") /\ stream' = Freed(stream, {p})
  /\ UNCHANGED <<commandVars, api, tried, signalled, thread, handle, chromeVars, cacheVars>>
StopChrome(p) ==
  /\ proc[p] = "draining" /\ tried[p]
  /\ Become(p, "exiting") /\ stream' = Freed(stream, {p})
  /\ chrome' = [c \in Chromes |-> IF c = handle[p] THEN "dead" ELSE chrome[c]]
  /\ handle' = [handle EXCEPT ![p] = None]
  /\ UNCHANGED <<commandVars, api, tried, signalled, thread, visible, launcher, stray,
                 attempts, cacheVars>>

\* The process ends, and the threads that nobody joined with it.
Exit(p) ==
  /\ proc[p] = "exiting"
  /\ Become(p, "ended")
  /\ thread' = [thread EXCEPT ![p] = "idle"] /\ handle' = [handle EXCEPT ![p] = None]
  /\ tried' = [tried EXCEPT ![p] = FALSE]
  /\ UNCHANGED <<commandVars, api, stream, signalled, chromeVars, cacheVars>>

\* A user runs jud --once.
RunOnce(p) ==
  /\ begun < MaxCommands /\ begun' = begun + 1
  /\ Spawned(p, "once")
  /\ quiet' = FALSE
  /\ UNCHANGED <<kind, pc, again, target, listed, api, stream, tried, signalled, thread,
                 handle, chromeVars, cacheVars>>

\* maintain_once without a notebook: its own Chrome makes way for a login window.
OpenWindow(p) ==
  /\ proc[p] = "once" /\ thread[p] = "idle"
  /\ Become(p, "window")
  /\ chrome' = [c \in Chromes |-> IF c = handle[p] THEN "dead" ELSE chrome[c]]
  /\ handle' = [handle EXCEPT ![p] = None]
  /\ UNCHANGED <<commandVars, api, stream, tried, signalled, thread, visible, launcher, stray,
                 attempts, cacheVars>>

\* login_once and maintain_once end, without stop_chrome: jud --login without a
\* notebook, after an attempt at its deadline, jud --once with one or without.
OneShotEnds(p) ==
  /\ proc[p] \in {"login", "once", "window"} /\ thread[p] = "idle"
  /\ Become(p, "ended") /\ handle' = [handle EXCEPT ![p] = None]
  /\ UNCHANGED <<commandVars, api, stream, tried, signalled, thread, chromeVars, cacheVars>>

-----------------------------------------------------------------------------
(* Auth from Chrome: the maintenance thread, or a request, jud --login or   *)
(* jud --once.                                                             *)

Working(p) == proc[p] \in {"boot", "up", "closing", "draining", "exiting", "login",
                        "once", "window"}
Running(c) == c # None /\ chrome[c] \in {"starting", "ready"}
Reachable == \E c \in Chromes : chrome[c] = "ready"
ThreadAt(p, from, to) ==
  /\ Working(p) /\ thread[p] = from /\ thread' = [thread EXCEPT ![p] = to]

\* ensure_cdp: whatever answers on the CDP port will do.
FetchTargets(p) ==
  /\ attempts < MaxAttempts /\ attempts' = attempts + 1
  /\ ThreadAt(p, "idle", IF Reachable THEN "extract" ELSE "check")
  /\ UNCHANGED <<commandVars, procVars, handle, chrome, visible, launcher, stray, cacheVars>>

\* should_launch, under the handle's mutex.
ShouldLaunch(p) ==
  /\ ThreadAt(p, "check", IF Running(handle[p]) THEN "wait" ELSE "launch")
  /\ UNCHANGED <<commandVars, procVars, handle, chromeVars, cacheVars>>

\* launch_chrome: visible for jud --login and for the window of jud --once.
LaunchChrome(p) ==
  /\ ThreadAt(p, "launch", "wait")
  /\ \E c \in Chromes :
       /\ chrome[c] = "unused" /\ \A d \in 1..c - 1 : chrome[d] # "unused"
       /\ chrome' = [chrome EXCEPT ![c] = "starting"]
       /\ visible' = [visible EXCEPT ![c] = proc[p] \in {"login", "window"}]
       /\ launcher' = [launcher EXCEPT ![c] = p]
       /\ stray' = [stray EXCEPT ![c] = proc[p] \in {"exiting", "once"}]
       /\ handle' = [handle EXCEPT ![p] = c]
  /\ UNCHANGED <<commandVars, procVars, attempts, cacheVars>>

\* Chrome cannot be started; the bound on Chromes is such a case.
LaunchFails(p) ==
  /\ ThreadAt(p, "launch", "idle")
  /\ UNCHANGED <<commandVars, procVars, handle, chromeVars, cacheVars>>

CdpAnswers(p) ==
  /\ Reachable /\ ThreadAt(p, "wait", "extract")
  /\ UNCHANGED <<commandVars, procVars, handle, chromeVars, cacheVars>>

\* chrome_start_timeout: stop_chrome, and an error.
CdpTimesOut(p) ==
  /\ ThreadAt(p, "wait", "idle")
  /\ chrome' = [c \in Chromes |-> IF c = handle[p] THEN "dead" ELSE chrome[c]]
  /\ handle' = [handle EXCEPT ![p] = None]
  /\ UNCHANGED <<commandVars, procVars, visible, launcher, stray, attempts, cacheVars>>

\* The cookies are read and saved; a login is over when the notebook then answers.
Extract(p) ==
  /\ Reachable /\ ThreadAt(p, "extract", "idle")
  /\ cached' = TRUE /\ UNCHANGED kept
  /\ \/ UNCHANGED proc
     \/ proc[p] = "login" /\ Become(p, "loggedIn")
  /\ UNCHANGED <<commandVars, api, stream, tried, signalled, handle, chromeVars>>

ExtractFails(p) ==
  /\ ThreadAt(p, "extract", "idle")
  /\ UNCHANGED <<commandVars, procVars, handle, chromeVars, cacheVars>>

\* Chrome takes the CDP port if it is free, and may end at any time.
ChromeBoots(c) ==
  /\ chrome[c] = "starting" /\ ~Reachable
  /\ chrome' = [chrome EXCEPT ![c] = "ready"]
  /\ UNCHANGED <<commandVars, procVars, thread, handle, visible, launcher, stray,
                 attempts, cacheVars>>
ChromeExits(c) ==
  /\ Running(c)
  /\ chrome' = [chrome EXCEPT ![c] = "dead"]
  /\ UNCHANGED <<commandVars, procVars, thread, handle, visible, launcher, stray,
                 attempts, cacheVars>>

-----------------------------------------------------------------------------
CommandStep(c) ==
  \/ ShutdownRequest(c) \/ Stopped(c) \/ StopTimesOut(c) \/ List(c) \/ Signal(c) \/ AwaitEnd(c)
  \/ Start(c) \/ Spawn(c) \/ SpawnFails(c) \/ Await(c)
  \/ SpawnLogin(c) \/ AwaitLogin(c) \/ Remove(c)
ServerStep(p) ==
  BindApi(p) \/ BindStream(p) \/ FreeApi(p) \/ StopChrome(p) \/ Exit(p) \/ Die(p)
OneShotStep(p) == RunOnce(p) \/ OpenWindow(p) \/ OneShotEnds(p)
AuthStep(p) ==
  \/ FetchTargets(p) \/ ShouldLaunch(p) \/ LaunchChrome(p) \/ LaunchFails(p)
  \/ CdpAnswers(p) \/ CdpTimesOut(p) \/ Extract(p) \/ ExtractFails(p)

Next ==
  \/ \E c \in Commands : CommandStep(c) \/ \E k \in Kinds : Begin(c, k)
  \/ \E p \in Procs : ServerStep(p) \/ AuthStep(p) \/ OneShotStep(p)
  \/ \E c \in Chromes : ChromeBoots(c) \/ ChromeExits(c)

\* Every wait of juctl has a deadline, and so have the attempts of jud --login and
\* the loop around them.  Nothing is assumed of a daemon, which may hang.
Fairness ==
  /\ \A c \in Commands : WF_vars(CommandStep(c))
  /\ \A p \in Procs : WF_vars(proc[p] = "login" /\ AuthStep(p)) /\ WF_vars(OneShotEnds(p))

SafeSpec == Init /\ [][Next]_vars

Spec == SafeSpec /\ Fairness

-----------------------------------------------------------------------------
\* What a command that has the account to itself leaves behind: a daemon that it
\* starts gets the API port and the stream port, since the daemon that it stopped
\* is gone, with its sockets, before it goes on (bin/juctl.rs:245, stream.rs:16).
QuietStartIsComplete ==
  quiet => \A p \in Procs : proc[p] = "up" /\ tried[p] => stream = p

\* A logout that has the account to itself and could remove the cache is final: no
\* thread of a daemon that is still ending saves the cookies once more, and the exit
\* code says so of the cache (bin/juctl.rs:561).
LogoutSticks ==
  quiet /\ ~kept => \A c \in Commands : kind[c] = "logout" /\ pc[c] = "ok" => ~cached

\* A headless Chrome outlives its process only after a signal, when the thread
\* that nobody joins launched it behind stop_chrome, or when a jud --once did, which
\* stops it only for its window (mod.rs:335, 407, 677, 1456, 1490); of every other
\* one some daemon still holds the handle.
ChromeBelongsToDaemon ==
  \A c \in Chromes :
    Running(c) /\ ~visible[c] /\ ~signalled[launcher[c]] /\ ~stray[c] =>
      Alive(launcher[c]) /\ handle[launcher[c]] = c

\* Every command of juctl returns, also when the daemon hangs while it stops.
EveryCommandReturns == \A c \in Commands : (pc[c] \notin Over) ~> (pc[c] \in Over)

\* README.md:78: juctl login opens a visible Chrome.  When a login that has the
\* account to itself has succeeded, this one or an earlier one has opened it.
LoginOpensVisibleChrome ==
  quiet => \A p \in Procs : proc[p] = "loggedIn" => \E c \in Chromes : visible[c]
=============================================================================
