# A verification project for gitcode-jupyter-tool

`jud` is a daemon that keeps a GitCode notebook (a remote Jupyter server with
NPUs) at hand; `juctl`, `jush` and `jucp` are its clients. The modules of this
directory model the parts of the program in which several threads, processes
and remote requests meet, TLC checks them on small instances, and TLAPS proves
their safety, and that they implement their abstract specifications, for every
value of the constants.

Paths below are those of the repository (`src/daemon/jobs.rs` is the file of the
Rust crate).

## 1. Inventory

| Component | State | Operations | What makes it correct |
|---|---|---|---|
| Heavy queue, `OrderedJobQueue` (`src/daemon/jobs.rs` 10-88) | `waiting`, `running`, a mutex and a condition variable | `enter_blocking`, `run_blocking`, drop of a lease | one lease at a time, in the order of entering, no lost wake-up, everyone gets a turn |
| Job manager, `JobManager` (`jobs.rs` 90-237) | the table of jobs, one thread per job | `submit`, `submit_ordered`, `get`, pruning | the table tells where the threads are; a final status is kept until it is pruned; every job ends if the work before it does |
| Polling client (`src/client.rs` 46-105) | deadline | `wait_job_result` | never asks for a pruned job; reports what the job returned |
| Requests on a remote terminal (`src/daemon/mod.rs` 859-1116, `src/daemon/terminal.rs` 163-236, `src/direct.rs` 906-1010, `jush.rs` 250-300, `jucp.rs` 211-324) | the remote shell, the bytes received so far, the exit code | `run`, `upload`, `download`; `wait_api_command_marker`, `find_marker`; what the client makes of the answer | exit code 0 is the truth, a status is the command's, no terminal stays behind, every client returns and every request ends but in the websocket's connect |
| Notebook context (`mod.rs` 414-668, 802-925) | `state.json`, `ensure_lock`, the remote notebooks | `ensure`, maintenance, `run`, `reset` | one notebook is provisioned, its record is readable and becomes usable again, every operation ends |
| Authentication cache (`direct.rs` 63-216, 315-480, `mod.rs` 414-478, 582-641) | `auth.json`, the cookies of each client, Chrome's profile | `from_cache`, `save`, `update`, `request`, `get_direct_auth` | the attempt after a rejected one asks Chrome, the cache becomes usable again, maintenance is let in again |
| Notebook reset (`mod.rs` 1140-1359, `direct.rs` 642-683, `juctl.rs` 601-689) | remote kernels, the flags in them, the reply | `Service::reset`, `command_reset` | what is reported closed is gone, and a success without a warning means a clean server, unless a DELETE erred |
| Terminals and streams (`terminal.rs`, `stream.rs`, `mod.rs` 1361-1425) | the map of terminals, a pump thread each, `output`, `closed`, the lease | open, read, input, resize, close, `handle_stream` | the lease follows the terminal and comes back, nothing is left on the server |
| Account endpoints (`src/config.rs` 168-313) | the ports file of each account | `account_endpoint_ports` | a persisted pair is final and used by everyone |
| Daemon life cycle (`mod.rs` 284-478, 670-785, 1428-1491, `http.rs` 248-315, `stream.rs` 14-39, `client.rs` 153-252, `juctl.rs` 108-300, 488-599) | the jud processes, the two ports, the handle of Chrome and the Chromes, the auth cache | start, stop, restart, login, logout, `jud --once`, obtaining auth | a restart has both ports, a logout is final, Chrome is stopped with its daemon, every command returns |
| HTTP dispatch (`src/daemon/http.rs`) | none of its own | routes a request to a component | |
| Resource probe, CDP/WebSocket, arguments and paths | none that is shared | | |

How they interact. A client sends HTTP requests; `dispatch` handles each in a
thread of its own. A run, an upload or a download becomes a job
(`JobManager`), and a *heavy* one takes its turn in the heavy queue, which
interactive terminals and stream sessions enter too and hold until they are
closed. Each then types a script into a fresh remote terminal and reads until
a marker shows the status. Every operation obtains a notebook through the
*context*, which a maintenance thread keeps up as well, and with it cookies from
`auth.json` or from Chrome. `reset` works on the kernels and terminals of that
notebook, unordered with everything else. The programs of an account find its
daemon through the ports file.

What is hard: threads woken by one condition variable for different ids; panics
under a lease; `finished` stamped outside the table's mutex; `state.json`
written in two steps and read without the lock; `reset` that writes outside
`ensure_lock`; clients that overwrite the cookies of each other; a status that
arrives in pieces, after its own echo, behind too much output or not at all;
daemons of one account that overlap, because the old one is still ending or was
started twice, and Chromes that outlive the process that launched them;
requests whose answer is lost after they took effect; a reader that misses the
notification of `close`; programs racing for a file they create and write in two
steps. `PROJECT.json` lists each under "hazards" with its line.

## 2. Modules

| Module | Models | Composition |
|---|---|---|
| `FifoLock` | the promise of the heavy queue: a lock granted in the order of requests, without waking and sleeping | abstract specification |
| `HeavyQueue` | `OrderedJobQueue`, one critical section of its mutex a step | implements `FifoLock` (`waiting` is `queue`, `running` is `holder`) |
| `SerialJobs` | the promise of the job manager and the queue together: jobs are queued, run, end and are forgotten, those that take turns wholly within their own | abstract specification; its turns are those of `FifoLock` |
| `Jobs` | `JobManager`, the job threads, direct users of the queue, polling clients and their clocks | extends `HeavyQueue` and runs its actions in the threads of the jobs; implements `SerialJobs` |
| `RemoteCall` | the promise of a request on a remote terminal: a command that is executed at most twice, the second time only after a failure, an answer that is a fact about it, and what the client makes of it, without terminals, messages or markers | abstract specification |
| `RemoteRun`, `MCRemoteRun` | one run, upload or download: the daemon's attempts, the shell and its terminal, the marker, the client | what a job of `Jobs` does between taking its turn and its return; implements `RemoteCall`; `MCRemoteRun` gives the tokens |
| `NotebookContext` | `direct_context` of the service and of the daemon context, `state.json`, `ensure_lock`, the two attempts of a run, the second record of a reset | stands alone; `Reset` refines what a reset does between its two records |
| `AuthCache` | `CookieAuth`, `HttpClient`, the retries that turn to Chrome | stands alone; refines the success or failure of authentication in `NotebookContext` |
| `Reset`, `MCReset` | the reset on the server and the exit code of `juctl reset` | `MCReset` adds the symmetry |
| `Ports`, `MCPorts` | `account_endpoint_ports`, `find_available_pair`, `write_pair_file` | `MCPorts` gives the accounts and offsets |
| `Terminals` | `LiveTerminal`, its pump and reader, the map, `handle_stream` | instantiates `FifoLock` as the heavy queue, which `HeavyQueue` implements |
| `Lifecycle` | the commands of `juctl`, the `jud` processes with their listeners, Chrome and the auth cache | stands alone; `Ports` says which ports a daemon is given |
| `X_proofs` for `Jobs`, `RemoteRun`, `NotebookContext`, `AuthCache`, `Reset`, `Ports`, `Terminals`, `Lifecycle` | the theorems about the module `X` | each extends its module; `Jobs_proofs` has those about `HeavyQueue` too |

### How state and actions correspond to the code

*HeavyQueue.* (Its `Init`, `Next` and so on are called `QueueInit`, `QueueNext`,
since `Jobs` extends it.) `waiting` and `running` are the fields of `OrderedQueueState`;
`pc` is where the thread of an id is. `condvar.wait` lets the mutex go, so
`Enter` ends with its thread holding the lease or `asleep`; `Leave` (the drop of
`OrderedQueueLease`) wakes every sleeper, `SpuriousWake` any sleeper at any
time, and `Recheck` is one more pass of the loop.

*Jobs.* `table` holds each job's status, `thread` the place of its thread in the
closure given to `thread::spawn`. `Return` and `Record` are two steps, because
`finished` is taken before the table's mutex; `Panic` unwinds without writing,
and `LeaveQueue` is the drop of the lease, which happens in either case. `Poll`
and `GiveUp` are the loop of `wait_job_result`. The clock is an integer; three
constants bound what the code leaves to the machine: the time between two polls,
and the time a thread waits for the table's mutex. `ImplementsExecutor` maps this
to `SerialJobs`: `waiting` is `queue`, `running` is `holder`, and `Shown` is the
status of each job, where an entry that was pruned reads `"forgotten"` and one
that is still to come `"none"`; threads, wake-ups, clocks and clients disappear.
A pruning and the insertion behind it, which are one critical section of the
table, are one `Accept`.

*RemoteRun.* What the terminal writes is a sequence of tokens, `stream`: noise,
pieces of output, digits, and the marker, which is one token as it is echoed
(no digit follows it) and another as it is printed. `seen` tokens have arrived;
a step of the wait takes any number of them, which is every division into
messages. `shell`, `typed` and `echoing` are the remote side: it executes what
was sent in order, and each of its commands behaves in one of a set of ways
(`RunBehaviours`, `UploadBehaviours`, ...) that the scripts of `mod.rs` allow,
with its own status, or never ends. An uploaded file's status is that of `chmod`,
so it may be 0 when nothing was written: `stored` is then `"old"`, what was at the
destination before (a directory, say). `pc` is where the daemon is in an attempt:
the POST for a terminal (`start`), its websocket (`connect`), `drain_api_terminal` before each of the two
texts (`banner`, `settle`), `wait_api_command_marker`, `close`. The size of a
text is its number of output tokens: `Keep` of them stand for 8 MiB. `Hears` is
what `jush` and `jucp` make of the answer, and `ClientGivesUp` how they end without
one: `jush` with 124 at its deadline, both with 1 at an error. `ImplementsCall` maps this to
`RemoteCall`: `CallCommand` is the command of the attempt, as long as a terminal or
the answer still speaks of it, and `CallAnswer` is what the daemon will answer,
where an error counts only once no attempt is left; everything between the shell
and the daemon disappears.

*NotebookContext.* An operation is `Begin`, `Lock`, `Read` (of `state.json`),
`ProbeAnswers`/`ProbeFails`, `Insert`, a probe of what was inserted, and
`Truncate`/`Write`, the two effects of `fs::write`. Failing requests use up
`MaxFaults`. `file` is a notebook or the reason why none can be read. A run asks
for `ensure` or not. `strayed` is a history variable: a reset has begun to record
its notebook outside `ensure_lock`.

*AuthCache.* Tokens are numbered as they are issued; the server accepts some and
some are visibly expired. A jar maps a domain to a token: a token of the
`dotted` domain is sent, one of the `plain` domain only passes `valid()`. `file`
is `auth.json` and `jar` the copy of each client. An answer may bring a new token
of either domain and revoke the old one, or remove it; then the whole copy goes
to the file (`Save`), whatever others saved meanwhile. `force` is
`force_extract_next` and `dead` is `previous_dead`. An attempt of `direct_context`
calls `get_direct_auth` for two clients: one for the probe of the previous notebook
(`aim` is `"probe"`), then, unless that succeeds, one for the insert. Whatever the
probe fails of, a rejection included, is swallowed (`ProbeFails`): the insert of
the same attempt may send the cached token again. Only a rejection of the insert,
or of the probe behind it, makes the next attempt ask Chrome.

*Reset.* Each request is a step; an error uses up `MaxFaults` and may or may not
have taken effect on the server. `ShutDown` is the DELETE of `shutdown_kernel` and
`ShutDownAgain` the POST that follows its error. The Jupyter server has no route
for that POST and answers 404, which the code takes for a kernel that is gone, so
a kernel may be `closed` and alive; `tried` names the kernels whose DELETE erred.
`OthersStart` and `OthersStop` are the other users of the server. `listed`
records whether the last listing could be read: the code drops that error.

*Ports.* A step is one bind or one access to the file. The file is absent,
created and empty (`<<"partial">>`), or a pair. `find_available_pair` holds the
API port while it tries the stream port, then drops both, so the pair may be
taken before anyone listens. A daemon serves once it has its API port, with the
stream port or without (`Serve`).

*Terminals.* `refs` are the owners of the `Arc` of a `LiveTerminal` (the thread
that opens it, the map, a read in progress, `close_terminal`); the lease is
dropped with the last. `reader` distinguishes the test of `closed` from the wait,
since `close` notifies without the mutex of `output`. `mapLock` is the map's
write lock, which `close_terminal` holds during the DELETE.

*Lifecycle.* `pc` is where a `juctl` is in `command_start`, `command_stop`
(`stop_via_api`, then `stop_processes`) and what follows. `proc` is where a `jud`
is. In `run_server`: `boot`, `up` (it has the API port), `closing` (`stop` is set),
`draining` (the API port is free, the stream thread is joined and the terminals
are closed), `exiting` (after `stop_chrome`). In `login_once`: `login` and
`loggedIn`. In `maintain_once`: `once` and, when its own Chrome has made way for
the visible one of `open_login_window_and_wait`, `window`. `thread` is the one
thread of a process that is in `extract_auth_from_chrome`: `ensure_lock` admits
one at a time. It runs beside `run_server` to the very end, as nobody joins it.
`command_stop` through the API ends with the process that answered; without an
answer every `jud` of the account gets SIGINT (`Signal`), whose default action ends it
where it is (`Die`); `AwaitEnd` is the wait for that, which fails if one is left at
its deadline. A deadline may pass at any moment of its wait. A removal of the cache
that fails is only printed and the logout succeeds (`Remove`; `kept` remembers it).
`quiet`, `stray`
(launched where no `stop_chrome` follows: by a server behind its own, or by a
`jud --once`), `signalled` and `launcher` are history variables.

## 3. Runs

| Run | Question | Instance, and why it is enough |
|---|---|---|
| `heavy_queue` | record and threads agree; no lost wake-up; implements the fair FIFO lock; everyone gets a turn | 4 entrants that come back for ever: a holder, two sleepers with different ids, and a newcomer |
| `jobs` | the table tells the truth; a client hears of its job and of its result; heavy jobs run alone; a final status stays; the whole implements `SerialJobs`; every job ends if no closure and no direct user works for ever | two heavy jobs and a light one, a direct user, a clock to 3; `Retention` 2 = `PollGap` + `LockDelay`, the tightest value for which polling is safe |
| `remote_run` | exit code 0 is the truth; a reported status is the command's; output is complete or its end; a status is missed only behind an echo; a command is repeated only after a failure; the whole implements `RemoteCall`; no terminal stays; every client returns, and every request ends unless it stays in its connect | each of the five kinds of request, three pieces of output with `Keep` 1 (one more than what is kept before the cut), statuses of one to three digits, 124 among them, 2 faults: both attempts may fail |
| `notebook` | no needless provisioning, no mixed or abandoned truncation, the lock is held exactly where the code means to, a usable notebook is recorded again, every operation ends | maintenance, a run with or without ensure and a reset, 2 notebooks, 2 faults |
| `auth_cache` | an attempt after a rejected one sends what Chrome has, in its probe and in its insert, and not the file; the cache holds an accepted token again; maintenance is let in again | maintenance and a run that may not ask Chrome, 3 tokens (the profile's, a rotated one, a renewed one), 2 faults |
| `reset` | what is reported closed is gone and a success without warnings is clean, but for kernels whose DELETE erred; the checked kernel never has the flag | 2 concurrent resets, 3 kernels ever, 2 faults, other users; kernels and resets are symmetric |
| `reset_flag` | counterexample: exit code 0 though a flag survives | the same with one reset and one fault |
| `ports` | a persisted pair is final, and the programs of an account agree on it unless they read the file before its write | a daemon and a client of one account, a daemon of another, 4 ports, overlapping search windows, one crash while writing |
| `ports_accounts` | counterexample: two accounts persist overlapping ports | the same |
| `terminals` | the lease follows the terminal and comes back, nothing is left on the server without a failure, every session gets the lease | two API terminals and a stream, all heavy, 2 faults |
| `lifecycle` | an undisturbed start or restart gets both ports, an undisturbed logout that could remove the cache is final, a Chrome belongs to its daemon, every command returns | two commands of any kind or `jud --once`, at the same time or in sequence, three `jud`s (a daemon, a login, the restarted daemon), one Chrome, two attempts to obtain auth |
| `login_visible` | counterexample: a login that opens no window | the same with one `juctl` and two processes |

Bounds: `MaxTime` (clock), `MaxFaults` (requests, connections, writes and
notebooks that fail), `MaxCrashes` (programs that end while they write),
`MaxTokens` (cookies ever issued), `Keep` (the output that survives a cut), the
number of kernel ids (the server uses each once, as its UUIDs are), and one
submission per job id (ids are 12 random bytes). Two faults suffice for a
failure and the failure of its retry. Three systems stop and run without the
deadlock check: `Reset` when all resets have ended and the kernel ids are used
up, `RemoteRun` when the request has ended, and `Lifecycle` when the bounded
number of commands has. Every other system goes on for ever and is checked for
deadlock. In `Lifecycle` `MaxCommands`, `MaxProcs`, `MaxChromes` and
`MaxAttempts` bound what is ever begun; a `jud` or a Chrome beyond its bound is
one that cannot be started, which the code handles (`SpawnFails`,
`LaunchFails`). Two attempts and one Chrome suffice for a Chrome that one process
launches and another one uses.

The type invariants of all modules are proved, and so they are not repeated in
the runs.

### Fairness

* A thread that is ready to take a mutex or that was notified runs eventually
  (weak fairness of `Recheck`, `JobStep`, `Step`, `PumpStops`, ...). Spurious
  wake-ups and panics happen without any fairness.
* In `HeavyQueue` leases are dropped (`Leave`): a lock gives nobody a turn
  otherwise. It is an assumption about those who use the queue, and the code does
  not enforce it: a client may keep a heavy terminal open for as long as it
  likes, and a connect may hang.
* `Jobs` does not make it. No closure is assumed to end and no direct user to
  leave; `EveryJobEnds` has both as its hypothesis, that none of them works for
  ever, and says that nothing else keeps a job from its end. Fair are only the
  steps of the job manager, of the queue and of the clients.
* In `RemoteRun` the daemon's HTTP requests and waits have timeouts, and deadlines
  come. `WebSocket::connect` has none (`runtime.rs:31`: the socket's timeouts are
  set behind it), so `Connect` is not fair: a request may stay there for ever, and
  `EveryRequestEnds` says that it stays nowhere else, and that its client returns
  in any case. Nothing is assumed of the remote side, which may hang anywhere.
* In `NotebookContext` requests end, the use phase of a run among them, although
  its connect has no timeout. That attempts come to an end follows from the bound
  on faults (and from there being two attempts of a run), not from the deadline of
  `direct_context`, which is a step that may come at any time.
* `ensure_lock` is a `std::sync::Mutex`, which is not queued: `Lock` has strong
  fairness, because its owners are apart by whole requests and by the
  maintenance interval, so that a waiting thread does not lose it every time.
* Maintenance begins again and again (in `NotebookContext` and `AuthCache`).
  Nothing else is assumed to begin.
* In `AuthCache` a terminal is closed at last, though its client may be used any
  number of times (`Finish`, strongly fair), and Chrome stays logged in: when its
  token is not accepted any more, a page renews it (`ChromeRenews`). Without that
  the program waits for a `juctl login`.
* The client of a terminal closes it, or its connection ends (`CloseBegins` is
  strongly fair, since the map's lock may be taken, `StreamEnds` weakly). The
  daemon depends on this: it takes a lease away from nobody.
* `juctl` goes on, as each of its waits has a deadline (`CommandStep`), and so
  does `jud --login`, on which it waits without one (its attempts and
  `OneShotEnds`). A daemon has no fairness: it may hang while it stops.

### Differences between README and code

* `README.md:124`: "`juctl reset` exits non-zero if the flag survived". When a
  DELETE of a kernel errs without effect, the 404 that answers the POST behind it
  counts the kernel as closed (`direct.rs:679`), and what counts as closed is left
  out of the remaining kernels (`mod.rs:1238`). The flag is looked for only in the
  kernel that the reset has just started (`CheckedKernelIsNew`: that one never has
  it), so the check says cleared, `juctl` prints "reset verified" and exits with 0,
  while the flagged kernel runs on. Run `reset_flag`. What does hold is
  `ClosedKernelsGone` and `QuietSuccessIsClean`: a DELETE that erred is the only
  way to it.
* `README.md:81-82`: "each account gets its own ... local API/stream ports".
  Only whether the ports can be bound at that moment is tested, so the persisted
  pair of an account whose daemon is not running may be persisted again for
  another one. Run `ports_accounts`.
* `README.md:78`: "`juctl login` opens visible Chrome". `ensure_cdp` is content
  with whatever answers on the CDP port. A `jud --once` leaves its headless Chrome
  there when it ends, and so does a daemon that `juctl` ended with SIGINT, after
  its answer to the shutdown was lost or late; the login then takes that one's
  cookies. Run `login_visible`. What does hold is `ChromeBelongsToDaemon`, which
  names the ways to such a Chrome: a signal, a login, a launch behind
  `stop_chrome`, and `jud --once`.

Three more were met without a run. `README.md:78` says that `juctl logout` removes
the auth cache; a removal that fails is printed to stderr and the exit code is 0
(`juctl.rs` 466-475), which `LogoutSticks` leaves out by its `~kept`. `README.md:199` lets `jud` open a visible window
when the profile is not logged in; only `jud --once` does
(`open_login_window_and_wait`), the maintenance of the server never does. And
what is no disagreement with any document but worth knowing: the exit status of
an upload is that of its `chmod`, so that a truncated copy, or nothing at all for a
destination that is a directory, may be reported as a success (`ZeroMeansDone` says
what 0 still means: something is at the destination, and if it is not the whole file,
the answer has an error message, which `jucp` does not show then), and a status whose digits are
divided between two messages is reported by its first digits (`ReportedStatus`:
a failure stays a failure).

## 4. Proofs

The only assumptions are the named ones on the constants (`NoneIsNoEntrant`,
`JobsAssumption`, `RemoteRunAssumption`, `NotebookAssumption`, `AuthAssumption`,
`ResetAssumption`, `PortsAssumption`, `TerminalsAssumption`,
`LifecycleAssumption`): they say that `None` is nobody's id, that bounds and
delays are natural numbers, which sets contain which or are disjoint, and, in
`RemoteRun`, that a status is a sequence of digits that begins with `0` only if
it is `0`. TLC evaluates each in the runs of its module. Every module named here
has its type invariant proved along with the rest.

*The heavy queue.* The inductive invariant is `QueueTypeOK /\ LeaseConsistent
/\ NoLostWakeup`. `LeaseConsistent` is needed for `NoLostWakeup`: when the holder
leaves, every waiting thread must be asleep or already notified, which only the
agreement of `waiting` with the threads gives; distinct positions in `waiting`
are needed so that taking the head removes its thread for good. `ImplementsFifo`
shows that initial states map to initial states and every step to a step of
`FifoLock` or a stutter: an `Enter` is a `Request` or an `Acquire`, a `Recheck`
a `Grant` or a stutter, a `Leave` a `Release`. `NobodyOvertakes` is what that
order means to a thread that waits: nobody gets in front of it, and each turn
that another one is given takes that one away from there.

*The jobs.* `JobsUseQueue` shows that every step is a step of the queue or leaves
it alone, which brings `QueueTypeOK` and `LeaseConsistent` of the queue here. With
`WorksUnderLease` (an ordered job works only while it holds the lease) they give
`OneHeavyAtATime`. `WorksUnderLease` follows from `TurnsOf`, which relates the place of a job's
thread to that of its turn: every step rests, moves the thread or moves the turn
(`JobMoves`), and so a job enters the queue once and gives its turn back after its
end only. `ImplementsExecutor` is proved action by action (`ExecutorStep`):
`QueueTurns` maps the operations of the queue to those of its turns under `LeaseConsistent`, and
`WorksUnderLease` says that whoever changes a status has the turn. A panicked job
ends its turn with the status `"running"`, which `SerialJobs` allows (`GiveBack`)
and a job that is still queued is denied. `TurnsInOrder` carries this on to
`FifoLock`. Everything about the table comes from `TableInv`. Its key part
is the chain of times that pruning has to respect: a job's entry is
dropped after `finished + Retention`; the final status was written by
`finished + LockDelay` (`Timely`); a client that still polls has asked before
that and at most `PollGap` ago (`Polling`). So if `Retention` covers both delays,
`ClientKnowsItsJob` holds for every clock, number of jobs and timeout.

*The remote run.* What the daemon has received is compared with what the command
has printed through an offset `o` (`Shape`): token `k` of the stream is noise or
echo before `o`, token `k - o` of `printed` after it, and then belongs to the
report. Sending the script establishes `o`, a message extends the stream, and
cutting output moves `o`, below zero too. Since printed output has neither marker
nor digits (`Clean`), the first marker followed by a digit is the report's, and
the digits after it are a beginning of the status: `ReportedStatus`. `ShellInv`
ties what was printed to one of the behaviours a command has; so the text
between the two marks of a download, if it has nothing but file content in it,
is the file (`PayloadInv`), an echo being followed by a marker that would have
ended the search. `OutcomeInv` keeps all this when the shell is gone, and
`ClientInv` is `ZeroMeansDone` at the client.

The same offset gives `OutputIsTail`, which compares positions: the text before
the report's marker is noise and echo up to `o`, and then what was printed. `Kept`
says what a cut has left: unless the output was too much, `o` is not negative and
nothing printed is gone; where it is negative, `Keep` pieces are still there. For
`StatusNotMissed`, `SeenInv` says what a wait has already looked at without an end: as long as
nothing was cut, a marker in it that is followed by anything stands behind an
echo, since otherwise it would be the report's, its digits would follow it and
the look would have been the last (`ReportIsFound`).

`AttemptsInv` counts the failures that attempts have cost: a websocket that ended
has used up one for each attempt so far. So a command is sent a second time only
after a failure (`AttemptsNeedFailures`), never because it was slow, printed too
much or exited badly.

`CallIsImplemented` takes all of it together: every step of the shell, the daemon
and the client is a step of `RemoteCall` or a stutter. The steps of the remote
side are the beginning and the end of a command (`RemoteCalls`), that of finding a
marker is a report, since what was found is a beginning of the command's status
(`FindMarkerReports`), and the client only knows the answer (`ClientCalls`).
`CallInv` says that a daemon that waits has a terminal and one that closes it has
an outcome. The bound on repetition comes from `AttemptsInv`.

*The notebook.* The key is `LockHeldWhileDeciding`, an equivalence: an operation
decides or records under `ensure_lock` exactly when it is the owner. Hence, as
long as no reset has recorded outside of the lock (`strayed`), there is at most
one writer, the file it fills is the one it truncated (`FilledAlone`), and nobody
who is about to provision can be overtaken by a record.

*The authentication cache.* What is sent after a rejection depends on many:
Chrome may renew its token between the extraction and the request, other clients
overwrite the file, tokens expire. Two facts about tokens carry
`RejectedAskChrome` over all of it (`ServerSteps`): no token that is not accepted is
ever accepted again, and Chrome gives up its token only when it is not. So the copy
stays Chrome's or useless, and `Forced` says where in an operation it has to be one
of both: from either `get_direct_auth` of the attempt to its request, a save in
between included. A token that is known has been issued
(`Known`), which is why a new one is nobody's.

*The reset.* `Past` says that what a reset lists has been used, and ids are
never used twice, so what is closed stays closed, if it ever was (`tried` aside), and
the fresh kernel has no flags. `Phases` orders setting flags, starting the kernel and checking it;
`Quiet` is the property from the last listing on.
`FlagCheckCannotFail` is the general form of the first difference above:
`"cleared": false`, the one thing that makes `juctl reset` fail after a reset,
is never reported for any number of kernels and failures.

*The ports.* `OneWriter`: the program that created the file is the only one to
write it, since `create_new` succeeds once; so a complete file is final
(`CompleteIsFinal`), which makes what a program has read stay true (`Agreed`).

*The terminals.* `Phases` gives the owners and the remote terminals of a session
by how far it has got, so that the step that takes the last owner away is the one
that drops the lease, and without a failed request the one that has deleted the
terminal. `QueueInv` says that a waiting session waits once, so that a grant
moves only the head. `SessionsUseFifo`: the sessions use the queue as `FifoLock`
wants, and it never refuses one that asks, whose guard would otherwise hide an
error of the model.

*The life cycle.* Two arguments share the type invariant. `ChromeInv` pairs each
handle with the process that launched its Chrome: between `should_launch` and the
launch the handle's Chrome stays dead (`Launching`), so that no live one is
overwritten, and behind `stop_chrome` a handle holds a stray one only
(`Exiting`). `QuietInv` follows a command that has the account to itself: there
is one process at most (`Alone`), where the command is says which one
(`Phase`), and so the port it tries is free (`Bound`), and a logout removes the
cache when nobody is left to save it.

*Why things end.* Liveness is out of the prover's reach, but its safety half is
not: that nobody goes round. `JobsAdvance`, `RequestsAdvance`, `OperationsAdvance`,
`SessionsAdvance`, `ResetsAdvance` and `CommandsAdvance` give each actor a place
that only grows (or a number of steps left that only falls, fourteen in a request, or
a loop that gets shorter) and say what may set it back: in an operation of the notebook a failure,
in a session a failed start (four at most), in a job, a request, a reset and a
command nothing. What is left for TLC, and for the fairness of section 3, is that
an actor which can take its next step takes it.

Only model-checked: liveness (`EveryEntrantGetsTurn`, the fairness part of
`ImplementsFifoLock`, `EveryJobEnds`, `EveryRequestEnds`, `EveryOperationEnds`,
`UsableNotebookRecorded`, `CacheUsableAgain`, `MaintenanceLetIn`,
`LeaseComesBack`, `EverySessionGetsLease`, `EveryCommandReturns`), which is out
of the prover's reach. A theorem is about `SafeSpec` (or a `Spec` without
fairness), which every fair behaviour satisfies.

## 5. What is not modelled

* In `Lifecycle`: other accounts, the SIGTERM of `--force`, the option `--visible` of `start`, `jud --status-only`, the profile that
  `logout` may keep, and a daemon that serves but does not answer a health request
  within 2 s. The launch of a Chrome and the store of its handle are one step.
* `jud --login` and `jud --once` as writers of `state.json` and `auth.json` beside
  the daemon: they have no `ensure_lock` of the daemon's, which `Lifecycle` shows,
  but their records are not in `NotebookContext`.
* In `AuthCache`: `ensure_lock` (clients interleave more than in the code), the
  two required cookies as two, `auth_refresh_margin` (a token counts as expired
  somewhat earlier), the `force` that `jud --login` begins with, and the parsing of `Set-Cookie` and paths.
* `input` and `resize` of terminals and `stats` of jobs, which change or read
  nothing that the properties tell apart; the copying loops of `jush`'s
  interactive mode.
* The CDP port file, which follows the pattern of the ports file with one port.
* Packing and unpacking of archives, parsing of paths and arguments, quoting,
  HTTP and CDP parsing: pure, and in the models a request that succeeds or fails.
  (`jucp` quotes a remote path, so that with the default `JUPYTER_CWD` of `~` a
  relative one is created under a directory that is literally called `~`.)
* The resource probe, a run with a fixed script whose JSON is passed on.

## 6. Plan

What is left, most important first:

1. The one-shot processes as writers of `state.json` in `NotebookContext`, whose
   run is near the limit of what can be explored with them.
2. A composition of `Jobs` with `RemoteRun`, to replace what `EveryJobEnds` assumes
   of a closure by what is known of a request. `RemoteCall` is the half of it that is there: what
   a job would use of a request.
3. A measure for the clients of `AuthCache`, whose attempts a deadline ends and not
   a count, like those of the other modules.
