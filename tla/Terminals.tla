------------------------------ MODULE Terminals ------------------------------
(***************************************************************************)
(* Interactive terminals: LiveTerminal and its pump                        *)
(* (src/daemon/terminal.rs), the service's map of terminals                *)
(* (src/daemon/mod.rs) and the stream sessions (src/daemon/stream.rs).     *)
(* A heavy session holds the lease of the heavy queue, here the abstract   *)
(* FifoLock that HeavyQueue implements, for as long as anyone holds its    *)
(* terminal: the map, a request in progress, the thread that opens or      *)
(* closes it.  A step is one critical section or one remote request.       *)
(***************************************************************************)
EXTENDS Naturals, Sequences

CONSTANTS Api,        \* sessions of /v1/terminal/*, each a LiveTerminal
          Streams,    \* sessions of the TCP stream
          Heavy,      \* those that ask for the lease
          None,
          MaxFaults   \* bound: failures of remote requests

ASSUME TerminalsAssumption ==
  /\ Api \cap Streams = {} /\ Heavy \subseteq Api \cup Streams
  /\ None \notin Api \cup Streams /\ MaxFaults \in Nat

Sessions == Api \cup Streams

VARIABLES
  queue, holder,  \* the heavy queue
  pc,        \* how far the thread that opens the session has got
  try,       \* starts that failed: two for each of two LiveTerminal::new
  refs,      \* who holds the terminal (the Arc's owners)
  mapLock,   \* the session being closed under the map's write lock
  closed,    \* LiveTerminal.closed
  pump,      \* the pump thread
  output,    \* whether `output` holds a chunk
  reader,    \* a /v1/terminal/read in progress
  remote,    \* terminals of the session on the Jupyter server
  faulty,    \* history: a request of the session failed
  faults

lockVars == <<queue, holder>>
liveVars == <<closed, pump, output, reader>>
vars == <<lockVars, pc, try, refs, mapLock, liveVars, remote, faulty, faults>>

Lease == INSTANCE FifoLock WITH Entrants <- Heavy

\* The type invariant; at most two LiveTerminal::new of two starts each.
TypeOK ==
  /\ queue \in Seq(Heavy) /\ holder \in Heavy \cup {None}
  /\ pc \in [Sessions -> {"idle", "queued", "opening", "prompt", "open", "ended"}]
  /\ try \in [Sessions -> 0..4]
  /\ refs \in [Sessions -> SUBSET {"opener", "map", "reader", "closer", "stream"}]
  /\ mapLock \in Api \cup {None}
  /\ closed \in [Sessions -> BOOLEAN]
  /\ pump \in [Sessions -> {"none", "running", "ended"}]
  /\ output \in [Sessions -> BOOLEAN]
  /\ reader \in [Sessions -> {"none", "checked", "waiting", "woken"}]
  /\ remote \in [Sessions -> 0..4]
  /\ faulty \in [Sessions -> BOOLEAN] /\ faults \in 0..MaxFaults

Init ==
  /\ Lease!Init
  /\ pc = [s \in Sessions |-> "idle"]
  /\ try = [s \in Sessions |-> 0]
  /\ refs = [s \in Sessions |-> {}]
  /\ mapLock = None
  /\ closed = [s \in Sessions |-> FALSE]
  /\ pump = [s \in Sessions |-> "none"]
  /\ output = [s \in Sessions |-> FALSE]
  /\ reader = [s \in Sessions |-> "none"]
  /\ remote = [s \in Sessions |-> 0]
  /\ faulty = [s \in Sessions |-> FALSE] /\ faults = 0

-----------------------------------------------------------------------------
Goto(s, label) == pc' = [pc EXCEPT ![s] = label]
Fault(s) ==
  /\ faults < MaxFaults
  /\ faults' = faults + 1 /\ faulty' = [faulty EXCEPT ![s] = TRUE]
NoFault == UNCHANGED <<faulty, faults>>

\* The last owner of the lease drops it.
DropLease(s) == IF holder = s THEN Lease!Release ELSE UNCHANGED lockVars

\* The owners of the terminal change; with the last one goes the lease.
MutOwnersKeepLease(s, owners) ==
  /\ refs' = [refs EXCEPT ![s] = owners]
  /\ IF owners = {} /\ s \in Streams THEN DropLease(s) ELSE UNCHANGED lockVars
Owners(s, owners) ==
  /\ refs' = [refs EXCEPT ![s] = owners]
  /\ IF owners = {} THEN DropLease(s) ELSE UNCHANGED lockVars

\* open_terminal and handle_stream: a heavy session takes its turn first.
Enter(s) ==
  /\ pc[s] = "idle"
  /\ IF s \in Heavy
     THEN \/ Lease!Acquire(s) /\ Goto(s, "opening")
          \/ Lease!Request(s) /\ Goto(s, "queued")
     ELSE Goto(s, "opening") /\ UNCHANGED lockVars
  /\ NoFault /\ UNCHANGED <<try, refs, mapLock, liveVars, remote>>

Granted ==
  /\ Lease!Grant
  /\ Goto(Head(queue), "opening")
  /\ NoFault /\ UNCHANGED <<try, refs, mapLock, liveVars, remote>>

\* ApiTerminal::start: the server creates the terminal, the socket is opened.
Start(s) ==
  /\ pc[s] = "opening"
  /\ remote' = [remote EXCEPT ![s] = @ + 1]
  /\ Owners(s, {"opener"})
  /\ pump' = [pump EXCEPT ![s] = IF s \in Api THEN "running" ELSE @]
  /\ Goto(s, "prompt")
  /\ NoFault /\ UNCHANGED <<try, mapLock, closed, output, reader>>

\* It fails, before or after the server created one.  A stream gives up.
\* LiveTerminal::new asks for another notebook and tries again; when it gives
\* up its lease is dropped, and open_terminal goes back to the queue once.
MutRetryKeepsLease(s) ==
  /\ pc[s] = "opening" /\ Fault(s)
  /\ remote' \in {remote, [remote EXCEPT ![s] = @ + 1]}
  /\ try' = [try EXCEPT ![s] = @ + 1]
  /\ \/ /\ s \in Api /\ try[s] \in {0, 2}
        /\ UNCHANGED <<lockVars, pc>>
     \/ /\ s \in Api /\ try[s] = 1
        /\ Goto(s, "idle") /\ UNCHANGED lockVars
     \/ /\ s \in Streams \/ try[s] = 3
        /\ Goto(s, "ended") /\ DropLease(s)
  /\ UNCHANGED <<refs, mapLock, liveVars>>
StartFails(s) ==
  /\ pc[s] = "opening" /\ Fault(s)
  /\ remote' \in {remote, [remote EXCEPT ![s] = @ + 1]}
  /\ try' = [try EXCEPT ![s] = @ + 1]
  /\ \/ /\ s \in Api /\ try[s] \in {0, 2}
        /\ UNCHANGED <<lockVars, pc>>
     \/ /\ s \in Api /\ try[s] = 1
        /\ Goto(s, "idle") /\ DropLease(s)
     \/ /\ s \in Streams \/ try[s] = 3
        /\ Goto(s, "ended") /\ DropLease(s)
  /\ UNCHANGED <<refs, mapLock, liveVars>>

\* No context: LiveTerminal::new returns at once, without its second try.
ContextFails(s) ==
  /\ pc[s] = "opening" /\ Fault(s) /\ DropLease(s)
  /\ IF s \in Api /\ try[s] < 2
     THEN Goto(s, "idle") /\ try' = [try EXCEPT ![s] = 2]
     ELSE Goto(s, "ended") /\ UNCHANGED try
  /\ UNCHANGED <<refs, mapLock, liveVars, remote>>

\* The prompt is ready: the terminal goes into the map, or the stream's loop
\* begins.
Ready(s) ==
  /\ pc[s] = "prompt"
  /\ s \in Api => mapLock = None
  /\ Owners(s, IF s \in Api THEN {"map"} ELSE {"stream"})
  /\ Goto(s, "open")
  /\ NoFault /\ UNCHANGED <<try, mapLock, liveVars, remote>>

\* Input of the prompt, or the stream's first answer, fails: the terminal is
\* dropped without close, its pump still running.
PromptFails(s) ==
  /\ pc[s] = "prompt" /\ Fault(s)
  /\ Owners(s, {}) /\ Goto(s, "ended")
  /\ UNCHANGED <<try, mapLock, liveVars, remote>>

-----------------------------------------------------------------------------
(* The pump and the reader of a LiveTerminal. *)

Woken(s) == IF reader[s] = "waiting" THEN "woken" ELSE reader[s]
OutputFree(s) == reader[s] # "checked"    \* the reader holds output's mutex

PumpOutput(s) ==
  /\ pump[s] = "running" /\ ~closed[s] /\ OutputFree(s)
  /\ output' = [output EXCEPT ![s] = TRUE]
  /\ reader' = [reader EXCEPT ![s] = Woken(s)]
  /\ NoFault /\ UNCHANGED <<lockVars, pc, try, refs, mapLock, closed, pump, remote>>

\* read_once errs: a last chunk, closed, and the end of the loop.
PumpFails(s) ==
  /\ pump[s] = "running" /\ ~closed[s] /\ OutputFree(s) /\ Fault(s)
  /\ output' = [output EXCEPT ![s] = TRUE]
  /\ reader' = [reader EXCEPT ![s] = Woken(s)]
  /\ closed' = [closed EXCEPT ![s] = TRUE]
  /\ pump' = [pump EXCEPT ![s] = "ended"]
  /\ UNCHANGED <<lockVars, pc, try, refs, mapLock, remote>>

PumpStops(s) ==
  /\ pump[s] = "running" /\ closed[s]
  /\ pump' = [pump EXCEPT ![s] = "ended"]
  /\ NoFault
  /\ UNCHANGED <<lockVars, pc, try, refs, mapLock, closed, output, reader, remote>>

\* A read finds the terminal in the map; if there is nothing to return it
\* will wait, but it has not let go of the mutex yet.
ReadChecks(s) ==
  /\ "map" \in refs[s] /\ mapLock = None /\ reader[s] = "none"
  /\ \/ /\ output[s] \/ closed[s]
        /\ output' = [output EXCEPT ![s] = FALSE]
        /\ UNCHANGED <<lockVars, refs, reader>>
     \/ /\ ~output[s] /\ ~closed[s]
        /\ reader' = [reader EXCEPT ![s] = "checked"]
        /\ Owners(s, refs[s] \cup {"reader"}) /\ UNCHANGED output
  /\ NoFault /\ UNCHANGED <<pc, try, mapLock, closed, pump, remote>>

ReadWaits(s) ==
  /\ reader[s] = "checked"
  /\ reader' = [reader EXCEPT ![s] = "waiting"]
  /\ NoFault
  /\ UNCHANGED <<lockVars, pc, try, refs, mapLock, closed, pump, output, remote>>

\* wait_timeout ends without a notification.
MutReadNeverTimesOut(s) == FALSE
ReadTimesOut(s) ==
  /\ reader[s] = "waiting"
  /\ reader' = [reader EXCEPT ![s] = "woken"]
  /\ NoFault
  /\ UNCHANGED <<lockVars, pc, try, refs, mapLock, closed, pump, output, remote>>

ReadReturns(s) ==
  /\ reader[s] = "woken"
  /\ reader' = [reader EXCEPT ![s] = "none"]
  /\ output' = [output EXCEPT ![s] = FALSE]
  /\ Owners(s, refs[s] \ {"reader"})
  /\ NoFault /\ UNCHANGED <<pc, try, mapLock, closed, pump, remote>>

-----------------------------------------------------------------------------
(* Ends. *)

\* close_terminal, by its client, a reset or the end of the daemon: out of the
\* map, closed, and notify_all without output's mutex.
CloseBegins(s) ==
  /\ "map" \in refs[s] /\ mapLock = None
  /\ mapLock' = s
  /\ Owners(s, (refs[s] \ {"map"}) \cup {"closer"})
  /\ closed' = [closed EXCEPT ![s] = TRUE]
  /\ reader' = [reader EXCEPT ![s] = Woken(s)]
  /\ NoFault /\ UNCHANGED <<pc, try, pump, output, remote>>

\* ApiTerminal::close: the answer to the DELETE is ignored.
MutNotDeleted(s) == UNCHANGED remote /\ NoFault
Deleted(s) == \/ remote' = [remote EXCEPT ![s] = IF @ = 0 THEN 0 ELSE @ - 1] /\ NoFault
              \/ UNCHANGED remote /\ Fault(s)

CloseEnds(s) ==
  /\ mapLock = s
  /\ mapLock' = None
  /\ Deleted(s)
  /\ Owners(s, refs[s] \ {"closer"})
  /\ Goto(s, "ended")
  /\ UNCHANGED <<try, liveVars>>

\* The stream's client is gone: the loop ends and closes the terminal.
StreamEnds(s) ==
  /\ s \in Streams /\ pc[s] = "open"
  /\ Deleted(s)
  /\ Owners(s, {}) /\ Goto(s, "ended")
  /\ UNCHANGED <<try, mapLock, liveVars>>

\* An error of either side leaves the loop without close.
StreamFails(s) ==
  /\ s \in Streams /\ pc[s] = "open" /\ Fault(s)
  /\ Owners(s, {}) /\ Goto(s, "ended")
  /\ UNCHANGED <<try, mapLock, liveVars, remote>>

\* The server ends a terminal of its own (or a reset deletes it).
RemoteEnds(s) ==
  /\ remote[s] > 0 /\ Fault(s)
  /\ remote' = [remote EXCEPT ![s] = @ - 1]
  /\ UNCHANGED <<lockVars, pc, try, refs, mapLock, liveVars>>

Opening(s) == Start(s) \/ StartFails(s) \/ ContextFails(s) \/ Ready(s) \/ PromptFails(s)
Reading(s) == ReadWaits(s) \/ ReadTimesOut(s) \/ ReadReturns(s)

Next ==
  \/ Granted
  \/ \E s \in Sessions : Enter(s) \/ Opening(s) \/ RemoteEnds(s)
  \/ \E s \in Api : \/ PumpOutput(s) \/ PumpFails(s) \/ PumpStops(s)
                    \/ ReadChecks(s) \/ Reading(s) \/ CloseBegins(s) \/ CloseEnds(s)
  \/ \E s \in Streams : StreamEnds(s) \/ StreamFails(s)

(***************************************************************************)
(* Threads are scheduled and requests end; wait_timeout times out; and     *)
(* every client closes its terminal or its connection in the end, which is *)
(* the one thing the daemon relies on: nothing takes a lease away.         *)
(***************************************************************************)
Fairness ==
  /\ WF_vars(Granted)
  /\ \A s \in Sessions : WF_vars(Opening(s)) /\ WF_vars(Enter(s))
  /\ \A s \in Api :
       /\ WF_vars(Reading(s)) /\ WF_vars(PumpStops(s))
       /\ SF_vars(CloseBegins(s)) /\ WF_vars(CloseEnds(s))
  /\ \A s \in Streams : WF_vars(StreamEnds(s))

SafeSpec == Init /\ [][Next]_vars

Spec == SafeSpec /\ Fairness

-----------------------------------------------------------------------------
\* A heavy session has the lease exactly while it opens or someone still holds
\* its terminal: it is neither dropped under a terminal in use nor kept by one
\* that is gone (terminal.rs 20, 24-64; mod.rs 1361-1412; stream.rs 76-120).
LeaseFollowsTerminal == \A s \in Heavy :
  holder = s <=> pc[s] = "opening" \/ refs[s] # {}

\* Without a failure nothing is left on the server: whoever lets go of a
\* terminal last has closed it (terminal.rs 157-161, stream.rs 134).
NothingLeftBehind == \A s \in Sessions :
  refs[s] = {} /\ ~faulty[s] => remote[s] = 0

\* Once a terminal is being closed, or its pump has failed and its client
\* closes it, its lease comes back, though a reader can miss the notification
\* of close (terminal.rs 105-119, 157-161) and hold the terminal meanwhile.
LeaseComesBack == \A s \in Api \cap Heavy : closed[s] ~> holder # s

\* Every session that asks for the lease gets it.
EverySessionGetsLease == \A s \in Heavy : pc[s] = "queued" ~> pc[s] = "opening"
=============================================================================
