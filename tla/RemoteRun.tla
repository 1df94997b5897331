------------------------------ MODULE RemoteRun ------------------------------
(***************************************************************************)
(* One request that works through a remote terminal: a run, an upload or a *)
(* download of src/daemon/mod.rs, the terminal's ApiTerminal               *)
(* (src/direct.rs), the marker that ends it (src/daemon/terminal.rs), and  *)
(* the client that waits for it (jush, jucp).  The daemon types a script   *)
(* into an interactive shell and reads what the terminal writes: its own   *)
(* input if the terminal echoes, the output of the command, and at last a  *)
(* random marker followed by the status.                                   *)
(* What the terminal has written is a sequence of tokens of which `seen`   *)
(* have arrived; a message of the websocket brings any number of them.     *)
(***************************************************************************)
EXTENDS Integers, Sequences, FiniteSets

CONSTANTS Kinds,      \* the requests: see AllKinds
          Output,     \* what the command prints, or the remote file's content
          Digits,     \* the characters of a status
          Statuses,   \* the statuses a command may end with
          Keep,       \* tokens of output that are kept when there are too many
          MaxFaults   \* bound: requests and connections that fail

\* plain: a run with no_prelude; archive: the upload of a directory.
AllKinds == {"run", "plain", "upload", "archive", "download"}

\* Tokens that are no output: noise (a banner, a prompt, echoed input), the
\* marker as it is echoed (no digit follows it), the marker as it is printed,
\* the marks around a downloaded file, and the message of a failed command.
Marks == {"noise", "echo", "mark", "nl", "begin", "end", "err"}
Text == {Output[i] : i \in DOMAIN Output}
Tokens == Marks \cup Digits \cup Text

\* Failure: also how jush and jucp end when a request of theirs fails.
Success == <<"0">>
Failure == <<"1">>

ASSUME RemoteRunAssumption ==
  /\ Kinds \subseteq AllKinds
  /\ Marks \cap (Digits \cup Text) = {} /\ Digits \cap Text = {}
  /\ Output \in Seq(Text)
  /\ Statuses \subseteq Seq(Digits) \ {<<>>}
  /\ Success \in Statuses /\ Failure \in Statuses
  /\ \A s \in Statuses : s[1] = "0" => s = Success   \* "%s" of $?
  /\ Keep \in Nat /\ MaxFaults \in Nat

VARIABLES
  kind,      \* the request
  pc,        \* where the daemon is
  attempt,   \* of the two attempts of run_command_inner and upload_inner
  socket,    \* the websocket of the attempt's terminal
  server,    \* the attempts whose terminal is on the server
  echoing,   \* the terminal echoes its input
  typed,     \* what has been sent to the shell and not been executed
  shell,     \* what the shell does
  script,    \* what the command will still print
  status,    \* the status it will end with, <<>> if it never ends
  stored,    \* what the command has made of an upload's destination
  printed,   \* history: what the command has printed
  stream,    \* what the terminal has written, less what was dropped
  seen,      \* how much of it has arrived
  outcome,   \* what the daemon reports
  client,    \* what jush or jucp has made of it
  faults

commandVars == <<script, status, stored, printed>>
remoteVars == <<echoing, typed, shell, commandVars>>
daemonVars == <<kind, pc, attempt, seen, outcome>>
vars == <<daemonVars, socket, server, remoteVars, stream, client, faults>>

Pending == [by |-> "none", exit |-> <<>>, text |-> <<>>]
Errored == [by |-> "error", exit |-> Failure, text |-> <<>>]
Waiting == [exit |-> <<>>, file |-> <<>>]

\* Timed out: the daemon reports 124, and jush ends with it when it gives up.
TimedOut == <<"1", "2", "4">>
Exits == Seq(Digits \cup {"1", "2", "4"})

Pcs == {"context", "start", "connect", "banner", "settle", "wait", "close", "done", "panicked"}
Shells == {"none", "starting", "ready", "running", "ended", "hung"}
Causes == {"none", "status", "timeout", "error"}

\* The type invariant: two attempts at most, and `seen` is within the stream.
TypeOK ==
  /\ kind \in Kinds /\ pc \in Pcs /\ attempt \in 1..2
  /\ socket \in {"none", "open", "closed", "broken"}
  /\ server \subseteq 1..2
  /\ echoing \in BOOLEAN
  /\ typed \in Seq({"stty", "script"})
  /\ shell \in Shells
  /\ script \in Seq(Tokens) /\ printed \in Seq(Tokens) /\ stream \in Seq(Tokens)
  /\ status \in Statuses \cup {<<>>}
  /\ stored \in {"none", "old", "cut", "whole"}
  /\ seen \in 0..Len(stream)
  /\ outcome \in [by : Causes, exit : Exits, text : Seq(Tokens)]
  /\ client \in [exit : Exits, file : Seq(Tokens)]
  /\ faults \in 0..MaxFaults

Init ==
  /\ kind \in Kinds
  /\ pc = "context" /\ attempt = 1
  /\ socket = "none" /\ server = {}
  /\ echoing = TRUE /\ typed = <<>> /\ shell = "none"
  /\ script = <<>> /\ status = <<>> /\ stored = "none" /\ printed = <<>>
  /\ stream = <<>> /\ seen = 0
  /\ outcome = Pending /\ client = Waiting
  /\ faults = 0

-----------------------------------------------------------------------------
(* The remote side. *)

\* What a command may do: print, leave an upload's destination in some state,
\* and end with a status or never (<<>>).
Behaves(out, s, dest) == [out |-> out, status |-> s, stored |-> dest]
Prefixes == {SubSeq(Output, 1, n) : n \in 0..Len(Output)}

\* A command that reads its input swallows the rest of the script: the
\* terminal shows it, and it never ends.
RunBehaviours ==
  {Behaves(p, s, "none") : p \in Prefixes, s \in Statuses \cup {<<>>}}
  \cup {Behaves(<<"echo">>, <<>>, "none")}

\* base64 -d > destination; chmod destination: the status is that of chmod, which
\* only needs a destination of this user's.  One that was there before ("old") may
\* be a directory, or not be writable; then nothing is written.
UploadBehaviours ==
  {Behaves(<<>>, Success, "whole"), Behaves(<<>>, <<>>, "cut")}
  \cup {Behaves(<<"err">>, Success, dest) : dest \in {"old", "cut"}}
  \cup {Behaves(<<"err">>, Failure, dest) : dest \in {"none", "old", "cut", "whole"}}

\* base64 -d | tar -xzf -: the status is that of tar.
ArchiveBehaviours ==
  {Behaves(<<>>, Success, "whole"), Behaves(<<"err">>, Failure, "cut"),
   Behaves(<<>>, <<>>, "cut")}

\* The file between two marks; what fails there is a message in the same
\* stream, and the status is that of the last printf.
DownloadBehaviours ==
  {Behaves(<<"begin">> \o Output \o <<"end">>, Success, "none"),
   Behaves(<<"err">>, Failure, "none")}
  \cup {Behaves(<<"begin">> \o p \o <<"err", "end">>, Success, "none") : p \in Prefixes}
  \cup {Behaves(<<"begin">> \o p, <<>>, "none") : p \in Prefixes}

Behaviours ==
  IF kind = "upload" THEN UploadBehaviours
  ELSE IF kind = "archive" THEN ArchiveBehaviours
  ELSE IF kind = "download" THEN DownloadBehaviours
  ELSE RunBehaviours

\* The echo of the script; that of a download shows the quoted marks too.
Echo == IF kind = "download" THEN <<"begin", "noise", "end", "echo">> ELSE <<"echo">>

\* The terminal writes, if the websocket still brings it to the daemon.
Writes(tokens) == stream' = IF socket = "open" THEN stream \o tokens ELSE stream

ShellStarts ==
  /\ shell = "starting"
  /\ shell' = "ready"
  /\ Writes(<<"noise">>)
  /\ UNCHANGED <<daemonVars, socket, server, echoing, typed, commandVars, client, faults>>

\* stty -echo; export PS1='' PS2=''
SttyRuns ==
  /\ shell = "ready" /\ typed # <<>> /\ Head(typed) = "stty"
  /\ typed' = Tail(typed)
  /\ echoing' = FALSE
  /\ UNCHANGED <<daemonVars, socket, server, shell, commandVars, stream, client, faults>>

CommandBegins ==
  /\ shell = "ready" /\ typed # <<>> /\ Head(typed) = "script"
  /\ typed' = Tail(typed)
  /\ shell' = "running"
  /\ \E b \in Behaviours : script' = b.out /\ status' = b.status /\ stored' = b.stored
  /\ printed' = <<>>
  /\ UNCHANGED <<daemonVars, socket, server, echoing, stream, client, faults>>

CommandPrints ==
  /\ shell = "running" /\ script # <<>>
  /\ script' = Tail(script)
  /\ printed' = Append(printed, Head(script))
  /\ Writes(<<Head(script)>>)
  /\ UNCHANGED <<daemonVars, socket, server, echoing, typed, shell, status, stored, client, faults>>

\* __jud_run_status=$?; printf '<marker>%s\n' "$__jud_run_status"
Report == <<"mark">> \o status \o <<"nl">>
CommandEnds ==
  /\ shell = "running" /\ script = <<>>
  /\ IF status = <<>>
     THEN shell' = "hung" /\ UNCHANGED stream
     ELSE shell' = "ended" /\ Writes(Report)
  /\ UNCHANGED <<daemonVars, socket, server, echoing, typed, commandVars, client, faults>>

\* The websocket ends with a close frame, which recv_text takes for silence,
\* or breaks, which is an error of the next read or write.
SocketEnds ==
  /\ socket = "open" /\ faults < MaxFaults
  /\ faults' = faults + 1
  /\ socket' \in {"closed", "broken"}
  /\ UNCHANGED <<daemonVars, server, remoteVars, stream, client>>

-----------------------------------------------------------------------------
(* An attempt of the daemon. *)

Fault == faults < MaxFaults /\ faults' = faults + 1

\* A second attempt follows a first error, on another notebook.
MutAlwaysAgain == pc' = "context" /\ attempt' = 2 /\ outcome' = Pending
NextAttempt ==
  IF attempt = 1
  THEN pc' = "context" /\ attempt' = 2 /\ outcome' = Pending
  ELSE pc' = "done" /\ attempt' = attempt /\ outcome' = Errored

Context ==
  /\ pc = "context"
  /\ \/ pc' = "start" /\ UNCHANGED <<outcome, faults>>
     \/ pc' = "done" /\ outcome' = Errored /\ Fault
  /\ UNCHANGED <<kind, attempt, seen, socket, server, remoteVars, stream, client>>

\* ApiTerminal::start: POST /api/terminals,
Create ==
  /\ pc = "start"
  /\ pc' = "connect" /\ server' = server \cup {attempt}
  /\ UNCHANGED <<kind, attempt, seen, outcome, socket, remoteVars, stream, client, faults>>

\* and WebSocket::connect.
Connect ==
  /\ pc = "connect"
  /\ pc' = "banner"
  /\ socket' = "open"
  /\ echoing' = TRUE /\ typed' = <<>> /\ shell' = "starting"
  /\ script' = <<>> /\ status' = <<>> /\ stored' = "none" /\ printed' = <<>>
  /\ stream' = <<>> /\ seen' = 0
  /\ UNCHANGED <<kind, attempt, outcome, server, client, faults>>

\* Without an answer to the POST the terminal has no name, and close() sends no
\* DELETE.
CreateFails ==
  /\ pc = "start" /\ Fault
  /\ server' \in {server, server \cup {attempt}}
  /\ NextAttempt
  /\ UNCHANGED <<kind, seen, socket, remoteVars, stream, client>>

Errs == pc' = "close" /\ outcome' = Errored

ConnectFails ==
  /\ pc = "connect" /\ Fault
  /\ Errs
  /\ UNCHANGED <<kind, attempt, seen, socket, server, remoteVars, stream, client>>

SocketErrs ==
  /\ \/ pc \in {"banner", "settle", "wait"} /\ socket = "broken"
     \/ pc \in {"banner", "settle"} /\ socket = "closed"
  /\ Errs
  /\ UNCHANGED <<kind, attempt, seen, socket, server, remoteVars, stream, client, faults>>

\* drain_api_terminal drops what arrives in a fixed time; then the next text
\* is sent, which is lost if the websocket has ended.
DrainAndSend(what, echo) ==
  /\ seen' = 0
  /\ \E n \in 0..Len(stream) :
       LET rest == SubSeq(stream, n + 1, Len(stream))
       IN  IF socket = "open"
           THEN /\ typed' = Append(typed, what)
                /\ stream' = IF echoing THEN rest \o echo ELSE rest
           ELSE typed' = typed /\ stream' = rest

SendPrelude ==
  /\ pc = "banner" /\ kind # "plain"
  /\ pc' = "settle"
  /\ DrainAndSend("stty", <<"noise">>)
  /\ UNCHANGED <<kind, attempt, outcome, socket, server, echoing, shell, commandVars, client, faults>>

SendScript ==
  /\ pc = IF kind = "plain" THEN "banner" ELSE "settle"
  /\ pc' = "wait"
  /\ DrainAndSend("script", Echo)
  /\ UNCHANGED <<kind, attempt, outcome, socket, server, echoing, shell, commandVars, client, faults>>

\* find_marker: the first occurrence of the marker is at i, and the digits
\* after it end at j.
IsMarker(t) == t \in {"mark", "echo"}
MarkerAt(c, i) == /\ i \in DOMAIN c /\ IsMarker(c[i])
                  /\ \A k \in 1..(i - 1) : ~IsMarker(c[k])
MutDigitsMissing(c, i, j) == /\ j \in i..Len(c)
                             /\ \A k \in (i + 1)..j : c[k] \in Digits
                             /\ j < Len(c) => c[j + 1] \notin Digits
MutDigitsAndLine(c, i, j) == /\ j \in (i + 1)..Len(c)
                             /\ \A k \in (i + 1)..j : c[k] \in Digits
                             /\ j < Len(c) /\ c[j + 1] = "nl"
DigitsEnd(c, i, j) == /\ j \in (i + 1)..Len(c)
                      /\ \A k \in (i + 1)..j : c[k] \in Digits
                      /\ j < Len(c) => c[j + 1] \notin Digits
Finds(c) == \E i, j \in DOMAIN c : MarkerAt(c, i) /\ DigitsEnd(c, i, j)

Size(c) == Cardinality({i \in DOMAIN c : c[i] \in Text})

\* One round of wait_api_command_marker: a message, or none, completes a marker,
Received(n) == SubSeq(stream, 1, n)
FindMarker ==
  /\ pc = "wait"
  /\ \E n \in seen..Len(stream) : \E i, j \in 1..n :
       /\ MarkerAt(Received(n), i) /\ DigitsEnd(Received(n), i, j)
       /\ outcome' = [by |-> "status", exit |-> SubSeq(stream, i + 1, j),
                      text |-> SubSeq(stream, 1, i - 1)]
       /\ seen' = n
  /\ pc' = "close"
  /\ UNCHANGED <<kind, attempt, socket, server, remoteVars, stream, client, faults>>

\* or it does not; too much output is cut down to its end.
MutTooMuch(n) == Size(Received(n)) > Keep
TooMuch(n) == Size(Received(n)) > 2 * Keep
Cut(n, c) == Size(SubSeq(stream, c + 1, n)) = Keep
ReadMore ==
  /\ pc = "wait"
  /\ \E n \in (seen + 1)..Len(stream) :
       /\ ~Finds(Received(n))
       /\ IF TooMuch(n)
          THEN \E c \in 0..n : /\ Cut(n, c)
                               /\ stream' = SubSeq(stream, c + 1, Len(stream))
                               /\ seen' = n - c
          ELSE seen' = n /\ UNCHANGED stream
  /\ UNCHANGED <<kind, pc, attempt, outcome, socket, server, remoteVars, client, faults>>

\* split_off panics if the cut is within a character: the thread is gone, and
\* the terminal stays.
SplitPanics ==
  /\ pc = "wait"
  /\ \E n \in (seen + 1)..Len(stream) : ~Finds(Received(n)) /\ TooMuch(n)
  /\ pc' = "panicked"
  /\ UNCHANGED <<kind, attempt, seen, outcome, socket, server, remoteVars, stream, client, faults>>

MutDeadlineOfOpen ==
  /\ pc = "wait" /\ socket = "open"
  /\ pc' = "close"
  /\ outcome' = [by |-> "timeout", exit |-> TimedOut, text |-> SubSeq(stream, 1, seen)]
  /\ UNCHANGED <<kind, attempt, seen, socket, server, remoteVars, stream, client, faults>>
MutDeadlineErrs ==
  /\ pc = "wait"
  /\ Errs
  /\ UNCHANGED <<kind, attempt, seen, socket, server, remoteVars, stream, client, faults>>
Deadline ==
  /\ pc = "wait"
  /\ pc' = "close"
  /\ outcome' = [by |-> "timeout", exit |-> TimedOut, text |-> SubSeq(stream, 1, seen)]
  /\ UNCHANGED <<kind, attempt, seen, socket, server, remoteVars, stream, client, faults>>

\* ApiTerminal::close: the DELETE ends the shell too; its error is ignored.
MutCloseAfterStatus ==
  /\ pc = "close"
  /\ socket' = "none" /\ stream' = <<>> /\ seen' = 0
  /\ \/ /\ server' = server \ (IF outcome.by = "timeout" THEN {} ELSE {attempt})
        /\ shell' = "none" /\ UNCHANGED faults
     \/ Fault /\ UNCHANGED <<server, shell>>
  /\ IF outcome.by = "error" THEN NextAttempt
     ELSE pc' = "done" /\ UNCHANGED <<attempt, outcome>>
  /\ UNCHANGED <<kind, echoing, typed, commandVars, client>>
Close ==
  /\ pc = "close"
  /\ socket' = "none" /\ stream' = <<>> /\ seen' = 0
  /\ \/ server' = server \ {attempt} /\ shell' = "none" /\ UNCHANGED faults
     \/ Fault /\ UNCHANGED <<server, shell>>
  /\ IF outcome.by = "error" THEN NextAttempt
     ELSE pc' = "done" /\ UNCHANGED <<attempt, outcome>>
  /\ UNCHANGED <<kind, echoing, typed, commandVars, client>>

-----------------------------------------------------------------------------
(* The client. *)

FirstAt(c, t, i) == i \in DOMAIN c /\ c[i] = t /\ \A k \in 1..(i - 1) : c[k] # t

\* download_inner and the decoding in jucp: what is between the two marks, if
\* it is nothing but base64.
MutPayloadUnchecked(c, b, e) ==
  /\ FirstAt(c, "begin", b) /\ FirstAt(c, "end", e) /\ b < e
Payload(c, b, e) ==
  /\ FirstAt(c, "begin", b) /\ FirstAt(c, "end", e) /\ b < e
  /\ \A i \in (b + 1)..(e - 1) : c[i] \in Text

\* jush ends with the status; jucp with 0 or 1.
Succeeded == outcome.exit = Success
Answer(exit, file) == client' = [exit |-> exit, file |-> file]
Decoded(b, e) == Succeeded /\ Payload(outcome.text, b, e)
Hears ==
  \/ kind \in {"run", "plain"} /\ Answer(outcome.exit, <<>>)
  \/ kind \in {"upload", "archive"} /\ Answer(IF Succeeded THEN Success ELSE Failure, <<>>)
  \/ /\ kind = "download"
     /\ \E b, e \in DOMAIN outcome.text :
          Decoded(b, e) /\ Answer(Success, SubSeq(outcome.text, b + 1, e - 1))
  \/ /\ kind = "download"
     /\ ~\E b, e \in DOMAIN outcome.text : Decoded(b, e)
     /\ Answer(Failure, <<>>)

ClientHears ==
  /\ client = Waiting /\ pc = "done"
  /\ Hears
  /\ UNCHANGED <<daemonVars, socket, server, remoteVars, stream, faults>>

\* wait_job_result: a request to the daemon fails, the job's thread is gone, or
\* the client's own deadline passes, which jush reports as 124.
ClientGivesUp ==
  /\ client = Waiting /\ pc # "done"
  /\ \/ Answer(Failure, <<>>)
     \/ kind \in {"run", "plain"} /\ Answer(TimedOut, <<>>)
  /\ UNCHANGED <<daemonVars, socket, server, remoteVars, stream, faults>>

-----------------------------------------------------------------------------
Remote == ShellStarts \/ SttyRuns \/ CommandBegins \/ CommandPrints \/ CommandEnds \/ SocketEnds

Daemon ==
  \/ Context \/ Create \/ CreateFails \/ Connect \/ ConnectFails \/ SocketErrs
  \/ SendPrelude \/ SendScript \/ FindMarker \/ ReadMore \/ SplitPanics
  \/ Deadline \/ Close

Client == ClientHears \/ ClientGivesUp

Next == Remote \/ Daemon \/ Client

SafeSpec == Init /\ [][Next]_vars

(***************************************************************************)
(* The daemon's requests, and the reads and writes of an open websocket,   *)
(* have timeouts (runtime.rs 32-33), and its deadline comes; so does the    *)
(* client's.  Nothing is assumed of the remote side, nor of Connect:        *)
(* WebSocket::connect has no timeout before it sets those two.             *)
(***************************************************************************)
Fairness ==
  /\ WF_vars(Context) /\ WF_vars(Create) /\ WF_vars(SendPrelude) /\ WF_vars(SendScript)
  /\ WF_vars(SocketErrs) /\ WF_vars(Deadline) /\ WF_vars(Close) /\ WF_vars(Client)

Spec == SafeSpec /\ Fairness

-----------------------------------------------------------------------------
\* Exit code 0 is as true as its script makes it, whatever is cut, lost, echoed,
\* late or tried again: the command of the last attempt ended with 0, a downloaded
\* file is the remote one, and an archive was extracted.  For an uploaded file it
\* says that there is something at the destination: if that is not the file, the
\* daemon's answer holds a message of it, which jucp does not show
\* (mod.rs 859-1089, terminal.rs 184-236, jucp.rs 195-299).
ZeroMeansDone == client.exit = Success =>
  /\ outcome.by = "status" /\ status = Success /\ script = <<>>
  /\ kind = "download" => client.file = Output
  /\ kind = "archive" => stored = "whole"
  /\ kind = "upload" =>
       /\ stored # "none"
       /\ stored # "whole" => \E k \in DOMAIN outcome.text : outcome.text[k] = "err"

\* A status the daemon reports is the one of the command of its last attempt,
\* which has ended, or the beginning of it, if a message ended between its
\* digits: then a failure stays a failure (terminal.rs 227-236).
ReportedStatus == outcome.by = "status" =>
  /\ script = <<>> /\ status # <<>>
  /\ outcome.exit # <<>> /\ Len(outcome.exit) <= Len(status)
  /\ \A k \in DOMAIN outcome.exit : outcome.exit[k] = status[k]

\* What is reported as output ends with what the command has printed, token by
\* token up to the last one, and before that there is no output; if it was too
\* much, the beginning is missing, but not more than that (terminal.rs 198-210).
OutputIsTail == outcome.by = "status" =>
  LET text == outcome.text  before == Len(text) - Len(printed)
  IN  /\ \A k \in DOMAIN text : IF k <= before THEN text[k] \notin Text
                                ELSE text[k] = printed[k - before]
      /\ Size(printed) <= 2 * Keep => before >= 0
      /\ before < 0 => Keep <= Size(text)

\* The wait ends with 124 only if no status has arrived, or the terminal has
\* echoed the marker before it, however messages divide the marker from its
\* digits (terminal.rs 191-197, 225-231).  If output was cut the deadline may
\* come before the next look.
StatusNotMissed == outcome.by = "timeout" /\ Size(printed) <= 2 * Keep =>
  \A i \in DOMAIN outcome.text :
    outcome.text[i] = "mark" /\ i < Len(outcome.text)
      => \E k \in 1..i : outcome.text[k] = "echo"

\* A request is tried again only after a failed request or connection of its own
\* attempt: a command that was slow, hung, failed or printed too much is never
\* executed a second time, nor answered by an error (mod.rs 870-924, 988-1052).
RepeatedOnlyAfterFailure ==
  /\ faults >= attempt - 1
  /\ outcome.by = "error" => faults >= attempt

\* No terminal stays on the server if no request failed and no thread
\* panicked, after a timeout and a retry too (direct.rs 998-1018).
NothingLeftBehind == pc = "done" /\ faults = 0 => server = {}

\* Every client ends, and every request, whatever the remote side does: a hung
\* command, a closed websocket and a terminal that only echoes included.  The one
\* place where a request may stay for ever is the websocket's connect.
EveryRequestEnds ==
  /\ <>(client # Waiting)
  /\ <>(pc \in {"done", "panicked"}) \/ <>[](pc = "connect")
-----------------------------------------------------------------------------
(* What RemoteCall leaves out: how the daemon knows what it answers.  A     *)
(* command counts as long as its terminal is there, or its status is the   *)
(* answer; an error is the answer when there is no further attempt.        *)

Ended(s, dest) == [state |-> "ended", status |-> s, stored |-> dest]
Unended(state) == [state |-> state, status |-> <<>>, stored |-> "none"]
CallCommand ==
  IF outcome.by = "status" \/ (socket # "none" /\ shell = "ended") THEN Ended(status, stored)
  ELSE IF socket # "none" /\ shell \in {"running", "hung"} THEN Unended("running")
  ELSE Unended("absent")

CallAnswer ==
  IF outcome.by = "error" /\ pc # "done" THEN [by |-> "none", exit |-> <<>>]
  ELSE [by |-> outcome.by, exit |-> outcome.exit]

Call == INSTANCE RemoteCall
          WITH command <- CallCommand, answer <- CallAnswer, failures <- faults

\* Whatever the terminal echoes, cuts, delays or loses, a request is a command
\* that runs at most once in an attempt, a second attempt after a failure only,
\* and one final answer: what its client ends with follows from that answer
\* alone, a file that it has is the remote one (mod.rs 859-1089, terminal.rs
\* 184-236, jucp.rs 282-299).
ImplementsCall == Call!SafeSpec
=============================================================================
