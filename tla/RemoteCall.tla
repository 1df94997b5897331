------------------------------ MODULE RemoteCall ------------------------------
(***************************************************************************)
(* What a run, an upload or a download promises to whoever waits for it: a *)
(* command that is executed at most once for every attempt, a second       *)
(* attempt only after a failure, and one answer, which is the command's    *)
(* status, a timeout or an error.  There are no terminals, websockets,     *)
(* messages or markers here; module RemoteRun is shown to implement this   *)
(* one.                                                                    *)
(***************************************************************************)
EXTENDS Naturals, Sequences

CONSTANTS Kinds, Output, Statuses

Success == <<"0">>
Failure == <<"1">>
TimedOut == <<"1", "2", "4">>

VARIABLES kind,      \* the request
          attempt,
          command,   \* that of this attempt
          answer,    \* the daemon's, final once it is given
          client,    \* how jush or jucp ends, and the file it has then
          failures   \* of requests and connections so far

vars == <<kind, attempt, command, answer, client, failures>>

\* A command is absent, running, or ended: with a status, and an upload's
\* destination in some state.
Command(state, status, stored) == [state |-> state, status |-> status, stored |-> stored]
Absent == Command("absent", <<>>, "none")
Running == Command("running", <<>>, "none")
Ended(status, stored) == Command("ended", status, stored)

Answered(by, exit) == [by |-> by, exit |-> exit]
Pending == Answered("none", <<>>)
Left(exit, file) == [exit |-> exit, file |-> file]
Waiting == Left(<<>>, <<>>)

Init ==
  /\ kind \in Kinds /\ attempt = 1
  /\ command = Absent /\ answer = Pending /\ client = Waiting
  /\ failures = 0

Begin ==
  /\ command = Absent
  /\ command' = Running
  /\ UNCHANGED <<kind, attempt, answer, client>>

\* The status 0 of an upload says that there is something at its destination, if
\* only what was there before; that of an archive that there is all of it.
End ==
  /\ command = Running
  /\ \E status \in Statuses, stored \in {"none", "old", "cut", "whole"} :
       /\ status = Success => /\ kind = "upload" => stored # "none"
                              /\ kind = "archive" => stored = "whole"
       /\ command' = Ended(status, stored)
  /\ UNCHANGED <<kind, attempt, answer, client>>

\* The beginning of a status is never taken for another one of success.
Report ==
  /\ answer = Pending /\ command.state = "ended"
  /\ \E n \in 1..Len(command.status) :
       answer' = Answered("status", SubSeq(command.status, 1, n))
  /\ answer'.exit = Success => command.status = Success
  /\ UNCHANGED <<kind, attempt, command, client>>

TimeOut ==
  /\ answer = Pending
  /\ answer' = Answered("timeout", TimedOut)
  /\ UNCHANGED <<kind, attempt, command, client>>

\* The terminal is closed behind a timeout: the command is nobody's any more.
Abandon ==
  /\ answer.by = "timeout"
  /\ command' = Absent
  /\ UNCHANGED <<kind, attempt, answer, client>>

\* Each attempt takes a failure of its own to be followed by another, or by an
\* error.
Retry ==
  /\ answer = Pending /\ attempt = 1 /\ failures' >= 1
  /\ attempt' = 2 /\ command' = Absent
  /\ UNCHANGED <<kind, answer, client>>

Fail ==
  /\ answer = Pending /\ failures' >= attempt
  /\ answer' = Answered("error", Failure) /\ command' = Absent
  /\ UNCHANGED <<kind, attempt, client>>

\* jush ends with the status, jucp with 0 or 1; a file that jucp has is whole.
Hear ==
  /\ client = Waiting /\ answer # Pending
  /\ \/ kind \in {"run", "plain"} /\ client' = Left(answer.exit, <<>>)
     \/ /\ kind \in {"upload", "archive"}
        /\ client' = Left(IF answer.exit = Success THEN Success ELSE Failure, <<>>)
     \/ /\ kind = "download" /\ answer.exit = Success
        /\ client' = Left(Success, Output)
     \/ kind = "download" /\ client' = Left(Failure, <<>>)
  /\ UNCHANGED <<kind, attempt, command, answer>>

\* Without an answer both end with 1, but jush at its deadline with 124.
GiveUp ==
  /\ client = Waiting
  /\ \/ client' = Left(Failure, <<>>)
     \/ kind \in {"run", "plain"} /\ client' = Left(TimedOut, <<>>)
  /\ UNCHANGED <<kind, attempt, command, answer>>

\* A request or a connection may fail at any time, and in any step.
Next ==
  /\ failures' \in {failures, failures + 1}
  /\ \/ UNCHANGED <<kind, attempt, command, answer, client>>
     \/ Begin \/ End \/ Report \/ TimeOut \/ Abandon \/ Retry \/ Fail
     \/ Hear \/ GiveUp

SafeSpec == Init /\ [][Next]_vars
=============================================================================
