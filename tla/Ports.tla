-------------------------------- MODULE Ports --------------------------------
(***************************************************************************)
(* The API/stream ports of an account: account_endpoint_ports of           *)
(* src/config.rs, called by every program that talks to an account's       *)
(* daemon and by the daemon itself.  The first caller picks a free pair of *)
(* neighbouring ports and persists it in the account's ports file, which   *)
(* the others read.  A step is one bind or one access to the file.         *)
(***************************************************************************)
EXTENDS Naturals, Sequences

CONSTANTS Accounts,
          Programs,     \* processes that resolve an account's ports
          Daemons,      \* those that also listen on them
          AccountOf,    \* the account each of them is started for
          PortCount,    \* the pool is the ports 0..PortCount-1
          Offset,       \* where the hash of each account starts the search
          None,
          MaxCrashes    \* bound: programs that end while they write the file

ASSUME PortsAssumption ==
  /\ Daemons \subseteq Programs /\ AccountOf \in [Programs -> Accounts]
  /\ PortCount \in Nat \ {0} /\ Offset \in [Accounts -> 0..PortCount - 1]
  /\ None \notin Programs /\ MaxCrashes \in Nat

VARIABLES
  file,     \* each account's ports file
  bound,    \* which program a port is bound by
  pc,
  window,   \* how far find_available_pair has got
  pair,     \* the pair a program has found or read
  settled,  \* history: the file was complete when the call began, or when it came
            \* to the creation of the file, or the call wrote it itself
  crashes

vars == <<file, bound, pc, window, pair, settled, crashes>>

PoolPorts == 0..PortCount - 1
Pairs == PoolPorts \X PoolPorts
Unwritten == {<<>>, <<"partial">>}      \* no file; created but not written

\* The type invariant: what is persisted lies in the pool.
TypeOK ==
  /\ file \in [Accounts -> Pairs \cup Unwritten]
  /\ bound \in [PoolPorts -> Programs \cup {None}]
  /\ pc \in [Programs -> {"idle", "read", "bindApi", "bindStream", "create",
                          "write", "reread", "resolved", "serving"}]
  /\ window \in [Programs -> 0..PortCount]
  /\ pair \in [Programs -> Pairs \cup {<<>>}]
  /\ settled \in [Programs -> BOOLEAN]
  /\ crashes \in 0..MaxCrashes

Init ==
  /\ file = [a \in Accounts |-> <<>>]
  /\ bound = [n \in PoolPorts |-> None]
  /\ pc = [p \in Programs |-> "idle"]
  /\ window = [p \in Programs |-> 0]
  /\ pair = [p \in Programs |-> <<>>]
  /\ settled = [p \in Programs |-> FALSE]
  /\ crashes = 0

-----------------------------------------------------------------------------
Goto(p, label) == pc' = [pc EXCEPT ![p] = label]
FileOf(p) == file[AccountOf[p]]
Readable(f) == f \notin Unwritten

\* The i-th pair of neighbours in the search order of an account; the pair
\* that wraps around the pool is skipped.
OrderedPort(a, i) == (Offset[a] + i) % PortCount
Window(p, i) == <<OrderedPort(AccountOf[p], i), OrderedPort(AccountOf[p], i + 1)>>
Adjacent(w) == w[2] = w[1] + 1

\* A program asks for its account's ports.
Call(p) ==
  /\ pc[p] = "idle"
  /\ Goto(p, "read")
  /\ settled' = [settled EXCEPT ![p] = Readable(FileOf(p))]
  /\ window' = [window EXCEPT ![p] = 0]
  /\ pair' = [pair EXCEPT ![p] = <<>>]
  /\ UNCHANGED <<file, bound, crashes>>

\* read_pair_file: a missing or incomplete file counts as none.
Read(p) ==
  /\ pc[p] = "read"
  /\ IF Readable(FileOf(p))
     THEN pair' = [pair EXCEPT ![p] = FileOf(p)] /\ Goto(p, "resolved")
     ELSE Goto(p, "bindApi") /\ UNCHANGED pair
  /\ UNCHANGED <<file, bound, window, settled, crashes>>

NextWindow(p) == window' = [window EXCEPT ![p] = @ + 1]

\* find_available_pair: hold the API port while the stream port is tried.
BindApi(p) ==
  /\ pc[p] = "bindApi" /\ window[p] < PortCount - 1
  /\ LET w == Window(p, window[p])
     IN  \/ /\ Adjacent(w) /\ bound[w[1]] = None
            /\ bound' = [bound EXCEPT ![w[1]] = p]
            /\ Goto(p, "bindStream") /\ UNCHANGED window
         \/ /\ ~Adjacent(w) \/ bound[w[1]] # None
            /\ NextWindow(p) /\ UNCHANGED <<bound, pc>>
  /\ UNCHANGED <<file, pair, settled, crashes>>

BindStream(p) ==
  /\ pc[p] = "bindStream"
  /\ LET w == Window(p, window[p])
     IN  /\ bound' = [bound EXCEPT ![w[1]] = None]
         /\ \/ /\ bound[w[2]] = None
               /\ pair' = [pair EXCEPT ![p] = w]
               /\ Goto(p, "create") /\ UNCHANGED window
            \/ /\ bound[w[2]] # None
               /\ NextWindow(p) /\ Goto(p, "bindApi") /\ UNCHANGED pair
  /\ UNCHANGED <<file, settled, crashes>>

\* No pair of the pool is free: the call errs.
NoPair(p) ==
  /\ pc[p] = "bindApi" /\ window[p] = PortCount - 1
  /\ Goto(p, "idle")
  /\ UNCHANGED <<file, bound, window, pair, settled, crashes>>

\* write_pair_file: only the program that creates the file writes it.
MutCreateTruncates(p) ==
  /\ pc[p] = "create"
  /\ file' = [file EXCEPT ![AccountOf[p]] = <<"partial">>]
  /\ Goto(p, "write")
  /\ UNCHANGED <<bound, window, pair, settled, crashes>>
Create(p) ==
  /\ pc[p] = "create"
  /\ \/ /\ FileOf(p) = <<>>
        /\ file' = [file EXCEPT ![AccountOf[p]] = <<"partial">>]
        /\ Goto(p, "write")
     \/ /\ FileOf(p) # <<>>
        /\ Goto(p, "reread") /\ UNCHANGED file
  /\ settled' = [settled EXCEPT ![p] = Readable(FileOf(p))]
  /\ UNCHANGED <<bound, window, pair, crashes>>

Write(p) ==
  /\ pc[p] = "write"
  /\ file' = [file EXCEPT ![AccountOf[p]] = pair[p]]
  /\ Goto(p, "reread")
  /\ settled' = [settled EXCEPT ![p] = TRUE]
  /\ UNCHANGED <<bound, window, pair, crashes>>

\* What the file says now, or else the pair just found.
MutRereadForgotten(p) ==
  /\ pc[p] = "reread"
  /\ Goto(p, "resolved")
  /\ UNCHANGED <<file, bound, window, pair, settled, crashes>>
Reread(p) ==
  /\ pc[p] = "reread"
  /\ pair' = [pair EXCEPT ![p] = IF Readable(FileOf(p)) THEN FileOf(p) ELSE @]
  /\ Goto(p, "resolved")
  /\ UNCHANGED <<file, bound, window, settled, crashes>>

\* The program ends, or its write fails, before the file is written.
CrashWriting(p) ==
  /\ pc[p] = "write" /\ crashes < MaxCrashes
  /\ crashes' = crashes + 1
  /\ Goto(p, "idle")
  /\ UNCHANGED <<file, bound, window, pair, settled>>

\* A daemon listens on its API port, which must be free, and on its stream port
\* if that is free: without it the daemon serves its API all the same.
Serve(p) ==
  /\ p \in Daemons /\ pc[p] = "resolved"
  /\ bound[pair[p][1]] = None
  /\ bound' = [n \in PoolPorts |->
                 IF n \in {pair[p][1], pair[p][2]} /\ bound[n] = None THEN p ELSE bound[n]]
  /\ Goto(p, "serving")
  /\ UNCHANGED <<file, window, pair, settled, crashes>>

\* A client is done with the pair; a daemon cannot bind it, or stops.
Done(p) ==
  /\ pc[p] \in {"resolved", "serving"}
  /\ Goto(p, "idle")
  /\ bound' = [n \in PoolPorts |-> IF bound[n] = p THEN None ELSE bound[n]]
  /\ UNCHANGED <<file, window, pair, settled, crashes>>

Next == \E p \in Programs :
  \/ Call(p) \/ Read(p) \/ BindApi(p) \/ BindStream(p) \/ NoPair(p)
  \/ Create(p) \/ Write(p) \/ Reread(p) \/ CrashWriting(p)
  \/ Serve(p) \/ Done(p)

Spec == Init /\ [][Next]_vars

-----------------------------------------------------------------------------
\* The endpoints of an account stay the same once they are persisted, however
\* many programs look for a pair at the same time (config.rs 257-274).
PersistedForGood ==
  [][\A a \in Accounts : Readable(file[a]) => file'[a] = file[a]]_vars

\* The programs of an account agree on its pair, even when they race for the
\* file, find other ports free, or a daemon listens on the pair: whoever starts
\* with a complete file, loses the race to one, or writes it, goes on with the
\* pair in the file (config.rs 214-223).  The others read it before its write.
PersistedPairIsUsed == \A p \in Programs :
  pc[p] \in {"resolved", "serving"} /\ settled[p] => pair[p] = FileOf(p)

\* What README says of accounts: each has its own API/stream ports.
AccountsHaveOwnPorts == \A a, b \in Accounts :
  a # b /\ Readable(file[a]) /\ Readable(file[b])
    => {file[a][1], file[a][2]} \cap {file[b][1], file[b][2]} = {}
=============================================================================
