--------------------------- MODULE RemoteRun_proofs ---------------------------
(***************************************************************************)
(* What an exit code 0 means, for every command, output, status and number *)
(* of faults: proofs about RemoteRun.                                      *)
(* What has been read of a terminal is, from some offset on, what the      *)
(* command printed and then its report; before that there is noise and, if *)
(* the terminal echoes, a copy of the script in which the marker comes     *)
(* last.  Cutting output down moves the offset.                            *)
(***************************************************************************)
EXTENDS RemoteRun, SequenceTheorems, FiniteSetTheorems, TLAPS

\* Token k of c, if the command's output begins after token o.
Early == {"noise", "begin", "end", "echo"}
EchoFollows(c, o, k) == \E h \in DOMAIN c : k <= h /\ h <= o /\ c[h] = "echo"
Before(c, o, k) == k <= o =>
  /\ c[k] \in Early
  /\ c[k] \in {"begin", "end"} => EchoFollows(c, o, k)
During(c, o, k) == o < k /\ k <= o + Len(printed) => c[k] = printed[k - o]
After(c, o, k) == o + Len(printed) < k =>
  /\ shell = "ended"
  /\ k - o - Len(printed) \in DOMAIN Report
  /\ c[k] = Report[k - o - Len(printed)]
\* What has been cut is output, if there was too much, and Keep of it are left.
Kept(c, o) ==
  /\ Size(printed) <= 2 * Keep => 0 <= o
  /\ o < 0 => Keep <= Size(c)
Shape(c, o) ==
  /\ Kept(c, o)
  /\ \A k \in DOMAIN c : Before(c, o, k) /\ During(c, o, k) /\ After(c, o, k)
  /\ socket = "open" /\ shell \in {"starting", "ready", "running"}
       => Len(c) = o + Len(printed)

StreamInv ==
  /\ pc \in {"banner", "settle"} => \A k \in DOMAIN stream : stream[k] = "noise"
  /\ pc = "wait" => \E o \in Int : Shape(stream, o)

\* What a command prints, apart from its report, has no marker and no digit.
Clean == Tokens \ (Digits \cup {"mark"})

\* What the shell has done, by the time the daemon has sent.
ShellInv ==
  /\ script \in Seq(Clean) /\ printed \in Seq(Clean)
  /\ pc \in {"banner", "settle"} => shell \in {"starting", "ready"} /\ typed \in Seq({"stty"})
  /\ shell \in {"starting", "ready"} => printed = <<>>
  /\ shell = "ended" => script = <<>> /\ status # <<>>
  /\ shell \in {"running", "ended", "hung"} =>
       \E b \in Behaviours : b.out = printed \o script /\ b.status = status /\ b.stored = stored

\* A downloaded file that is cut out of the text is the remote one.
PayloadInv == kind = "download" /\ outcome.exit = Success =>
  \A b, e \in DOMAIN outcome.text : Payload(outcome.text, b, e)
    => SubSeq(outcome.text, b + 1, e - 1) = Output

OutcomeInv ==
  /\ pc \in {"context", "start", "connect", "banner", "settle", "wait", "panicked"}
       => outcome.by = "none"
  /\ outcome.by # "status" => outcome.exit # Success
  /\ outcome.by = "status" =>
       /\ shell \in {"ended", "none"}
       /\ ReportedStatus
       /\ \E b \in Behaviours : b.out = printed /\ b.status = status /\ b.stored = stored
       /\ PayloadInv

ClientInv == client.exit = Success => pc = "done" /\ ZeroMeansDone

\* What has arrived while the daemon waits has no status behind its first
\* marker; so a printed marker that is not at its end is behind an echo.
EchoBefore(c, n) == \A i \in DOMAIN c :
  i < n /\ c[i] = "mark" => \E k \in 1..i : c[k] = "echo"
SeenInv == pc = "wait" /\ Size(printed) <= 2 * Keep => EchoBefore(stream, seen)

IInv == /\ TypeOK /\ ShellInv /\ StreamInv /\ OutcomeInv /\ ClientInv
        /\ SeenInv /\ OutputIsTail /\ StatusNotMissed

-----------------------------------------------------------------------------
(* Sequences of tokens. *)

LEMMA SeqOfMore ==
  ASSUME NEW S, NEW T, S \subseteq T, NEW s \in Seq(S)
  PROVE s \in Seq(T)
<1>1. s \in [1..Len(s) -> T]
  OBVIOUS
<1>2. Len(s) \in Nat
  OBVIOUS
<1> QED
  BY <1>1, <1>2, SeqDef

LEMMA SubSeqFacts ==
  ASSUME NEW S, NEW s \in Seq(S), NEW m \in Nat \ {0}, NEW n \in 0..Len(s), m <= n + 1
  PROVE /\ SubSeq(s, m, n) \in Seq(S)
        /\ Len(SubSeq(s, m, n)) = n - m + 1
        /\ \A k \in 1..(n - m + 1) : SubSeq(s, m, n)[k] = s[m + k - 1]
  OBVIOUS

\* The same with bounded quantifiers, to be instantiated by Zenon.
LEMMA SubSeqOfTokens ==
  \A s \in Seq(Tokens) : \A m \in Nat \ {0} : \A n \in 0..Len(s) : m <= n + 1 =>
    /\ SubSeq(s, m, n) \in Seq(Tokens)
    /\ Len(SubSeq(s, m, n)) = n - m + 1
    /\ \A k \in 1..(n - m + 1) : SubSeq(s, m, n)[k] = s[m + k - 1]
  BY SubSeqFacts

\* Output that is found in another sequence, moved by o, is not more than there.
LEMMA SizeShifts ==
  ASSUME NEW c \in Seq(Tokens), NEW d \in Seq(Tokens), NEW o \in Int,
         \A k \in DOMAIN c : c[k] \in Text => k - o \in DOMAIN d /\ d[k - o] \in Text
  PROVE Size(c) \in Nat /\ Size(d) \in Nat /\ Size(c) <= Size(d)
<1> DEFINE S == {i \in DOMAIN c : c[i] \in Text}
           T == {i \in DOMAIN d : d[i] \in Text}
           f == [k \in S |-> k - o]
<1>1. IsFiniteSet(S) /\ IsFiniteSet(T)
  <2>1. Len(c) \in Int /\ Len(d) \in Int /\ DOMAIN c = 1..Len(c) /\ DOMAIN d = 1..Len(d)
    OBVIOUS
  <2>2. IsFiniteSet(DOMAIN c) /\ IsFiniteSet(DOMAIN d)
    BY <2>1, FS_Interval
  <2> QED
    BY <2>2, FS_Subset
<1>2. f \in Injection(S, T)
  <2>1. \A k \in S : k \in Int /\ k - o \in T
    OBVIOUS
  <2>2. f \in [S -> T]
    BY <2>1
  <2>3. \A k, m \in S : f[k] = f[m] => k = m
    BY <2>1
  <2> QED
    BY <2>2, <2>3 DEF Injection, IsInjective
<1>3. Cardinality(S) <= Cardinality(T)
  BY <1>1, <1>2, FS_Injection
<1>4. Cardinality(S) \in Nat /\ Cardinality(T) \in Nat
  BY <1>1, FS_CardinalityType
<1> QED
  BY <1>3, <1>4 DEF Size

LEMMA SizeGrows ==
  ASSUME NEW c \in Seq(Tokens), NEW d \in Seq(Tokens),
         \A k \in DOMAIN c : k \in DOMAIN d /\ d[k] = c[k]
  PROVE Size(c) \in Nat /\ Size(d) \in Nat /\ Size(c) <= Size(d)
<1>1. \A k \in DOMAIN c : c[k] \in Text => k - 0 \in DOMAIN d /\ d[k - 0] \in Text
  <2>1. \A k \in DOMAIN c : k - 0 = k
    OBVIOUS
  <2> QED
    BY <2>1
<1> QED
  BY <1>1, SizeShifts

\* Where the report begins, counted from token i before a digit.
LEMMA ReportOffset ==
  ASSUME NEW i \in Nat, NEW o \in Int, NEW L \in Nat, NEW n \in Nat, NEW m \in Int,
         m = i + 1 - o - L, m \in 2..(n + 1), m # 2
  PROVE o + L < i /\ i - o - L = m - 1 /\ m - 2 \in 1..n /\ (m - 2) + 1 = m - 1
  OBVIOUS

Behaviour == [out : Seq(Clean), status : Statuses \cup {<<>>}, stored : {"none", "old", "cut", "whole"}]

LEMMA TextIsClean ==
  /\ Output \in Seq(Clean) /\ Text \subseteq Clean
  /\ {"noise", "echo", "begin", "end", "err"} \subseteq Clean
  /\ Clean \subseteq Tokens /\ Digits \subseteq Tokens /\ Clean \cap Digits = {}
  /\ "mark" \in Tokens /\ "mark" \notin Clean /\ "mark" \notin Digits
<1> USE RemoteRunAssumption DEF Clean, Tokens, Marks
<1>1. Text \subseteq Clean
  OBVIOUS
<1>2. Output \in Seq(Clean)
  BY <1>1, SeqOfMore
<1> QED
  BY <1>1, <1>2

LEMMA PrefixIsClean ==
  ASSUME NEW p \in Prefixes
  PROVE p \in Seq(Clean)
<1>1. PICK n \in 0..Len(Output) : p = SubSeq(Output, 1, n)
  BY DEF Prefixes
<1> QED
  BY <1>1, TextIsClean, SubSeqFacts

LEMMA BehavioursAreClean ==
  ASSUME kind \in AllKinds
  PROVE Behaviours \subseteq Behaviour
<1> USE RemoteRunAssumption
<1> DEFINE Literal == {"noise", "echo", "begin", "end", "err"}
<1>1. \A t \in Literal : <<t>> \in Seq(Clean)
  BY TextIsClean
<1>2. <<>> \in Seq(Clean)
  OBVIOUS
<1>b. ASSUME NEW out \in Seq(Clean), NEW s \in Statuses \cup {<<>>},
             NEW dest \in {"none", "old", "cut", "whole"}
      PROVE Behaves(out, s, dest) \in Behaviour
  BY DEF Behaves, Behaviour
<1>3. RunBehaviours \subseteq Behaviour
  <2>1. Behaves(<<"echo">>, <<>>, "none") \in Behaviour
    BY <1>1, <1>b
  <2>2. \A p \in Prefixes, s \in Statuses \cup {<<>>} : Behaves(p, s, "none") \in Behaviour
    BY <1>b, PrefixIsClean
  <2> QED
    BY <2>1, <2>2 DEF RunBehaviours
<1>4. UploadBehaviours \subseteq Behaviour
  <2>1. Success \in Statuses /\ Failure \in Statuses
    BY DEF Success, Failure
  <2>2. \A s \in Statuses, dest \in {"none", "old", "cut", "whole"} :
          Behaves(<<"err">>, s, dest) \in Behaviour
    BY <1>1, <1>b
  <2>3. /\ Behaves(<<>>, Success, "whole") \in Behaviour
        /\ Behaves(<<>>, <<>>, "cut") \in Behaviour
    BY <1>2, <1>b, <2>1
  <2> QED
    BY <2>1, <2>2, <2>3 DEF UploadBehaviours
<1>5. ArchiveBehaviours \subseteq Behaviour
  BY <1>1, <1>2, <1>b DEF ArchiveBehaviours
<1>6. DownloadBehaviours \subseteq Behaviour
  <2>1. <<"begin">> \o Output \o <<"end">> \in Seq(Clean)
    BY <1>1, TextIsClean
  <2>2. ASSUME NEW p \in Prefixes PROVE <<"begin">> \o p \o <<"err", "end">> \in Seq(Clean)
    <3>1. <<"err", "end">> \in Seq(Clean)
      BY TextIsClean
    <3> QED
      BY <1>1, <3>1, PrefixIsClean
  <2>3. ASSUME NEW p \in Prefixes PROVE <<"begin">> \o p \in Seq(Clean)
    BY <1>1, PrefixIsClean
  <2>4. Behaves(<<"begin">> \o Output \o <<"end">>, Success, "none") \in Behaviour
    BY <1>b, <2>1
  <2>5. Behaves(<<"err">>, Failure, "none") \in Behaviour
    BY <1>1, <1>b
  <2>6. \A p \in Prefixes : Behaves(<<"begin">> \o p \o <<"err", "end">>, Success, "none") \in Behaviour
    BY <1>b, <2>2
  <2>7. \A p \in Prefixes : Behaves(<<"begin">> \o p, <<>>, "none") \in Behaviour
    BY <1>b, <2>3
  <2> QED
    BY <2>4, <2>5, <2>6, <2>7 DEF DownloadBehaviours
<1> QED
  BY <1>3, <1>4, <1>5, <1>6 DEF Behaviours
-----------------------------------------------------------------------------
(* Types. *)

LEMMA ExitsAreTyped ==
  /\ Statuses \subseteq Exits /\ TimedOut \in Exits /\ <<>> \in Exits
  /\ \A s \in Statuses \cup {<<>>} : <<"mark">> \o s \o <<"nl">> \in Seq(Tokens)
<1> USE RemoteRunAssumption
<1>1. ASSUME NEW s \in Statuses PROVE s \in Exits /\ s \in Seq(Tokens)
  <2>1. s \in Seq(Digits)
    OBVIOUS
  <2>2. Digits \subseteq Digits \cup {"1", "2", "4"} /\ Digits \subseteq Tokens
    BY DEF Tokens
  <2> QED
    BY <2>1, <2>2, SeqOfMore DEF Exits
<1>2. TimedOut \in Exits
  BY DEF TimedOut, Exits
<1>3. ASSUME NEW s \in Seq(Tokens) PROVE <<"mark">> \o s \o <<"nl">> \in Seq(Tokens)
  <2>1. <<"mark">> \in Seq(Tokens) /\ <<"nl">> \in Seq(Tokens)
    BY DEF Tokens, Marks
  <2> QED
    BY <2>1, ConcatProperties
<1>4. <<>> \in Seq(Tokens) /\ <<>> \in Exits
  BY DEF Exits
<1> QED
  BY <1>1, <1>2, <1>3, <1>4

LEMMA WritesTyped ==
  ASSUME stream \in Seq(Tokens), NEW t \in Seq(Tokens), Writes(t)
  PROVE stream' \in Seq(Tokens) /\ Len(stream) <= Len(stream')
<1>1. Len(stream) <= Len(stream \o t) /\ stream \o t \in Seq(Tokens)
  BY ConcatProperties
<1> QED
  BY <1>1 DEF Writes

LEMMA DrainTyped ==
  ASSUME stream \in Seq(Tokens), typed \in Seq({"stty", "script"}),
         NEW what \in {"stty", "script"}, NEW echo \in Seq(Tokens), DrainAndSend(what, echo)
  PROVE stream' \in Seq(Tokens) /\ typed' \in Seq({"stty", "script"})
<1>1. PICK n \in 0..Len(stream) :
        /\ typed' = Append(typed, what) \/ typed' = typed
        /\ \/ stream' = SubSeq(stream, n + 1, Len(stream))
           \/ stream' = SubSeq(stream, n + 1, Len(stream)) \o echo
  BY Zenon DEF DrainAndSend
<1>2. SubSeq(stream, n + 1, Len(stream)) \in Seq(Tokens)
  BY SubSeqFacts
<1>3. SubSeq(stream, n + 1, Len(stream)) \o echo \in Seq(Tokens)
  BY <1>2, ConcatProperties
<1>4. Append(typed, what) \in Seq({"stty", "script"})
  OBVIOUS
<1> QED
  BY <1>1, <1>2, <1>3, <1>4

LEMMA EchoTyped == Echo \in Seq(Tokens) /\ <<"noise">> \in Seq(Tokens)
<1>1. <<"noise">> \in Seq(Tokens) /\ <<"echo">> \in Seq(Tokens)
  BY DEF Tokens, Marks
<1>2. <<"begin", "noise", "end", "echo">> \in Seq(Tokens)
  BY DEF Tokens, Marks
<1> QED
  BY <1>1, <1>2 DEF Echo

LEMMA TypeOKInvariant == TypeOK /\ [Next]_vars => TypeOK'
<1> SUFFICES ASSUME TypeOK, [Next]_vars PROVE TypeOK'
  OBVIOUS
<1> USE RemoteRunAssumption DEF TypeOK
<1>s. /\ stream \in Seq(Tokens) /\ typed \in Seq({"stty", "script"})
      /\ Len(stream) \in Nat /\ seen \in Nat /\ kind \in AllKinds
  OBVIOUS
<1>p. /\ Pending \in [by : Causes, exit : Exits, text : Seq(Tokens)]
      /\ Errored \in [by : Causes, exit : Exits, text : Seq(Tokens)]
  <2>1. <<>> \in Seq(Tokens) /\ <<>> \in Exits /\ Failure \in Exits
    BY ExitsAreTyped
  <2> QED
    BY <2>1 DEF Pending, Errored, Causes
<1>d. daemonVars' = daemonVars => kind' = kind /\ pc' = pc /\ attempt' = attempt /\ seen' = seen /\ outcome' = outcome
  BY DEF daemonVars
<1>c. commandVars' = commandVars => script' = script /\ status' = status /\ stored' = stored /\ printed' = printed
  BY DEF commandVars
<1>r. remoteVars' = remoteVars => echoing' = echoing /\ typed' = typed /\ shell' = shell /\ commandVars' = commandVars
  BY DEF remoteVars
<1>n. NextAttempt => /\ pc' \in {"context", "done"} /\ attempt' \in 1..2
                     /\ outcome' \in [by : Causes, exit : Exits, text : Seq(Tokens)]
  <2>1. CASE attempt = 1
    BY <1>p, <2>1 DEF NextAttempt
  <2>2. CASE attempt # 1
    BY <1>p, <2>2 DEF NextAttempt
  <2> QED
    BY <2>1, <2>2
<1>1. CASE ShellStarts
  <2>1. stream' \in Seq(Tokens) /\ Len(stream) <= Len(stream')
    BY <1>1, <1>s, WritesTyped, EchoTyped DEF ShellStarts
  <2>2. seen' \in 0..Len(stream')
    BY <1>1, <1>s, <1>d, <2>1 DEF ShellStarts
  <2>3. shell' \in Shells
    BY <1>1 DEF ShellStarts, Shells
  <2> QED
    BY <1>1, <1>d, <1>c, <2>1, <2>2, <2>3 DEF ShellStarts
<1>2. CASE SttyRuns
  <2>1. typed' \in Seq({"stty", "script"})
    BY <1>2, <1>s, HeadTailProperties DEF SttyRuns
  <2> QED
    BY <1>2, <1>d, <1>c, <2>1 DEF SttyRuns
<1>3. CASE CommandBegins
  <2>1. PICK b \in Behaviours : script' = b.out /\ status' = b.status /\ stored' = b.stored
    BY <1>3 DEF CommandBegins
  <2>2. b \in Behaviour
    BY <1>s, BehavioursAreClean
  <2>3. script' \in Seq(Tokens)
    BY <2>1, <2>2, TextIsClean, SeqOfMore DEF Behaviour
  <2>4. typed' \in Seq({"stty", "script"})
    BY <1>3, <1>s, HeadTailProperties DEF CommandBegins
  <2> QED
    BY <1>3, <1>d, <2>1, <2>2, <2>3, <2>4 DEF CommandBegins, Behaviour, Shells
<1>4. CASE CommandPrints
  <2>1. script' \in Seq(Tokens) /\ Head(script) \in Tokens
    BY <1>4, HeadTailProperties DEF CommandPrints
  <2>2. printed' \in Seq(Tokens) /\ <<Head(script)>> \in Seq(Tokens)
    BY <1>4, <2>1 DEF CommandPrints
  <2>3. stream' \in Seq(Tokens) /\ Len(stream) <= Len(stream')
    BY <1>4, <1>s, <2>2, WritesTyped DEF CommandPrints
  <2>4. seen' \in 0..Len(stream')
    BY <1>4, <1>s, <1>d, <2>3 DEF CommandPrints
  <2> QED
    BY <1>4, <1>d, <2>1, <2>2, <2>3, <2>4 DEF CommandPrints
<1>5. CASE CommandEnds
  <2>1. stream' \in Seq(Tokens) /\ Len(stream) <= Len(stream')
    <3>1. CASE status = <<>>
      BY <1>5, <1>s, <3>1 DEF CommandEnds
    <3>2. CASE status # <<>>
      <4>1. Report \in Seq(Tokens)
        BY ExitsAreTyped DEF Report
      <4> QED
        BY <1>5, <1>s, <3>2, <4>1, WritesTyped DEF CommandEnds
    <3> QED
      BY <3>1, <3>2
  <2>2. seen' \in 0..Len(stream')
    BY <1>5, <1>s, <1>d, <2>1 DEF CommandEnds
  <2>3. shell' \in Shells
    BY <1>5 DEF CommandEnds, Shells
  <2> QED
    BY <1>5, <1>d, <1>c, <2>1, <2>2, <2>3 DEF CommandEnds
<1>6. CASE SocketEnds
  BY <1>6, <1>d, <1>r, <1>c DEF SocketEnds
<1>7. CASE Context
  <2>1. pc' \in Pcs /\ outcome' \in [by : Causes, exit : Exits, text : Seq(Tokens)]
    BY <1>7, <1>p DEF Context, Pcs
  <2>2. faults' \in 0..MaxFaults
    BY <1>7 DEF Context, Fault
  <2>3. UNCHANGED <<kind, attempt, seen, socket, server, remoteVars, stream, client>>
    BY <1>7 DEF Context
  <2> QED
    BY <1>r, <1>c, <2>1, <2>2, <2>3
<1>22. CASE Create
  BY <1>22, <1>r, <1>c DEF Create, Pcs
<1>8. CASE Connect
  <2>1. pc' \in Pcs /\ shell' \in Shells /\ server' = server /\ socket' = "open"
    BY <1>8 DEF Connect, Pcs, Shells
  <2>2. /\ typed' = <<>> /\ script' = <<>> /\ printed' = <<>> /\ stream' = <<>>
        /\ status' = <<>> /\ stored' = "none" /\ seen' = 0 /\ echoing' = TRUE
    BY <1>8 DEF Connect
  <2>3. UNCHANGED <<kind, attempt, outcome, client, faults>>
    BY <1>8 DEF Connect
  <2>4. /\ typed' \in Seq({"stty", "script"})
        /\ script' \in Seq(Tokens) /\ printed' \in Seq(Tokens) /\ stream' \in Seq(Tokens)
    BY <2>2
  <2>5. seen' \in 0..Len(stream')
    BY <2>2
  <2> QED
    BY <2>1, <2>2, <2>3, <2>4, <2>5
<1>9. CASE CreateFails
  BY <1>9, <1>r, <1>c, <1>n DEF CreateFails, Fault, Pcs
<1>10. CASE ConnectFails
  BY <1>10, <1>r, <1>c, <1>p DEF ConnectFails, Errs, Fault, Pcs
<1>11. CASE SocketErrs
  BY <1>11, <1>r, <1>c, <1>p DEF SocketErrs, Errs, Pcs
<1>12. CASE SendPrelude
  <2>1. stream' \in Seq(Tokens) /\ typed' \in Seq({"stty", "script"})
    BY <1>12, <1>s, DrainTyped, EchoTyped DEF SendPrelude
  <2>2. seen' \in 0..Len(stream')
    BY <1>12, <2>1 DEF SendPrelude, DrainAndSend
  <2> QED
    BY <1>12, <1>c, <2>1, <2>2 DEF SendPrelude, Pcs
<1>13. CASE SendScript
  <2>1. stream' \in Seq(Tokens) /\ typed' \in Seq({"stty", "script"})
    BY <1>13, <1>s, DrainTyped, EchoTyped DEF SendScript
  <2>2. seen' \in 0..Len(stream')
    BY <1>13, <2>1 DEF SendScript, DrainAndSend
  <2> QED
    BY <1>13, <1>c, <2>1, <2>2 DEF SendScript, Pcs
<1>14. CASE FindMarker
  <2>0. PICK n \in seen..Len(stream) : \E i, j \in 1..n :
          /\ DigitsEnd(Received(n), i, j)
          /\ outcome' = [by |-> "status", exit |-> SubSeq(stream, i + 1, j),
                         text |-> SubSeq(stream, 1, i - 1)]
          /\ seen' = n
    BY <1>14 DEF FindMarker
  <2>1. PICK i \in 1..n, j \in 1..n :
          /\ DigitsEnd(Received(n), i, j)
          /\ outcome' = [by |-> "status", exit |-> SubSeq(stream, i + 1, j),
                         text |-> SubSeq(stream, 1, i - 1)]
          /\ seen' = n
    BY <2>0
  <2>2. Received(n) \in Seq(Tokens) /\ Len(Received(n)) = n
    BY <1>s, SubSeqFacts DEF Received
  <2>3. \A k \in 1..n : Received(n)[k] = stream[k]
    BY <1>s, SubSeqFacts DEF Received
  <2>4. i + 1 <= j /\ \A k \in (i + 1)..j : stream[k] \in Digits
    BY <2>1, <2>2, <2>3 DEF DigitsEnd
  <2>5. SubSeq(stream, i + 1, j) \in Seq(Digits)
    BY <1>s, <2>1, <2>4, SubSeqProperties
  <2>6. SubSeq(stream, i + 1, j) \in Exits
    BY <2>5, SeqOfMore DEF Exits
  <2>7. SubSeq(stream, 1, i - 1) \in Seq(Tokens)
    <3>1. i - 1 \in 0..Len(stream)
      BY <1>s
    <3> QED
      BY <1>s, <3>1, SubSeqFacts
  <2>8. outcome' \in [by : Causes, exit : Exits, text : Seq(Tokens)]
    BY <2>1, <2>6, <2>7 DEF Causes
  <2>9. seen' \in 0..Len(stream)
    BY <1>s, <2>1
  <2> QED
    BY <1>14, <1>r, <1>c, <2>8, <2>9 DEF FindMarker, Pcs
<1>15. CASE ReadMore
  <2>1. PICK n \in (seen + 1)..Len(stream) :
          \/ seen' = n /\ stream' = stream
          \/ \E c \in 0..n : /\ stream' = SubSeq(stream, c + 1, Len(stream))
                             /\ seen' = n - c
    BY <1>15 DEF ReadMore
  <2>2. stream' \in Seq(Tokens) /\ seen' \in 0..Len(stream')
    <3>1. CASE seen' = n /\ stream' = stream
      BY <1>s, <2>1, <3>1
    <3>2. ASSUME NEW c \in 0..n, stream' = SubSeq(stream, c + 1, Len(stream)), seen' = n - c
          PROVE stream' \in Seq(Tokens) /\ seen' \in 0..Len(stream')
      <4>a. c + 1 \in Nat \ {0} /\ Len(stream) \in 0..Len(stream) /\ c + 1 <= Len(stream) + 1
        BY <1>s
      <4>1. Len(stream') = Len(stream) - (c + 1) + 1 /\ stream' \in Seq(Tokens)
        BY <1>s, <3>2, <4>a, SubSeqFacts
      <4> QED
        BY <1>s, <2>1, <3>2, <4>1
    <3> QED
      BY <2>1, <3>1, <3>2
  <2> QED
    BY <1>15, <1>r, <1>c, <2>2 DEF ReadMore
<1>16. CASE SplitPanics
  BY <1>16, <1>r, <1>c DEF SplitPanics, Pcs
<1>17. CASE Deadline
  <2>1. SubSeq(stream, 1, seen) \in Seq(Tokens)
    BY <1>s, SubSeqFacts
  <2>2. outcome' \in [by : Causes, exit : Exits, text : Seq(Tokens)]
    BY <1>17, <2>1, ExitsAreTyped DEF Deadline, Causes
  <2> QED
    BY <1>17, <1>r, <1>c, <2>2 DEF Deadline, Pcs
<1>18. CASE Close
  <2>1. stream' \in Seq(Tokens) /\ seen' \in 0..Len(stream')
    BY <1>18 DEF Close
  <2>2. /\ pc' \in Pcs /\ attempt' \in 1..2
        /\ outcome' \in [by : Causes, exit : Exits, text : Seq(Tokens)]
    BY <1>18, <1>n DEF Close, Pcs
  <2>3. server' \subseteq 1..2 /\ shell' \in Shells /\ faults' \in 0..MaxFaults
    <3>1. attempt \in 1..2 /\ server \subseteq 1..2
      OBVIOUS
    <3>2. shell' \in Shells
      BY <1>18 DEF Close, Shells
    <3>3. faults' \in 0..MaxFaults
      BY <1>18 DEF Close, Fault
    <3>4. server' \subseteq 1..2
      BY <1>18, <3>1 DEF Close
    <3> QED
      BY <3>2, <3>3, <3>4
  <2> QED
    BY <1>18, <1>c, <2>1, <2>2, <2>3 DEF Close
<1>19. CASE ClientHears
  <2>1. Failure \in Exits /\ Success \in Exits /\ <<>> \in Seq(Tokens)
    BY ExitsAreTyped
  <2>2. ASSUME NEW b \in DOMAIN outcome.text, NEW e \in DOMAIN outcome.text, Decoded(b, e)
        PROVE SubSeq(outcome.text, b + 1, e - 1) \in Seq(Tokens)
    <3>1. outcome.text \in Seq(Tokens) /\ b < e /\ b \in Nat /\ e \in 1..Len(outcome.text)
      BY <2>2 DEF Decoded, Payload
    <3>a. b \in Nat /\ e \in Nat /\ Len(outcome.text) \in Nat /\ b < e /\ e <= Len(outcome.text)
      BY <3>1
    <3>2. b + 1 \in Nat \ {0} /\ e - 1 \in 0..Len(outcome.text) /\ b + 1 <= (e - 1) + 1
      BY ONLY <3>a
    <3> QED
      BY <3>1, <3>2, SubSeqFacts
  <2>3. client' \in [exit : Exits, file : Seq(Tokens)]
    <3>1. outcome.exit \in Exits
      OBVIOUS
    <3>2. ASSUME NEW x \in Exits, NEW f \in Seq(Tokens), Answer(x, f)
          PROVE client' \in [exit : Exits, file : Seq(Tokens)]
      BY <3>2 DEF Answer
    <3>3. Hears
      BY <1>19 DEF ClientHears
    <3>4. \/ Answer(outcome.exit, <<>>)
          \/ Answer(Success, <<>>) \/ Answer(Failure, <<>>)
          \/ \E b, e \in DOMAIN outcome.text :
               Decoded(b, e) /\ Answer(Success, SubSeq(outcome.text, b + 1, e - 1))
      BY <3>3 DEF Hears
    <3> QED
      BY <2>1, <2>2, <3>1, <3>2, <3>4
  <2> QED
    BY <1>19, <1>d, <1>r, <1>c, <2>3 DEF ClientHears
<1>20. CASE ClientGivesUp
  <2>1. client' \in [exit : Exits, file : Seq(Tokens)]
    BY <1>20, ExitsAreTyped DEF ClientGivesUp, Answer
  <2> QED
    BY <1>20, <1>d, <1>r, <1>c, <2>1 DEF ClientGivesUp
<1>21. CASE UNCHANGED vars
  BY <1>21, <1>d, <1>r, <1>c DEF vars
<1> QED
  BY <1>1, <1>2, <1>3, <1>4, <1>5, <1>6, <1>7, <1>8, <1>9, <1>10, <1>11, <1>12, <1>13,
     <1>14, <1>15, <1>16, <1>17, <1>18, <1>19, <1>20, <1>21, <1>22
     DEF Next, Remote, Daemon, Client

-----------------------------------------------------------------------------
(* The shell. *)

LEMMA AppendHead ==
  ASSUME NEW S, NEW s \in Seq(S), NEW t \in Seq(S), t # <<>>
  PROVE Append(s, Head(t)) \o Tail(t) = s \o t
<1>1. Head(t) \in S /\ Tail(t) \in Seq(S) /\ Len(Tail(t)) = Len(t) - 1 /\ Len(t) >= 1
  BY HeadTailProperties
<1>2. Append(s, Head(t)) \in Seq(S) /\ Len(Append(s, Head(t))) = Len(s) + 1
  BY <1>1
<1> DEFINE l == Append(s, Head(t)) \o Tail(t)
<1>3. l \in Seq(S) /\ Len(l) = Len(s) + Len(t)
  BY <1>1, <1>2, ConcatProperties
<1>4. s \o t \in Seq(S) /\ Len(s \o t) = Len(s) + Len(t)
  BY ConcatProperties
<1>5. ASSUME NEW k \in 1..Len(s) + Len(t) PROVE l[k] = (s \o t)[k]
  <2>1. (s \o t)[k] = IF k <= Len(s) THEN s[k] ELSE t[k - Len(s)]
    BY ConcatProperties
  <2>2. l[k] = IF k <= Len(s) + 1 THEN Append(s, Head(t))[k] ELSE Tail(t)[k - (Len(s) + 1)]
    BY <1>1, <1>2, ConcatProperties
  <2>3. CASE k <= Len(s)
    BY <2>1, <2>2, <2>3
  <2>4. CASE k = Len(s) + 1
    BY <2>1, <2>2, <2>4
  <2>5. CASE k > Len(s) + 1
    BY <1>1, <2>1, <2>2, <2>5, HeadTailProperties
  <2> QED
    BY <2>3, <2>4, <2>5
<1> HIDE DEF l
<1> QED
  BY <1>3, <1>4, <1>5, SeqEqual DEF l

LEMMA KindKept == [Next]_vars => kind' = kind /\ Behaviours' = Behaviours
<1>1. [Next]_vars => kind' = kind
  BY DEF Next, Remote, Daemon, Client, ShellStarts, SttyRuns, CommandBegins, CommandPrints,
     CommandEnds, SocketEnds, Context, Create, Connect, CreateFails, ConnectFails, SocketErrs,
     SendPrelude, SendScript, FindMarker, ReadMore, SplitPanics, Deadline, Close,
     ClientHears, ClientGivesUp, vars, daemonVars
<1> QED
  BY <1>1 DEF Behaviours

LEMMA ShellInvInvariant ==
  ASSUME TypeOK, ShellInv, [Next]_vars PROVE ShellInv'
<1> USE DEF ShellInv
<1>k. Behaviours' = Behaviours
  BY KindKept
<1>d. daemonVars' = daemonVars => pc' = pc
  BY DEF daemonVars
<1>c. commandVars' = commandVars => script' = script /\ status' = status /\ stored' = stored /\ printed' = printed
  BY DEF commandVars
<1>r. ASSUME remoteVars' = remoteVars, pc' \in {"banner", "settle"} => pc' = pc
      PROVE ShellInv'
  BY <1>r, <1>k, <1>c DEF remoteVars
<1>1. CASE ShellStarts
  BY <1>1, <1>k, <1>d, <1>c DEF ShellStarts
<1>2. CASE SttyRuns
  <2>1. typed \in Seq({"stty"}) => typed' \in Seq({"stty"})
    BY <1>2, HeadTailProperties DEF SttyRuns
  <2> QED
    BY <1>2, <1>k, <1>d, <1>c, <2>1 DEF SttyRuns
<1>3. CASE CommandBegins
  <2>1. PICK b \in Behaviours : script' = b.out /\ status' = b.status /\ stored' = b.stored
    BY <1>3 DEF CommandBegins
  <2>2. b.out = printed' \o script' /\ b.out \in Seq(Clean)
    <3>1. b.out \in Seq(Clean)
      BY BehavioursAreClean, RemoteRunAssumption DEF TypeOK, Behaviour
    <3> QED
      BY <1>3, <2>1, <3>1, ConcatEmptySeq DEF CommandBegins
  <2>3. pc' \notin {"banner", "settle"}
    <3>1. typed \notin Seq({"stty"})
      BY <1>3, HeadTailProperties DEF CommandBegins
    <3> QED
      BY <1>3, <1>d, <3>1 DEF CommandBegins
  <2> QED
    BY <1>3, <1>k, <2>1, <2>2, <2>3 DEF CommandBegins
<1>4. CASE CommandPrints
  <2>1. printed' \o script' = printed \o script
        /\ script' \in Seq(Clean) /\ printed' \in Seq(Clean)
    <3>1. printed \in Seq(Tokens) /\ script \in Seq(Tokens) /\ script # <<>>
      BY <1>4 DEF CommandPrints, TypeOK
    <3>2. Append(printed, Head(script)) \o Tail(script) = printed \o script
      BY <3>1, AppendHead
    <3>3. Tail(script) \in Seq(Clean) /\ Head(script) \in Clean
      BY <3>1, HeadTailProperties
    <3>4. Append(printed, Head(script)) \in Seq(Clean)
      BY <3>3
    <3> QED
      BY <1>4, <3>2, <3>3, <3>4 DEF CommandPrints
  <2> QED
    BY <1>4, <1>k, <1>d, <2>1 DEF CommandPrints
<1>5. CASE CommandEnds
  BY <1>5, <1>k, <1>d, <1>c DEF CommandEnds
<1>6. CASE Connect
  BY <1>6, <1>k DEF Connect
<1>7. CASE SendPrelude
  <2>1. typed' \in Seq({"stty"})
    <3>1. typed \in Seq({"stty"}) /\ Append(typed, "stty") \in Seq({"stty"})
      BY <1>7 DEF SendPrelude
    <3> QED
      BY <1>7, <3>1, Zenon DEF SendPrelude, DrainAndSend
  <2> QED
    BY <1>7, <1>k, <1>c, <2>1 DEF SendPrelude
<1>8. CASE SendScript
  BY <1>8, <1>k, <1>c DEF SendScript
<1>9. CASE Close
  <2>1. pc' \notin {"banner", "settle"}
    BY <1>9 DEF Close, NextAttempt
  <2> QED
    BY <1>9, <1>k, <1>c, <2>1 DEF Close
<1>10. CASE SocketEnds \/ ClientHears \/ ClientGivesUp \/ UNCHANGED vars
  BY <1>10, <1>r, <1>d DEF SocketEnds, ClientHears, ClientGivesUp, vars
<1>11. CASE \/ Context \/ Create \/ CreateFails \/ ConnectFails \/ SocketErrs
            \/ FindMarker \/ ReadMore \/ SplitPanics \/ Deadline
  BY <1>11, <1>r DEF Context, Create, CreateFails, NextAttempt, ConnectFails, SocketErrs, Errs,
     FindMarker, ReadMore, SplitPanics, Deadline
<1> QED
  BY <1>1, <1>2, <1>3, <1>4, <1>5, <1>6, <1>7, <1>8, <1>9, <1>10, <1>11
     DEF Next, Remote, Daemon, Client

-----------------------------------------------------------------------------
(* The stream. *)

LEMMA ReceivedFacts ==
  ASSUME stream \in Seq(Tokens), NEW n \in 0..Len(stream)
  PROVE /\ Received(n) \in Seq(Tokens) /\ Len(Received(n)) = n /\ DOMAIN Received(n) = 1..n
        /\ \A k \in 1..n : k \in DOMAIN stream /\ Received(n)[k] = stream[k]
<1>1. /\ Received(n) \in Seq(Tokens) /\ Len(Received(n)) = n - 1 + 1
      /\ \A k \in 1..(n - 1 + 1) : Received(n)[k] = stream[1 + k - 1]
  BY SubSeqFacts DEF Received
<1> QED
  BY <1>1

\* A report: the marker, the digits of the status, a new line.
LEMMA ReportFacts ==
  ASSUME TypeOK
  PROVE /\ status \in Seq(Digits) /\ Len(status) \in Nat
        /\ Report \in Seq(Tokens) /\ Len(Report) = Len(status) + 2
        /\ Report[1] = "mark" /\ Report[Len(status) + 2] = "nl"
        /\ \A m \in 1..Len(status) : Report[m + 1] = status[m] /\ status[m] \in Digits
        /\ \A m \in DOMAIN Report : Report[m] \in {"mark", "nl"} \cup Digits
<1>1. status \in Seq(Digits)
  <2>1. status \in Statuses \/ status = <<>>
    BY DEF TypeOK
  <2>2. Statuses \subseteq Seq(Digits) /\ <<>> \in Seq(Digits)
    BY RemoteRunAssumption
  <2> QED
    BY <2>1, <2>2
<1>2. Report \in Seq(Tokens)
  BY ExitsAreTyped DEF Report, TypeOK
<1>3. Report \in Seq(Digits \cup {"mark", "nl"})
  <2>1. <<"mark">> \o status \in Seq(Digits \cup {"mark", "nl"})
    BY <1>1, SeqOfMore
  <2>2. Report = (<<"mark">> \o status) \o <<"nl">>
    BY DEF Report
  <2> QED
    BY <2>1, <2>2
<1>4. /\ Len(Report) = Len(status) + 2
      /\ Report[1] = "mark" /\ Report[Len(status) + 2] = "nl"
      /\ \A m \in 1..Len(status) : Report[m + 1] = status[m] /\ status[m] \in Digits
  <2>1. <<"mark">> \o status \in Seq(Digits \cup {"mark", "nl"})
    BY <1>1, SeqOfMore
  <2>2. Report = (<<"mark">> \o status) \o <<"nl">>
    BY DEF Report
  <2> QED
    BY <1>1, <2>1, <2>2
<1> QED
  BY <1>1, <1>2, <1>3, <1>4

\* What the terminal writes is behind what it has written.
LEMMA WritesAppends ==
  ASSUME stream \in Seq(Tokens), NEW t \in Seq(Tokens), Writes(t), socket = "open"
  PROVE /\ Len(stream') = Len(stream) + Len(t)
        /\ \A k \in DOMAIN stream' :
             stream'[k] = IF k <= Len(stream) THEN stream[k] ELSE t[k - Len(stream)]
<1>1. stream' = stream \o t
  BY DEF Writes
<1>2. /\ stream \o t \in Seq(Tokens) /\ Len(stream \o t) = Len(stream) + Len(t)
      /\ \A k \in 1..Len(stream) + Len(t) :
           (stream \o t)[k] = IF k <= Len(stream) THEN stream[k] ELSE t[k - Len(stream)]
  BY ConcatProperties
<1> QED
  BY <1>1, <1>2

\* Nothing has been reported before the shell has ended.
LEMMA NotEnded ==
  ASSUME TypeOK, NEW o \in Int, Shape(stream, o), shell # "ended", NEW k \in DOMAIN stream
  PROVE k <= o + Len(printed)
<1>1. k \in Int /\ Len(printed) \in Int
  BY DEF TypeOK
<1> QED
  BY <1>1 DEF Shape, After

\* More output, and a stream that goes on, lose nothing.
LEMMA KeptGrows ==
  ASSUME TypeOK, TypeOK', NEW o \in Int, NEW p \in Int, o <= p, Kept(stream, o),
         \A k \in DOMAIN stream : k \in DOMAIN stream' /\ stream'[k] = stream[k],
         \A k \in DOMAIN printed : k \in DOMAIN printed' /\ printed'[k] = printed[k]
  PROVE Kept(stream, p)'
<1>1. /\ Size(stream) \in Nat /\ Size(stream') \in Nat /\ Size(stream) <= Size(stream')
      /\ Size(printed) \in Nat /\ Size(printed') \in Nat /\ Size(printed) <= Size(printed')
  <2>1. /\ stream \in Seq(Tokens) /\ stream' \in Seq(Tokens)
        /\ printed \in Seq(Tokens) /\ printed' \in Seq(Tokens)
    BY DEF TypeOK
  <2> QED
    BY <2>1, SizeGrows
<1>2. Keep \in Nat
  BY RemoteRunAssumption
<1> QED
  BY <1>1, <1>2 DEF Kept

\* Output is found only where it was printed.
LEMMA OutputIsPrinted ==
  ASSUME TypeOK, NEW o \in Int, Shape(stream, o),
         NEW k \in DOMAIN stream, stream[k] \in Text
  PROVE k - o \in DOMAIN printed /\ printed[k - o] = stream[k]
<1>1. /\ k \in Int /\ Len(printed) \in Nat /\ DOMAIN printed = 1..Len(printed)
      /\ Before(stream, o, k) /\ During(stream, o, k) /\ After(stream, o, k)
  BY DEF TypeOK, Shape
<1>2. ~(k <= o)
  BY <1>1, RemoteRunAssumption DEF Before, Early, Marks
<1>3. ~(o + Len(printed) < k)
  <2> SUFFICES ASSUME o + Len(printed) < k PROVE FALSE
    OBVIOUS
  <2>1. /\ k - o - Len(printed) \in DOMAIN Report
        /\ stream[k] = Report[k - o - Len(printed)]
    BY <1>1 DEF After
  <2>2. \A m \in DOMAIN Report : Report[m] \notin Text
    BY ReportFacts, RemoteRunAssumption DEF Marks
  <2> QED
    BY <2>1, <2>2
<1>4. k - o \in 1..Len(printed)
  BY <1>1, <1>2, <1>3
<1> QED
  BY <1>1, <1>2, <1>3, <1>4 DEF During

LEMMA StreamInvPrints ==
  ASSUME TypeOK, TypeOK', ShellInv, StreamInv, CommandPrints PROVE StreamInv'
<1>1. /\ pc' = pc /\ socket' = socket /\ shell = "running" /\ shell' = "running"
      /\ printed' = Append(printed, Head(script)) /\ script # <<>>
  BY DEF CommandPrints, daemonVars
<1>2. pc \notin {"banner", "settle"}
  BY <1>1 DEF ShellInv
<1>3. SUFFICES ASSUME pc = "wait" PROVE StreamInv'
  BY <1>1, <1>2 DEF StreamInv
<1>4. PICK o \in Int : Shape(stream, o)
  BY <1>3 DEF StreamInv
<1>5. /\ stream \in Seq(Tokens) /\ stream' \in Seq(Tokens)
      /\ printed \in Seq(Tokens) /\ Head(script) \in Tokens
      /\ <<Head(script)>> \in Seq(Tokens)
  BY <1>1, HeadTailProperties DEF TypeOK
<1>6. /\ Len(printed') = Len(printed) + 1 /\ printed'[Len(printed) + 1] = Head(script)
      /\ \A m \in 1..Len(printed) : printed'[m] = printed[m]
  BY <1>1, <1>5
<1>7. ASSUME NEW k \in DOMAIN stream
      PROVE k <= o + Len(printed) /\ Before(stream, o, k) /\ During(stream, o, k)
  BY <1>1, <1>4, NotEnded DEF Shape
<1>a. ASSUME \A k \in DOMAIN stream : k \in DOMAIN stream' /\ stream'[k] = stream[k]
      PROVE Kept(stream, o)'
  <2>1. \A k \in DOMAIN printed : k \in DOMAIN printed' /\ printed'[k] = printed[k]
    <3>1. printed' \in Seq(Tokens)
      BY <1>1, <1>5
    <3> QED
      BY <1>5, <1>6, <3>1
  <2>2. Kept(stream, o) /\ o <= o
    BY <1>4 DEF Shape
  <2> QED
    BY <1>a, <2>1, <2>2, KeptGrows
<1>8. CASE socket = "open"
  <2>1. Len(stream) = o + Len(printed)
    BY <1>1, <1>4, <1>8 DEF Shape
  <2>2. /\ Len(stream') = Len(stream) + 1
        /\ \A k \in DOMAIN stream' :
             stream'[k] = IF k <= Len(stream) THEN stream[k] ELSE <<Head(script)>>[k - Len(stream)]
    BY <1>5, <1>8, WritesAppends DEF CommandPrints
  <2>3. ASSUME NEW k \in DOMAIN stream'
        PROVE Before(stream, o, k)' /\ During(stream, o, k)' /\ After(stream, o, k)'
    <3>1. k \in 1..(Len(stream) + 1) /\ Len(stream) \in Nat /\ Len(printed) \in Nat
      BY <1>5, <2>2
    <3>2. CASE k <= Len(stream)
      <4>1. k \in DOMAIN stream /\ stream'[k] = stream[k]
        BY <1>5, <2>2, <3>1, <3>2
      <4>2. Before(stream, o, k)'
        <5> SUFFICES ASSUME k <= o
                     PROVE /\ stream'[k] \in Early
                           /\ stream'[k] \in {"begin", "end"} => EchoFollows(stream', o, k)
          BY DEF Before, EchoFollows
        <5>1. stream[k] \in Early /\ (stream[k] \in {"begin", "end"} => EchoFollows(stream, o, k))
          BY <1>7, <4>1 DEF Before
        <5>2. \A h \in DOMAIN stream : h \in DOMAIN stream' /\ stream'[h] = stream[h]
          BY <1>5, <2>2
        <5> QED
          BY <4>1, <5>1, <5>2 DEF EchoFollows
      <4>3. During(stream, o, k)'
        <5> SUFFICES ASSUME o < k PROVE stream'[k] = printed'[k - o]
          BY DEF During
        <5>1. k <= o + Len(printed) /\ stream[k] = printed[k - o]
          BY <1>7, <4>1 DEF During
        <5>2. k - o \in 1..Len(printed)
          BY <3>1, <5>1
        <5> QED
          BY <1>6, <4>1, <5>1, <5>2
      <4>4. After(stream, o, k)'
        BY <1>6, <2>1, <3>1, <3>2 DEF After
      <4> QED
        BY <4>2, <4>3, <4>4
    <3>3. CASE k = Len(stream) + 1
      <4>1. stream'[k] = Head(script)
        BY <2>2, <3>1, <3>3
      <4>2. Before(stream, o, k)'
        BY <2>1, <3>1, <3>3 DEF Before
      <4>3. During(stream, o, k)'
        BY <1>6, <2>1, <3>1, <3>3, <4>1 DEF During
      <4>4. After(stream, o, k)'
        BY <1>6, <2>1, <3>1, <3>3 DEF After
      <4> QED
        BY <4>2, <4>3, <4>4
    <3> QED
      BY <3>1, <3>2, <3>3
  <2>a. \A k \in DOMAIN stream : k \in DOMAIN stream' /\ stream'[k] = stream[k]
    BY <1>5, <2>2
  <2>4. Shape(stream, o)'
    BY <1>6, <1>a, <2>a, <2>1, <2>2, <2>3 DEF Shape
  <2> QED
    BY <1>1, <1>2, <1>3, <2>4 DEF StreamInv
<1>9. CASE socket # "open"
  <2>1. stream' = stream
    BY <1>9 DEF CommandPrints, Writes
  <2>2. ASSUME NEW k \in DOMAIN stream
        PROVE Before(stream, o, k)' /\ During(stream, o, k)' /\ After(stream, o, k)'
    <3>1. k \in Int /\ Len(printed) \in Nat
      BY <1>5
    <3>2. Before(stream, o, k)'
      BY <1>7, <2>1 DEF Before, EchoFollows
    <3>3. During(stream, o, k)'
      BY <1>6, <1>7, <2>1, <3>1 DEF During
    <3>4. After(stream, o, k)'
      BY <1>6, <1>7, <2>1, <3>1 DEF After
    <3> QED
      BY <3>2, <3>3, <3>4
  <2>3. Shape(stream, o)'
    BY <1>1, <1>9, <1>a, <2>1, <2>2 DEF Shape
  <2> QED
    BY <1>1, <1>2, <1>3, <2>3 DEF StreamInv
<1> QED
  BY <1>8, <1>9

\* A banner moves the beginning of the output.
LEMMA StreamInvStarts ==
  ASSUME TypeOK, TypeOK', ShellInv, StreamInv, ShellStarts PROVE StreamInv'
<1>1. /\ pc' = pc /\ socket' = socket /\ shell = "starting" /\ shell' = "ready"
      /\ printed' = <<>> /\ printed = <<>>
  BY DEF ShellStarts, daemonVars, commandVars, ShellInv
<1>2. /\ stream \in Seq(Tokens) /\ stream' \in Seq(Tokens) /\ <<"noise">> \in Seq(Tokens)
  BY EchoTyped DEF TypeOK
<1>3. CASE socket = "open"
  <2>1. /\ Len(stream') = Len(stream) + 1
        /\ \A k \in DOMAIN stream' :
             stream'[k] = IF k <= Len(stream) THEN stream[k] ELSE <<"noise">>[k - Len(stream)]
    BY <1>2, <1>3, WritesAppends DEF ShellStarts
  <2>2. /\ \A k \in DOMAIN stream : k \in DOMAIN stream' /\ stream'[k] = stream[k]
        /\ \A k \in DOMAIN stream' : k \in DOMAIN stream \/ stream'[k] = "noise"
    <3>1. Len(stream) \in Nat /\ DOMAIN stream' = 1..(Len(stream) + 1)
      BY <1>2, <2>1
    <3>2. ASSUME NEW k \in DOMAIN stream', k \notin DOMAIN stream PROVE stream'[k] = "noise"
      BY <1>2, <2>1, <3>1, <3>2
    <3> QED
      BY <1>2, <2>1, <3>1, <3>2
  <2>3. CASE pc \in {"banner", "settle"}
    <3>1. \A k \in DOMAIN stream' : stream'[k] = "noise"
      BY <2>2, <2>3 DEF StreamInv
    <3> QED
      BY <1>1, <2>3, <3>1 DEF StreamInv
  <2>4. CASE pc = "wait"
    <3>1. PICK o \in Int : Shape(stream, o)
      BY <2>4 DEF StreamInv
    <3>2. Len(stream) = o
      BY <1>1, <1>3, <3>1 DEF Shape
    <3>3. ASSUME NEW k \in DOMAIN stream'
          PROVE Before(stream, o + 1, k)' /\ During(stream, o + 1, k)' /\ After(stream, o + 1, k)'
      <4>1. k \in 1..(o + 1) /\ o \in Nat
        BY <1>2, <2>1, <3>2
      <4>2. Before(stream, o + 1, k)'
        <5>1. CASE k \in DOMAIN stream
          <6>1. Before(stream, o, k) /\ k <= o
            BY <1>2, <3>1, <3>2, <5>1 DEF Shape
          <6>2. EchoFollows(stream, o, k) => EchoFollows(stream', o + 1, k)
            <7> SUFFICES ASSUME NEW h \in DOMAIN stream, k <= h, h <= o, stream[h] = "echo"
                         PROVE h \in DOMAIN stream' /\ k <= h /\ h <= o + 1 /\ stream'[h] = "echo"
              BY DEF EchoFollows
            <7> QED
              BY <1>2, <2>2, <4>1
          <6> QED
            BY <2>2, <5>1, <6>1, <6>2 DEF Before, EchoFollows
        <5>2. CASE stream'[k] = "noise"
          BY <5>2 DEF Before, Early
        <5> QED
          BY <2>2, <5>1, <5>2
      <4>3. During(stream, o + 1, k)' /\ After(stream, o + 1, k)'
        BY <1>1, <4>1 DEF During, After
      <4> QED
        BY <4>2, <4>3
    <3>a. Kept(stream, o + 1)'
      BY <1>1, <2>2, <3>1, KeptGrows DEF Shape
    <3>4. Shape(stream, o + 1)'
      BY <1>1, <2>1, <3>2, <3>3, <3>a DEF Shape
    <3> QED
      BY <1>1, <2>4, <3>4 DEF StreamInv
  <2> QED
    BY <1>1, <2>3, <2>4 DEF StreamInv
<1>4. CASE socket # "open"
  <2>1. stream' = stream
    BY <1>4 DEF ShellStarts, Writes
  <2>2. ASSUME NEW o \in Int, Shape(stream, o) PROVE Shape(stream, o)'
    <3>1. ASSUME NEW k \in DOMAIN stream
          PROVE Before(stream, o, k)' /\ During(stream, o, k)' /\ After(stream, o, k)'
      <4>1. k <= o + Len(printed) /\ k \in Int
        BY <1>1, <1>2, <2>2, NotEnded
      <4>2. Before(stream, o, k) /\ During(stream, o, k)
        BY <2>2 DEF Shape
      <4> QED
        BY <1>1, <2>1, <4>1, <4>2 DEF Before, EchoFollows, During, After
    <3>2. Kept(stream, o)'
      BY <1>1, <2>1, <2>2 DEF Shape, Kept
    <3> QED
      BY <1>1, <1>4, <2>1, <3>1, <3>2 DEF Shape
  <2> QED
    BY <1>1, <2>1, <2>2 DEF StreamInv
<1> QED
  BY <1>3, <1>4

\* The report is behind the output, if it arrives.
LEMMA StreamInvEnds ==
  ASSUME TypeOK, TypeOK', ShellInv, StreamInv, CommandEnds PROVE StreamInv'
<1>1. /\ pc' = pc /\ socket' = socket /\ shell = "running" /\ printed' = printed
      /\ status' = status /\ Report' = Report /\ shell' \in {"hung", "ended"}
  BY DEF CommandEnds, daemonVars, commandVars, Report
<1>2. pc \notin {"banner", "settle"}
  BY <1>1 DEF ShellInv
<1>3. SUFFICES ASSUME pc = "wait" PROVE StreamInv'
  BY <1>1, <1>2 DEF StreamInv
<1>4. PICK o \in Int : Shape(stream, o)
  BY <1>3 DEF StreamInv
<1>5. /\ stream \in Seq(Tokens) /\ stream' \in Seq(Tokens) /\ Report \in Seq(Tokens)
      /\ Len(printed) \in Nat
  BY ExitsAreTyped DEF TypeOK, Report
<1>6. ASSUME NEW k \in DOMAIN stream
      PROVE k <= o + Len(printed) /\ Before(stream, o, k) /\ During(stream, o, k)
  BY <1>1, <1>4, NotEnded DEF Shape
<1>a. ASSUME \A k \in DOMAIN stream : k \in DOMAIN stream' /\ stream'[k] = stream[k]
      PROVE Kept(stream, o)'
  <2>1. Kept(stream, o) /\ o <= o
    BY <1>4 DEF Shape
  <2> QED
    BY <1>1, <1>a, <2>1, KeptGrows
<1>7. CASE stream' = stream
  <2>1. ASSUME NEW k \in DOMAIN stream
        PROVE Before(stream, o, k)' /\ During(stream, o, k)' /\ After(stream, o, k)'
    <3>1. k \in Int
      BY <1>5
    <3> QED
      BY <1>1, <1>5, <1>6, <1>7, <3>1 DEF Before, EchoFollows, During, After
  <2>2. Shape(stream, o)'
    BY <1>1, <1>7, <1>a, <2>1 DEF Shape
  <2> QED
    BY <1>1, <1>2, <1>3, <2>2 DEF StreamInv
<1>8. CASE shell' = "ended" /\ socket = "open" /\ Writes(Report)
  <2>1. Len(stream) = o + Len(printed)
    BY <1>1, <1>4, <1>8 DEF Shape
  <2>2. /\ Len(stream') = Len(stream) + Len(Report)
        /\ \A k \in DOMAIN stream' :
             stream'[k] = IF k <= Len(stream) THEN stream[k] ELSE Report[k - Len(stream)]
    BY <1>5, <1>8, WritesAppends
  <2>3. \A h \in DOMAIN stream : h \in DOMAIN stream' /\ stream'[h] = stream[h]
    BY <1>5, <2>2
  <2>4. ASSUME NEW k \in DOMAIN stream'
        PROVE Before(stream, o, k)' /\ During(stream, o, k)' /\ After(stream, o, k)'
    <3>1. k \in 1..(Len(stream) + Len(Report)) /\ Len(stream) \in Nat /\ Len(Report) \in Nat
      BY <1>5, <2>2
    <3>2. CASE k <= Len(stream)
      <4>1. k \in DOMAIN stream
        BY <1>5, <3>1, <3>2
      <4>2. Before(stream, o, k)'
        BY <1>6, <2>3, <4>1 DEF Before, EchoFollows
      <4>3. During(stream, o, k)' /\ After(stream, o, k)'
        BY <1>1, <1>5, <1>6, <2>1, <2>3, <3>1, <3>2, <4>1 DEF During, After
      <4> QED
        BY <4>2, <4>3
    <3>3. CASE k > Len(stream)
      <4>1. k - Len(stream) \in DOMAIN Report /\ stream'[k] = Report[k - Len(stream)]
        BY <1>5, <2>2, <3>1, <3>3
      <4>2. k - o - Len(printed) = k - Len(stream) /\ ~(k <= o) /\ ~(k <= o + Len(printed))
        BY <1>5, <2>1, <3>1, <3>3
      <4> QED
        BY <1>1, <1>8, <4>1, <4>2 DEF Before, During, After
    <3> QED
      BY <3>1, <3>2, <3>3
  <2>5. Shape(stream, o)'
    BY <1>8, <1>a, <2>3, <2>4 DEF Shape
  <2> QED
    BY <1>1, <1>2, <1>3, <2>5 DEF StreamInv
<1> QED
  BY <1>7, <1>8 DEF CommandEnds, Writes

\* Draining leaves noise, and what the terminal echoes of the next text.
LEMMA DrainLeaves ==
  ASSUME TypeOK, \A k \in DOMAIN stream : stream[k] = "noise",
         NEW what, NEW echo \in Seq(Tokens), DrainAndSend(what, echo)
  PROVE \E m \in Nat :
          /\ Len(stream') \in {m, m + Len(echo)}
          /\ socket # "open" => Len(stream') = m
          /\ \A k \in DOMAIN stream' : stream'[k] = IF k <= m THEN "noise" ELSE echo[k - m]
<1>1. PICK n \in 0..Len(stream) :
        LET rest == SubSeq(stream, n + 1, Len(stream))
        IN  \/ socket = "open" /\ stream' = rest \o echo
            \/ stream' = rest
  BY DEF DrainAndSend
<1> DEFINE rest == SubSeq(stream, n + 1, Len(stream))
<1>2. stream \in Seq(Tokens) /\ Len(stream) \in Nat
  BY DEF TypeOK
<1>3. /\ rest \in Seq(Tokens) /\ Len(rest) \in Nat
      /\ \A k \in 1..Len(rest) : rest[k] = "noise"
  <2>1. n + 1 \in Nat \ {0} /\ Len(stream) \in 0..Len(stream) /\ n + 1 <= Len(stream) + 1
    BY <1>2
  <2>2. /\ rest \in Seq(Tokens) /\ Len(rest) = Len(stream) - (n + 1) + 1
        /\ \A k \in 1..(Len(stream) - (n + 1) + 1) : rest[k] = stream[(n + 1) + k - 1]
    BY <1>2, <2>1, SubSeqFacts
  <2>3. ASSUME NEW k \in 1..Len(rest) PROVE rest[k] = "noise"
    <3>1. (n + 1) + k - 1 \in DOMAIN stream
      BY <1>2, <2>2
    <3> QED
      BY <2>2, <3>1
  <2> QED
    BY <2>2, <2>3
<1>4. stream' = rest \/ (socket = "open" /\ stream' = rest \o echo)
  BY <1>1
<1> HIDE DEF rest
<1>5. CASE stream' = rest
  <2>1. \A k \in DOMAIN stream' : k <= Len(rest) /\ stream'[k] = "noise"
    BY <1>3, <1>5
  <2> QED
    BY <1>3, <1>5, <2>1
<1>6. CASE socket = "open" /\ stream' = rest \o echo
  <2>1. Len(echo) \in Nat
    OBVIOUS
  <2>2. /\ rest \o echo \in Seq(Tokens) /\ Len(rest \o echo) = Len(rest) + Len(echo)
        /\ \A k \in 1..(Len(rest) + Len(echo)) :
             (rest \o echo)[k] = IF k <= Len(rest) THEN rest[k] ELSE echo[k - Len(rest)]
    BY <1>3, ConcatProperties
  <2>3. \A k \in DOMAIN stream' : stream'[k] = IF k <= Len(rest) THEN "noise" ELSE echo[k - Len(rest)]
    BY <1>3, <1>6, <2>1, <2>2
  <2> QED
    BY <1>3, <1>6, <2>2, <2>3
<1> QED
  BY <1>4, <1>5, <1>6

LEMMA StreamInvPrelude ==
  ASSUME TypeOK, TypeOK', StreamInv, SendPrelude PROVE StreamInv'
<1>1. pc = "banner" /\ pc' = "settle" /\ DrainAndSend("stty", <<"noise">>)
  BY DEF SendPrelude
<1>2. <<"noise">> \in Seq(Tokens) /\ Len(<<"noise">>) = 1 /\ <<"noise">>[1] = "noise"
  BY EchoTyped
<1>3. PICK m \in Nat :
        /\ Len(stream') \in {m, m + 1}
        /\ \A k \in DOMAIN stream' : stream'[k] = IF k <= m THEN "noise" ELSE <<"noise">>[k - m]
  BY <1>1, <1>2, DrainLeaves DEF StreamInv
<1>4. ASSUME NEW k \in DOMAIN stream' PROVE stream'[k] = "noise"
  <2>1. k \in 1..(m + 1)
    <3>1. stream' \in Seq(Tokens)
      BY DEF TypeOK
    <3> QED
      BY <1>3, <3>1
  <2>2. k <= m \/ k - m = 1
    BY <2>1
  <2> QED
    BY <1>2, <1>3, <2>2
<1> QED
  BY <1>1, <1>4 DEF StreamInv

LEMMA StreamInvScript ==
  ASSUME TypeOK, TypeOK', ShellInv, StreamInv, SendScript PROVE StreamInv'
<1>1. /\ pc \in {"banner", "settle"} /\ pc' = "wait" /\ DrainAndSend("script", Echo)
      /\ shell' = shell /\ printed' = printed /\ socket' = socket
  BY DEF SendScript, commandVars
<1>2. shell \in {"starting", "ready"} /\ printed = <<>>
  BY <1>1 DEF ShellInv
<1>3. PICK m \in Nat :
        /\ Len(stream') \in {m, m + Len(Echo)}
        /\ \A k \in DOMAIN stream' : stream'[k] = IF k <= m THEN "noise" ELSE Echo[k - m]
  BY <1>1, EchoTyped, DrainLeaves DEF StreamInv
<1>4. PICK o \in Nat : o = Len(stream') /\ DOMAIN stream' = 1..o
  <2>1. stream' \in Seq(Tokens)
    BY DEF TypeOK
  <2> QED
    BY <2>1
<1>5. /\ Len(Echo) \in {1, 4} /\ Echo[Len(Echo)] = "echo"
      /\ \A i \in 1..Len(Echo) : Echo[i] \in Early
  BY DEF Echo, Early
<1>6. ASSUME NEW k \in DOMAIN stream'
      PROVE Before(stream, o, k)' /\ During(stream, o, k)' /\ After(stream, o, k)'
  <2>1. k \in 1..o
    BY <1>4
  <2>2. CASE k <= m
    <3>1. stream'[k] = "noise"
      BY <1>3, <2>2
    <3> QED
      BY <1>1, <1>2, <1>4, <2>1, <3>1 DEF Before, During, After, Early
  <2>3. CASE k > m
    <3>1. o = m + Len(Echo) /\ k - m \in 1..Len(Echo)
      BY <1>3, <1>4, <1>5, <2>1, <2>3
    <3>2. stream'[k] \in Early
      BY <1>3, <1>4, <1>5, <2>1, <2>3, <3>1
    <3>3. o \in DOMAIN stream' /\ ~(o <= m) /\ o - m = Len(Echo)
      BY <1>4, <1>5, <2>1, <2>3, <3>1
    <3>4. stream'[o] = "echo"
      BY <1>3, <1>5, <3>3
    <3>5. EchoFollows(stream', o, k)
      BY <1>4, <2>1, <3>3, <3>4 DEF EchoFollows
    <3> QED
      BY <1>1, <1>2, <1>4, <2>1, <3>2, <3>5 DEF Before, EchoFollows, During, After
  <2> QED
    BY <1>4, <2>1, <2>2, <2>3
<1>7. Shape(stream, o)'
  BY <1>1, <1>2, <1>4, <1>6 DEF Shape, Kept
<1> QED
  BY <1>1, <1>4, <1>7 DEF StreamInv

\* All the output that has been received has been printed.
LEMMA ReceivedIsPrinted ==
  ASSUME TypeOK, NEW o \in Int, Shape(stream, o), NEW n \in 0..Len(stream)
  PROVE /\ Size(Received(n)) \in Nat /\ Size(printed) \in Nat
        /\ Size(Received(n)) <= Size(printed)
<1>1. /\ stream \in Seq(Tokens) /\ printed \in Seq(Tokens) /\ Len(stream) \in Nat
      /\ Len(printed) \in Nat
  BY DEF TypeOK
<1>2. /\ Received(n) \in Seq(Tokens) /\ DOMAIN Received(n) = 1..n
      /\ \A k \in 1..n : k \in DOMAIN stream /\ Received(n)[k] = stream[k]
  BY <1>1, ReceivedFacts
<1>3. ASSUME NEW k \in DOMAIN Received(n), Received(n)[k] \in Text
      PROVE k - o \in DOMAIN printed /\ printed[k - o] \in Text
  BY <1>1, <1>2, <1>3, OutputIsPrinted
<1> QED
  BY <1>1, <1>2, <1>3, SizeShifts

\* Cutting output down moves everything.
LEMMA StreamInvReads ==
  ASSUME TypeOK, TypeOK', StreamInv, ReadMore PROVE StreamInv'
<1>1. /\ pc = "wait" /\ pc' = "wait" /\ socket' = socket /\ shell' = shell
      /\ printed' = printed /\ status' = status /\ Report' = Report
  BY DEF ReadMore, remoteVars, commandVars, Report
<1>2. PICK o \in Int : Shape(stream, o)
  BY <1>1 DEF StreamInv
<1>3. stream \in Seq(Tokens) /\ Len(stream) \in Nat /\ Len(printed) \in Nat
  BY DEF TypeOK
<1>4. PICK n \in (seen + 1)..Len(stream) :
        \/ stream' = stream
        \/ TooMuch(n) /\ \E c \in 0..n : Cut(n, c) /\ stream' = SubSeq(stream, c + 1, Len(stream))
  BY DEF ReadMore
<1>5. CASE stream' = stream
  <2>1. Shape(stream, o)'
    BY <1>1, <1>2, <1>5 DEF Shape, Kept, Before, EchoFollows, During, After
  <2> QED
    BY <1>1, <2>1 DEF StreamInv
<1>6. ASSUME NEW c \in 0..n, stream' = SubSeq(stream, c + 1, Len(stream)), TooMuch(n), Cut(n, c)
      PROVE StreamInv'
  <2>1. c \in 0..Len(stream)
    BY <1>3 DEF TypeOK
  <2>2. c + 1 \in Nat \ {0} /\ Len(stream) \in 0..Len(stream) /\ c + 1 <= Len(stream) + 1
    BY <1>3, <2>1
  <2>3. /\ Len(stream') = Len(stream) - (c + 1) + 1
        /\ \A k \in 1..(Len(stream) - (c + 1) + 1) : stream'[k] = stream[(c + 1) + k - 1]
    BY <1>3, <1>6, <2>2, SubSeqFacts
  <2>b. DOMAIN stream' = 1..(Len(stream) - (c + 1) + 1)
    <3>1. DOMAIN stream' = 1..Len(stream')
      BY DEF TypeOK
    <3> QED
      BY <2>3, <3>1
  <2>4. /\ Len(stream') = Len(stream) - c
        /\ \A k \in DOMAIN stream' : k \in Nat \ {0} /\ k + c \in DOMAIN stream /\ stream'[k] = stream[k + c]
        /\ \A h \in DOMAIN stream : h > c => h - c \in DOMAIN stream' /\ stream'[h - c] = stream[h]
    <3>1. DOMAIN stream' = 1..(Len(stream) - c) /\ Len(stream') = Len(stream) - c
      BY <1>3, <2>1, <2>3 DEF TypeOK
    <3>2. ASSUME NEW k \in DOMAIN stream' PROVE k \in Nat \ {0} /\ k + c \in DOMAIN stream /\ stream'[k] = stream[k + c]
      <4>1. k \in 1..(Len(stream) - (c + 1) + 1) /\ (c + 1) + k - 1 = k + c /\ k + c \in 1..Len(stream)
        BY <1>3, <2>1, <3>1
      <4> QED
        BY <1>3, <2>3, <4>1
    <3>3. ASSUME NEW h \in DOMAIN stream, h > c PROVE h - c \in DOMAIN stream' /\ stream'[h - c] = stream[h]
      <4>1. h - c \in 1..(Len(stream) - c) /\ (h - c) + c = h
        BY <1>3, <2>1, <3>3
      <4> QED
        BY <3>1, <3>2, <4>1
    <3> QED
      BY <3>1, <3>2, <3>3
  <2>5. ASSUME NEW k \in DOMAIN stream'
        PROVE Before(stream, o - c, k)' /\ During(stream, o - c, k)' /\ After(stream, o - c, k)'
    <3>1. /\ k \in Nat \ {0} /\ k + c \in DOMAIN stream /\ stream'[k] = stream[k + c]
          /\ Before(stream, o, k + c) /\ During(stream, o, k + c) /\ After(stream, o, k + c)
      BY <1>2, <2>4 DEF Shape
    <3>2. Before(stream, o - c, k)'
      <4> SUFFICES ASSUME k <= o - c
                   PROVE /\ stream'[k] \in Early
                         /\ stream'[k] \in {"begin", "end"} => EchoFollows(stream', o - c, k)
        BY DEF Before, EchoFollows
      <4>1. k + c <= o
        BY <2>1, <3>1
      <4>2. ASSUME NEW h \in DOMAIN stream, k + c <= h, h <= o, stream[h] = "echo"
            PROVE EchoFollows(stream', o - c, k)
        <5>1. h > c /\ k <= h - c /\ h - c <= o - c
          BY <1>3, <2>1, <3>1, <4>2
        <5> QED
          BY <2>4, <4>2, <5>1 DEF EchoFollows
      <4> QED
        BY <3>1, <4>1, <4>2 DEF Before, EchoFollows
    <3>3. During(stream, o - c, k)'
      <4> SUFFICES ASSUME o - c < k, k <= o - c + Len(printed) PROVE stream'[k] = printed[k - (o - c)]
        BY <1>1 DEF During
      <4>1. o < k + c /\ k + c <= o + Len(printed) /\ (k + c) - o = k - (o - c)
        BY <1>3, <2>1, <3>1
      <4> QED
        BY <3>1, <4>1 DEF During
    <3>4. After(stream, o - c, k)'
      <4> SUFFICES ASSUME o - c + Len(printed) < k
                   PROVE /\ shell = "ended"
                         /\ k - (o - c) - Len(printed) \in DOMAIN Report
                         /\ stream'[k] = Report[k - (o - c) - Len(printed)]
        BY <1>1 DEF After
      <4>1. o + Len(printed) < k + c /\ (k + c) - o - Len(printed) = k - (o - c) - Len(printed)
        BY <1>3, <2>1, <3>1
      <4> QED
        BY <3>1, <4>1 DEF After
    <3> QED
      BY <3>2, <3>3, <3>4
  <2>a. Kept(stream, o - c)'
    <3>a. n \in 0..Len(stream) /\ Keep \in Nat
      BY <1>3, RemoteRunAssumption DEF TypeOK
    <3>b. /\ Size(Received(n)) \in Nat /\ Size(printed) \in Nat
          /\ Size(Received(n)) <= Size(printed)
      BY <1>2, <3>a, ReceivedIsPrinted
    <3>1. Size(printed) > 2 * Keep
      BY <1>6, <3>a, <3>b DEF TooMuch
    <3>2. Keep <= Size(stream')
      <4> DEFINE rest == SubSeq(stream, c + 1, n)
      <4>1. c + 1 \in Nat \ {0} /\ n \in 0..Len(stream) /\ c + 1 <= n + 1
        BY <1>3, <2>1 DEF TypeOK
      <4>2. /\ rest \in Seq(Tokens) /\ Len(rest) = n - (c + 1) + 1
            /\ \A k \in 1..(n - (c + 1) + 1) : rest[k] = stream[(c + 1) + k - 1]
        BY <1>3, <4>1, SubSeqFacts
      <4> HIDE DEF rest
      <4>3. ASSUME NEW k \in DOMAIN rest PROVE k \in DOMAIN stream' /\ stream'[k] = rest[k]
        <5>1. k \in 1..(n - (c + 1) + 1) /\ k \in 1..(Len(stream) - (c + 1) + 1)
          BY <4>1, <4>2
        <5>2. k \in DOMAIN stream'
          BY <2>b, <5>1
        <5>3. stream'[k] = stream[(c + 1) + k - 1] /\ rest[k] = stream[(c + 1) + k - 1]
          BY <2>3, <4>2, <5>1
        <5> QED
          BY <5>2, <5>3
      <4>4. Size(rest) <= Size(stream')
        BY <4>2, <4>3, SizeGrows DEF TypeOK
      <4> QED
        BY <1>6, <4>4 DEF Cut, rest
    <3> QED
      BY <1>1, <3>a, <3>b, <3>1, <3>2 DEF Kept
  <2>6. Shape(stream, o - c)'
    <3>1. socket = "open" /\ shell \in {"starting", "ready", "running"} => Len(stream) = o + Len(printed)
      BY <1>2 DEF Shape
    <3>2. Len(stream) = o + Len(printed) => Len(stream') = o - c + Len(printed)
      BY <1>3, <2>1, <2>4
    <3> QED
      BY <1>1, <2>5, <2>a, <3>1, <3>2 DEF Shape
  <2>7. o - c \in Int
    BY <2>1
  <2> QED
    BY <1>1, <2>6, <2>7 DEF StreamInv
<1> QED
  BY <1>4, <1>5, <1>6

LEMMA StreamInvInvariant ==
  ASSUME TypeOK, TypeOK', ShellInv, ShellInv', StreamInv, [Next]_vars PROVE StreamInv'
<1>1. ASSUME stream' = stream, pc' = pc, socket' = socket, shell' = shell,
             printed' = printed, status' = status
      PROVE StreamInv'
  BY <1>1 DEF StreamInv, Shape, Kept, Before, EchoFollows, During, After, Report
<1>2. ASSUME pc' \notin {"banner", "settle", "wait"} PROVE StreamInv'
  BY <1>2 DEF StreamInv
<1>3. CASE \/ SttyRuns \/ ClientHears \/ ClientGivesUp \/ UNCHANGED vars
  BY <1>1, <1>3 DEF SttyRuns, ClientHears, ClientGivesUp, vars, daemonVars, remoteVars, commandVars
<1>4. CASE \/ Context \/ Create \/ CreateFails \/ ConnectFails \/ SocketErrs
           \/ FindMarker \/ SplitPanics \/ Deadline \/ Close
  BY <1>2, <1>4 DEF Context, Create, CreateFails, NextAttempt, ConnectFails, SocketErrs, Errs,
     FindMarker, SplitPanics, Deadline, Close
<1>5. CASE CommandBegins
  <2>1. /\ stream' = stream /\ pc' = pc /\ socket' = socket /\ shell = "ready" /\ shell' = "running"
        /\ printed' = <<>> /\ printed = <<>>
    BY <1>5 DEF CommandBegins, daemonVars, ShellInv
  <2>2. pc \notin {"banner", "settle"}
    BY <2>1 DEF ShellInv
  <2>3. ASSUME NEW o \in Int, Shape(stream, o) PROVE Shape(stream, o)'
    <3>1. ASSUME NEW k \in DOMAIN stream
          PROVE Before(stream, o, k)' /\ During(stream, o, k)' /\ After(stream, o, k)'
      <4>1. k <= o + Len(printed) /\ k \in Int
        BY <2>1, <2>3, NotEnded DEF TypeOK
      <4>2. Before(stream, o, k) /\ During(stream, o, k)
        BY <2>3 DEF Shape
      <4> QED
        BY <2>1, <4>1, <4>2 DEF Before, EchoFollows, During, After
    <3> QED
      BY <2>1, <2>3, <3>1 DEF Shape, Kept
  <2> QED
    BY <2>1, <2>2, <2>3 DEF StreamInv
<1>6. CASE SocketEnds
  <2>1. /\ stream' = stream /\ pc' = pc /\ shell' = shell /\ printed' = printed
        /\ Report' = Report /\ socket' # "open"
    BY <1>6 DEF SocketEnds, daemonVars, remoteVars, commandVars, Report
  <2>2. ASSUME NEW o \in Int, Shape(stream, o) PROVE Shape(stream, o)'
    BY <2>1, <2>2 DEF Shape, Kept, Before, EchoFollows, During, After
  <2> QED
    BY <2>1, <2>2 DEF StreamInv
<1>7. CASE Connect
  BY <1>7 DEF Connect, StreamInv
<1> QED
  BY <1>3, <1>4, <1>5, <1>6, <1>7, StreamInvStarts, StreamInvPrints, StreamInvEnds,
     StreamInvPrelude, StreamInvScript, StreamInvReads
     DEF Next, Remote, Daemon, Client

-----------------------------------------------------------------------------
(* The outcome. *)

\* Behind a marker there is a digit only in the report.
LEMMA MarkerIsReport ==
  ASSUME TypeOK, ShellInv, NEW o \in Int, Shape(stream, o),
         NEW i \in DOMAIN stream, IsMarker(stream[i]),
         NEW j \in DOMAIN stream, i < j, \A k \in (i + 1)..j : stream[k] \in Digits
  PROVE /\ shell = "ended" /\ i = o + Len(printed) + 1
        /\ j - i <= Len(status)
        /\ \A m \in 1..(j - i) : stream[i + m] = status[m]
<1> DEFINE L == Len(printed)
<1>1. /\ stream \in Seq(Tokens) /\ printed \in Seq(Tokens) /\ script \in Seq(Tokens)
      /\ L \in Nat /\ kind \in AllKinds /\ Len(status) \in Nat /\ status \in Seq(Digits)
  BY ReportFacts, RemoteRunAssumption DEF TypeOK
<1>2. Report \in Seq(Tokens) /\ Len(Report) = Len(status) + 2
      /\ Report[1] = "mark" /\ Report[Len(status) + 2] = "nl"
      /\ \A m \in 1..Len(status) : Report[m + 1] = status[m] /\ status[m] \in Digits
  BY ReportFacts
<1>3. ASSUME NEW k \in DOMAIN stream, stream[k] \in Digits
      PROVE o + L < k /\ shell = "ended" /\ k - o - L \in DOMAIN Report
            /\ stream[k] = Report[k - o - L]
  <2>1. Before(stream, o, k) /\ During(stream, o, k) /\ After(stream, o, k) /\ k \in Int
    BY <1>1 DEF Shape
  <2>2. ~(k <= o)
    BY <1>3, <2>1, TextIsClean DEF Before, Early
  <2>3. ~(k <= o + L)
    <3> SUFFICES ASSUME k <= o + L PROVE FALSE
      OBVIOUS
    <3>1. stream[k] = printed[k - o] /\ k - o \in 1..L
      BY <1>1, <2>1, <2>2 DEF During
    <3>2. printed[k - o] \in Clean
      BY <3>1 DEF ShellInv
    <3> QED
      BY <1>3, <3>1, <3>2 DEF Clean
  <2> QED
    BY <2>1, <2>2, <2>3, <1>1 DEF After
<1>4. i \in Nat /\ j \in Nat /\ i + 1 \in DOMAIN stream /\ \A k \in (i + 1)..j : k \in DOMAIN stream
  BY <1>1
<1> DEFINE m == i + 1 - o - L
<1>5. /\ shell = "ended" /\ o + L < i + 1 /\ m \in DOMAIN Report
      /\ stream[i + 1] = Report[m] /\ stream[i + 1] \in Digits
  BY <1>3, <1>4
<1>6. m \in 2..(Len(status) + 1)
  <2>1. m \in 1..(Len(status) + 2)
    BY <1>2, <1>5
  <2>2. m # 1 /\ m # Len(status) + 2
    BY <1>2, <1>5, RemoteRunAssumption DEF Marks
  <2> QED
    BY <1>1, <2>1, <2>2
<1>7. m = 2
  <2> SUFFICES ASSUME m # 2 PROVE FALSE
    OBVIOUS
  <2>1. o + L < i /\ i - o - L = m - 1 /\ m - 2 \in 1..Len(status) /\ (m - 2) + 1 = m - 1
    <3>1. i \in Nat /\ o \in Int /\ L \in Nat /\ Len(status) \in Nat
      BY <1>1, <1>4
    <3>2. m \in Int
      BY <3>1
    <3> QED
      BY <1>6, <3>1, <3>2, ReportOffset
  <2>2. stream[i] = Report[m - 1]
    BY <2>1 DEF Shape, After
  <2>3. Report[m - 1] \in Digits
    BY <1>2, <2>1
  <2> QED
    BY <2>2, <2>3, RemoteRunAssumption DEF IsMarker, Marks
<1>8. i = o + L + 1
  BY <1>1, <1>4, <1>7
<1>9. ASSUME NEW p \in 1..(j - i) PROVE p <= Len(status) /\ stream[i + p] = status[p]
  <2>1. i + p \in (i + 1)..j /\ i + p \in DOMAIN stream /\ p \in Nat \ {0}
    BY <1>1, <1>4
  <2>2. p + 1 \in DOMAIN Report /\ stream[i + p] = Report[p + 1] /\ Report[p + 1] \in Digits
    <3>a. stream[i + p] \in Digits
      BY <2>1
    <3>1. /\ (i + p) - o - L \in DOMAIN Report /\ stream[i + p] = Report[(i + p) - o - L]
          /\ stream[i + p] \in Digits
      BY <1>3, <2>1, <3>a
    <3>2. (i + p) - o - L = p + 1
      BY <1>1, <1>4, <1>8, <2>1
    <3> QED
      BY <3>1, <3>2
  <2>3. p + 1 \in 1..(Len(status) + 2)
    BY <1>2, <2>2
  <2>4. p + 1 # Len(status) + 2
    BY <1>2, <2>2, RemoteRunAssumption DEF Marks
  <2>5. p \in 1..Len(status)
    BY <1>1, <2>1, <2>3, <2>4
  <2> QED
    BY <1>2, <2>2, <2>5
<1>10. j - i <= Len(status)
  BY <1>4, <1>9
<1> QED
  BY <1>5, <1>8, <1>9, <1>10

\* What a download that ended with 0 has printed.
LEMMA DownloadPrints ==
  ASSUME kind = "download", NEW b \in Behaviours, b.status = Success
  PROVE \/ b.out = <<"begin">> \o Output \o <<"end">>
        \/ \E p \in Prefixes : b.out = <<"begin">> \o p \o <<"err", "end">>
<1>1. b \in DownloadBehaviours
  BY DEF Behaviours
<1>2. Success # <<>> /\ Failure # Success
  BY DEF Success, Failure
<1> QED
  BY <1>1, <1>2 DEF DownloadBehaviours, Behaves

\* A mark is where it belongs, and a file without a message is whole.
LEMMA MarksOfPrinted ==
  ASSUME NEW out \in Seq(Clean),
         \/ out = <<"begin">> \o Output \o <<"end">>
         \/ \E p \in Prefixes : out = <<"begin">> \o p \o <<"err", "end">>,
         NEW b \in DOMAIN out, NEW e \in DOMAIN out, b < e,
         out[b] = "begin", out[e] = "end", \A k \in (b + 1)..(e - 1) : out[k] \in Text
  PROVE b = 1 /\ e = Len(Output) + 2 /\ \A k \in 1..Len(Output) : out[k + 1] = Output[k]
<1> USE RemoteRunAssumption
<1>1. Output \in Seq(Text) /\ Len(Output) \in Nat /\ b \in Nat /\ e \in Nat
  OBVIOUS
<1>2. "begin" \notin Text /\ "end" \notin Text /\ "err" \notin Text
  BY DEF Marks
<1>3. CASE out = <<"begin">> \o Output \o <<"end">>
  <2>1. /\ Len(out) = Len(Output) + 2 /\ out[Len(Output) + 2] = "end"
        /\ \A k \in 1..Len(Output) : out[k + 1] = Output[k] /\ Output[k] \in Text
        /\ out[1] = "begin"
    BY <1>1, <1>3
  <2>2. \A k \in DOMAIN out : k = 1 \/ k = Len(Output) + 2 \/ (k - 1 \in 1..Len(Output) /\ k = (k - 1) + 1)
    BY <1>1, <2>1
  <2>b. \A k \in DOMAIN out : k = 1 \/ k = Len(Output) + 2 \/ out[k] \in Text
    <3>1. \A k \in 1..Len(Output) : out[k + 1] \in Text
      BY <2>1
    <3> QED
      BY <2>2, <3>1
  <2>3. b = 1
    BY <1>2, <2>1, <2>b
  <2>4. e = Len(Output) + 2
    BY <1>2, <2>1, <2>b
  <2> QED
    BY <2>1, <2>3, <2>4
<1>4. ASSUME NEW p \in Prefixes, out = <<"begin">> \o p \o <<"err", "end">> PROVE FALSE
  <2>1. p \in Seq(Text) /\ Len(p) \in Nat
    <3>1. PICK n \in 0..Len(Output) : p = SubSeq(Output, 1, n)
      BY DEF Prefixes
    <3> QED
      BY <1>1, <3>1, SubSeqFacts
  <2>2. /\ Len(out) = Len(p) + 3 /\ out[Len(p) + 3] = "end" /\ out[Len(p) + 2] = "err"
        /\ \A k \in 1..Len(p) : out[k + 1] = p[k] /\ p[k] \in Text
        /\ out[1] = "begin"
    BY <1>4, <2>1
  <2>3. \A k \in DOMAIN out : k = 1 \/ k = Len(p) + 2 \/ k = Len(p) + 3 \/ (k - 1 \in 1..Len(p) /\ k = (k - 1) + 1)
    BY <2>1, <2>2
  <2>b. \A k \in DOMAIN out : k = 1 \/ k = Len(p) + 2 \/ k = Len(p) + 3 \/ out[k] \in Text
    <3>1. \A k \in 1..Len(p) : out[k + 1] \in Text
      BY <2>2
    <3> QED
      BY <2>3, <3>1
  <2>4. b = 1
    BY <1>2, <2>2, <2>b
  <2>5. e = Len(p) + 3
    BY <1>2, <2>2, <2>b
  <2>6. Len(p) + 2 \in (b + 1)..(e - 1)
    BY <2>1, <2>4, <2>5
  <2> QED
    BY <1>2, <2>2, <2>6
<1> QED
  BY <1>3, <1>4

\* The marker that is found is that of the report, and the digits are the
\* beginning of the status.
LEMMA FoundReport ==
  ASSUME TypeOK, ShellInv, StreamInv, FindMarker
  PROVE \E i, j \in 1..Len(stream) : \E o \in Int :
          /\ Shape(stream, o) /\ shell = "ended" /\ i = o + Len(printed) + 1 /\ i < j
          /\ \A k \in 1..(i - 1) : ~IsMarker(stream[k])
          /\ j - i <= Len(status) /\ \A m \in 1..(j - i) : stream[i + m] = status[m]
          /\ outcome' = [by |-> "status", exit |-> SubSeq(stream, i + 1, j),
                         text |-> SubSeq(stream, 1, i - 1)]
<1>1. PICK n \in seen..Len(stream) : \E i, j \in 1..n :
        /\ MarkerAt(Received(n), i) /\ DigitsEnd(Received(n), i, j)
        /\ outcome' = [by |-> "status", exit |-> SubSeq(stream, i + 1, j),
                       text |-> SubSeq(stream, 1, i - 1)]
  BY DEF FindMarker
<1>2. PICK i \in 1..n, j \in 1..n :
        /\ MarkerAt(Received(n), i) /\ DigitsEnd(Received(n), i, j)
        /\ outcome' = [by |-> "status", exit |-> SubSeq(stream, i + 1, j),
                       text |-> SubSeq(stream, 1, i - 1)]
  BY <1>1
<1>3. /\ stream \in Seq(Tokens) /\ Len(stream) \in Nat /\ n \in 0..Len(stream)
      /\ i \in Nat \ {0} /\ j \in Nat \ {0} /\ i <= n /\ j <= n
      /\ \A k \in 1..n : k \in DOMAIN stream
  BY DEF TypeOK
<1>4. Len(Received(n)) = n /\ DOMAIN Received(n) = 1..n /\ \A k \in 1..n : Received(n)[k] = stream[k]
  BY <1>3, ReceivedFacts
<1>5. /\ IsMarker(stream[i]) /\ \A k \in 1..(i - 1) : ~IsMarker(stream[k])
      /\ i < j /\ \A k \in (i + 1)..j : stream[k] \in Digits
  <2>1. /\ IsMarker(Received(n)[i]) /\ \A k \in 1..(i - 1) : ~IsMarker(Received(n)[k])
        /\ j \in (i + 1)..n /\ \A k \in (i + 1)..j : Received(n)[k] \in Digits
    BY <1>2, <1>4 DEF MarkerAt, DigitsEnd
  <2>2. \A k \in 1..(i - 1) : k \in 1..n
    BY <1>3
  <2>3. \A k \in (i + 1)..j : k \in 1..n
    BY <1>3
  <2> QED
    BY <1>3, <1>4, <2>1, <2>2, <2>3
<1>6. PICK o \in Int : Shape(stream, o)
  BY DEF StreamInv, FindMarker
<1>7. /\ shell = "ended" /\ i = o + Len(printed) + 1
      /\ j - i <= Len(status) /\ \A m \in 1..(j - i) : stream[i + m] = status[m]
  <2>1. i \in DOMAIN stream /\ j \in DOMAIN stream
    BY <1>3
  <2> QED
    BY <1>5, <1>6, <2>1, MarkerIsReport
<1>8. i \in 1..Len(stream) /\ j \in 1..Len(stream)
  BY <1>3
<1> QED
  BY <1>2, <1>5, <1>6, <1>7, <1>8

LEMMA FindMarkerOutcome ==
  ASSUME TypeOK, TypeOK', ShellInv, StreamInv, FindMarker PROVE OutcomeInv'
<1> USE RemoteRunAssumption
<1> DEFINE L == Len(printed)
<1>1. PICK i \in 1..Len(stream), j \in 1..Len(stream), o \in Int :
        /\ Shape(stream, o) /\ shell = "ended" /\ i = o + L + 1 /\ i < j
        /\ \A k \in 1..(i - 1) : ~IsMarker(stream[k])
        /\ j - i <= Len(status) /\ \A m \in 1..(j - i) : stream[i + m] = status[m]
        /\ outcome' = [by |-> "status", exit |-> SubSeq(stream, i + 1, j),
                       text |-> SubSeq(stream, 1, i - 1)]
  BY FoundReport
<1>2. outcome' = [by |-> "status", exit |-> SubSeq(stream, i + 1, j),
                  text |-> SubSeq(stream, 1, i - 1)]
  BY <1>1
<1>3. /\ stream \in Seq(Tokens) /\ Len(stream) \in Nat
      /\ i \in Nat \ {0} /\ j \in Nat \ {0}
      /\ printed \in Seq(Clean) /\ script \in Seq(Clean) /\ kind \in AllKinds
      /\ DOMAIN stream = 1..Len(stream)
  <2>1. stream \in Seq(Tokens) /\ kind \in AllKinds
    BY DEF TypeOK
  <2>2. printed \in Seq(Clean) /\ script \in Seq(Clean)
    BY DEF ShellInv
  <2>3. i \in 1..Len(stream) /\ j \in 1..Len(stream)
    OBVIOUS
  <2> QED
    BY <2>1, <2>2, <2>3
<1>a. i \in Nat \ {0} /\ j \in Nat \ {0} /\ i <= Len(stream) /\ j <= Len(stream) /\ Len(stream) \in Nat
  BY <1>3
<1>5. (\A k \in 1..(i - 1) : ~IsMarker(stream[k])) /\ i < j
  BY <1>1
<1>6. Shape(stream, o)
  BY <1>1
<1>b. L \in Nat
  BY <1>3
<1>7. /\ shell = "ended" /\ i = o + L + 1
      /\ j - i <= Len(status) /\ \A m \in 1..(j - i) : stream[i + m] = status[m]
  BY <1>1
<1> HIDE DEF L
<1>8. script = <<>> /\ \E b \in Behaviours : b.out = printed /\ b.status = status /\ b.stored = stored
  BY <1>3, <1>7, ConcatEmptySeq DEF ShellInv
<1>9. /\ script' = script /\ status' = status /\ stored' = stored /\ printed' = printed
      /\ shell' = shell /\ pc' = "close" /\ kind' = kind /\ Behaviours' = Behaviours
  BY DEF FindMarker, remoteVars, commandVars, Behaviours
<1>10. /\ Len(outcome'.exit) = j - i /\ DOMAIN outcome'.exit = 1..(j - i)
       /\ \A m \in 1..(j - i) : outcome'.exit[m] = status[m]
  <2>1. i + 1 \in Nat \ {0} /\ j \in 0..Len(stream) /\ i + 1 <= j + 1
    BY <1>3, <1>5
  <2>2. /\ SubSeq(stream, i + 1, j) \in Seq(Tokens)
        /\ Len(SubSeq(stream, i + 1, j)) = j - (i + 1) + 1
        /\ \A m \in 1..(j - (i + 1) + 1) : SubSeq(stream, i + 1, j)[m] = stream[(i + 1) + m - 1]
    <3>1. stream \in Seq(Tokens)
      BY <1>3
    <3> QED
      BY <2>1, <3>1, SubSeqOfTokens, Zenon
  <2>3. j - (i + 1) + 1 = j - i /\ \A m \in 1..(j - i) : (i + 1) + m - 1 = i + m
    BY <1>3
  <2>4. PICK x \in Seq(Tokens) : x = SubSeq(stream, i + 1, j)
    BY <2>2
  <2>5. outcome'.exit = x
    BY <1>2, <2>4
  <2>6. Len(x) = j - i /\ \A m \in 1..(j - i) : x[m] = stream[i + m]
    BY <2>2, <2>3, <2>4
  <2>7. DOMAIN x = 1..(j - i)
    BY <2>6
  <2>8. \A m \in 1..(j - i) : x[m] = status[m]
    BY <1>7, <2>6
  <2> QED
    BY <2>5, <2>6, <2>7, <2>8
<1>11. status # <<>> /\ status \in Statuses /\ j - i \in Nat /\ 1 <= j - i
  <2>1. j - i \in Nat /\ 1 <= j - i
    BY <1>a, <1>5
  <2>2. status # <<>>
    BY <1>7, <2>1
  <2> QED
    BY <2>1, <2>2 DEF TypeOK
<1>12. ReportedStatus'
  <2>1. outcome'.exit # <<>>
    BY <1>10, <1>11
  <2> QED
    BY <1>7, <1>8, <1>9, <1>10, <1>11, <2>1 DEF ReportedStatus
<1>13. PayloadInv'
  <2> SUFFICES ASSUME kind = "download", outcome'.exit = Success,
                      NEW b \in DOMAIN outcome'.text, NEW e \in DOMAIN outcome'.text,
                      Payload(outcome'.text, b, e)
               PROVE SubSeq(outcome'.text, b + 1, e - 1) = Output
    BY <1>9 DEF PayloadInv, Payload, FirstAt
  <2>1. status = Success
    <3>1. outcome'.exit[1] = "0"
      BY DEF Success
    <3> QED
      BY <1>10, <1>11, <3>1
  <2>2. /\ outcome'.text \in Seq(Tokens) /\ Len(outcome'.text) = i - 1
        /\ \A k \in 1..(i - 1) : outcome'.text[k] = stream[k]
    <3>1. i - 1 \in 0..Len(stream)
      BY <1>3
    <3>2. /\ SubSeq(stream, 1, i - 1) \in Seq(Tokens)
          /\ Len(SubSeq(stream, 1, i - 1)) = (i - 1) - 1 + 1
          /\ \A k \in 1..((i - 1) - 1 + 1) : SubSeq(stream, 1, i - 1)[k] = stream[1 + k - 1]
      BY <1>3, <3>1, SubSeqFacts
    <3>3. outcome'.text = SubSeq(stream, 1, i - 1)
      BY <1>2
    <3> QED
      BY <1>3, <3>2, <3>3
  <2>3. /\ b \in 1..(i - 1) /\ e \in 1..(i - 1) /\ b < e
        /\ stream[b] = "begin" /\ stream[e] = "end"
        /\ \A k \in (b + 1)..(e - 1) : stream[k] \in Text
    <3>1. /\ b \in 1..(i - 1) /\ e \in 1..(i - 1) /\ b < e
          /\ outcome'.text[b] = "begin" /\ outcome'.text[e] = "end"
          /\ \A k \in (b + 1)..(e - 1) : outcome'.text[k] \in Text
      <4>1. DOMAIN outcome'.text = 1..(i - 1)
        BY <1>a, <2>2
      <4> QED
        BY <4>1 DEF Payload, FirstAt
    <3>2. \A k \in (b + 1)..(e - 1) : k \in 1..(i - 1)
      BY <1>3, <3>1
    <3> QED
      BY <2>2, <3>1, <3>2
  <2>a. b \in Nat /\ e \in Nat /\ 1 <= b /\ b < e /\ e < i
    BY <1>a, <2>3
  <2>4. o < b
    <3> SUFFICES ASSUME b <= o PROVE FALSE
      BY <2>3
    <3>1. b \in DOMAIN stream
      BY <1>3, <2>3
    <3>2. PICK h \in DOMAIN stream : h <= o /\ stream[h] = "echo"
      BY <1>6, <2>3, <3>1 DEF Shape, Before, EchoFollows
    <3>3. h \in 1..(i - 1)
      BY <1>a, <1>b, <1>7, <3>2
    <3> QED
      BY <1>5, <3>2, <3>3 DEF IsMarker
  <2>5. \A k \in b..e : k - o \in 1..L /\ stream[k] = printed[k - o]
    <3> SUFFICES ASSUME NEW k \in b..e PROVE k - o \in 1..L /\ stream[k] = printed[k - o]
      OBVIOUS
    <3>0. k \in Nat /\ o < k /\ k <= o + L /\ k \in 1..Len(stream)
      BY <1>a, <1>b, <1>7, <2>a, <2>4
    <3>1. k \in DOMAIN stream /\ o < k /\ k <= o + L
      BY <1>3, <3>0
    <3>2. stream[k] = printed[k - o]
      BY <1>6, <3>1 DEF Shape, During, L
    <3> QED
      BY <1>b, <3>0, <3>2
  <2> DEFINE x == b - o
             y == e - o
  <2>6. /\ x \in DOMAIN printed /\ y \in DOMAIN printed /\ x < y
        /\ printed[x] = "begin" /\ printed[y] = "end"
        /\ \A k \in (x + 1)..(y - 1) : printed[k] \in Text
    <3>1. b \in b..e /\ e \in b..e /\ b \in Int /\ e \in Int
      BY <2>a
    <3>3. DOMAIN printed = 1..L
      BY <1>3 DEF L
    <3>2. ASSUME NEW k \in (x + 1)..(y - 1) PROVE printed[k] \in Text
      <4>a. k \in Int /\ b < k + o /\ k + o < e
        BY <3>1
      <4>1. k + o \in b..e /\ k + o \in (b + 1)..(e - 1) /\ (k + o) - o = k
        BY <2>a, <4>a
      <4>2. stream[k + o] \in Text
        BY <2>3, <4>1
      <4>3. stream[k + o] = printed[(k + o) - o]
        BY <2>5, <4>1
      <4> QED
        BY <4>1, <4>2, <4>3
    <3>4. x \in DOMAIN printed /\ printed[x] = "begin"
      BY <2>3, <2>5, <3>1, <3>3
    <3>5. y \in DOMAIN printed /\ printed[y] = "end"
      BY <2>3, <2>5, <3>1, <3>3
    <3>6. x < y
      BY <2>a
    <3> QED
      BY <3>2, <3>4, <3>5, <3>6
  <2>7. \/ printed = <<"begin">> \o Output \o <<"end">>
        \/ \E p \in Prefixes : printed = <<"begin">> \o p \o <<"err", "end">>
    BY <1>8, <2>1, DownloadPrints
  <2> HIDE DEF x, y
  <2>8. x = 1 /\ y = Len(Output) + 2 /\ \A k \in 1..Len(Output) : printed[k + 1] = Output[k]
    BY <1>3, <2>6, <2>7, MarksOfPrinted
  <2>9. b = o + 1 /\ e = o + (Len(Output) + 2) /\ Len(Output) \in Nat
    <3>1. Len(Output) \in Nat
      BY TextIsClean
    <3>2. b - o = 1 /\ e - o = Len(Output) + 2
      BY <2>8 DEF x, y
    <3>3. o \in Int /\ b \in Int /\ e \in Int
      BY <2>a
    <3>4. \A u, v \in Int : u - o = v => u = o + v
      BY <3>3
    <3>7. Len(Output) + 2 \in Int
      BY <3>1
    <3>5. e = o + (Len(Output) + 2)
      BY <3>2, <3>3, <3>4, <3>7, Zenon
    <3>6. b = o + 1
      BY <3>2, <3>3, <3>4
    <3> QED
      BY <3>1, <3>5, <3>6
  <2>c. PICK text \in Seq(Tokens) : text = outcome'.text
    BY <2>2
  <2>d. Len(text) = i - 1 /\ \A k \in 1..(i - 1) : text[k] = stream[k]
    BY <2>2, <2>c
  <2> DEFINE file == SubSeq(text, b + 1, e - 1)
  <2>10. /\ file \in Seq(Tokens) /\ Len(file) = Len(Output)
         /\ \A k \in 1..Len(Output) : file[k] = text[b + k]
    <3>1. b + 1 \in Nat \ {0} /\ e - 1 \in 0..Len(text) /\ b + 1 <= (e - 1) + 1
      BY <1>a, <2>a, <2>d
    <3>2. /\ file \in Seq(Tokens) /\ Len(file) = (e - 1) - (b + 1) + 1
          /\ \A k \in 1..((e - 1) - (b + 1) + 1) : file[k] = text[(b + 1) + k - 1]
      BY <2>c, <3>1, SubSeqOfTokens, Zenon DEF file
    <3>3. (e - 1) - (b + 1) + 1 = Len(Output) /\ \A k \in 1..Len(Output) : (b + 1) + k - 1 = b + k
      BY <2>a, <2>9
    <3> QED
      BY <3>2, <3>3
  <2> HIDE DEF file
  <2>11. ASSUME NEW k \in 1..Len(Output) PROVE file[k] = Output[k]
    <3>1. b + k \in b..e /\ b + k \in 1..(i - 1) /\ (b + k) - o = k + 1
      BY <1>a, <2>a, <2>9
    <3>2. file[k] = stream[b + k]
      BY <2>d, <2>10, <3>1
    <3>3. stream[b + k] = printed[k + 1]
      BY <2>5, <3>1
    <3> QED
      BY <2>8, <3>2, <3>3
  <2>12. file = Output
    <3>1. Output \in Seq(Tokens)
      BY TextIsClean, SeqOfMore
    <3> QED
      BY <2>10, <2>11, <3>1, SeqEqual
  <2> QED
    BY <2>c, <2>12 DEF file
<1>14. outcome'.by = "status"
  BY <1>2
<1> QED
  BY <1>7, <1>8, <1>9, <1>12, <1>13, <1>14 DEF OutcomeInv

LEMMA OutcomeInvInvariant ==
  ASSUME TypeOK, TypeOK', ShellInv, StreamInv, OutcomeInv, [Next]_vars PROVE OutcomeInv'
<1>k. kind' = kind /\ Behaviours' = Behaviours
  BY KindKept
<1>x. Success # <<>> /\ Failure # Success /\ TimedOut # Success
  BY DEF Success, Failure, TimedOut
\* Nothing happens to the outcome of a command that has ended.
<1>1. ASSUME outcome' = outcome, pc' = pc,
             outcome.by = "status" => /\ shell' \in {"ended", "none"} /\ script' = script
                                      /\ status' = status /\ stored' = stored
                                      /\ printed' = printed
      PROVE OutcomeInv'
  BY <1>1, <1>k DEF OutcomeInv, ReportedStatus, PayloadInv, Payload, FirstAt
<1>2. ASSUME outcome' \in {Pending, Errored}, outcome' = Errored => pc' \in {"close", "done"}
      PROVE OutcomeInv'
  BY <1>2, <1>x DEF OutcomeInv, Pending, Errored
<1>3. ASSUME outcome' = outcome, outcome.by = "none" PROVE OutcomeInv'
  BY <1>3 DEF OutcomeInv
<1>4. CASE ShellStarts \/ SttyRuns \/ CommandBegins \/ CommandPrints
  <2>1. outcome.by # "status"
    BY <1>4 DEF ShellStarts, SttyRuns, CommandBegins, CommandPrints, OutcomeInv
  <2> QED
    BY <1>1, <1>4, <2>1 DEF ShellStarts, SttyRuns, CommandBegins, CommandPrints, daemonVars
<1>5. CASE CommandEnds
  <2>1. outcome.by # "status"
    BY <1>5 DEF CommandEnds, OutcomeInv
  <2> QED
    BY <1>1, <1>5, <2>1 DEF CommandEnds, daemonVars
<1>6. CASE SocketEnds \/ ClientHears \/ ClientGivesUp \/ UNCHANGED vars
  <2>1. UNCHANGED <<daemonVars, remoteVars>>
    BY <1>6 DEF SocketEnds, ClientHears, ClientGivesUp, vars
  <2>2. /\ outcome' = outcome /\ pc' = pc /\ shell' = shell /\ script' = script
        /\ status' = status /\ stored' = stored /\ printed' = printed
    BY <2>1 DEF daemonVars, remoteVars, commandVars
  <2>3. outcome.by = "status" => shell \in {"ended", "none"}
    BY DEF OutcomeInv
  <2> QED
    BY <1>1, <2>2, <2>3
<1>7. CASE Context
  <2>1. outcome.by = "none"
    BY <1>7 DEF Context, OutcomeInv
  <2> QED
    BY <1>2, <1>3, <1>7, <2>1 DEF Context, Errored
<1>8. CASE Create \/ Connect \/ SendPrelude \/ SendScript
  BY <1>3, <1>8 DEF Create, Connect, SendPrelude, SendScript, OutcomeInv
<1>9. CASE CreateFails \/ ConnectFails \/ SocketErrs
  <2>1. outcome' \in {Pending, Errored} /\ (outcome' = Errored => pc' \in {"close", "done"})
    BY <1>9 DEF CreateFails, ConnectFails, SocketErrs, Errs, NextAttempt, Pending, Errored
  <2> QED
    BY <1>2, <2>1
<1>10. CASE ReadMore \/ SplitPanics
  BY <1>3, <1>10 DEF ReadMore, SplitPanics, OutcomeInv
<1>11. CASE Deadline
  BY <1>11, <1>x DEF Deadline, OutcomeInv
<1>12. CASE Close
  <2>1. CASE outcome.by = "error"
    <3>1. outcome' \in {Pending, Errored} /\ (outcome' = Errored => pc' \in {"close", "done"})
      BY <1>12, <2>1 DEF Close, NextAttempt, Pending, Errored
    <3> QED
      BY <1>2, <3>1
  <2>2. CASE outcome.by # "error"
    <3>1. /\ outcome' = outcome /\ pc' = "done" /\ shell' \in {shell, "none"} /\ script' = script
          /\ status' = status /\ stored' = stored /\ printed' = printed
      BY <1>12, <2>2 DEF Close, commandVars
    <3> QED
      BY <3>1, <1>k DEF OutcomeInv, ReportedStatus, PayloadInv, Payload, FirstAt
  <2> QED
    BY <2>1, <2>2
<1> QED
  BY <1>4, <1>5, <1>6, <1>7, <1>8, <1>9, <1>10, <1>11, <1>12, FindMarkerOutcome
     DEF Next, Remote, Daemon, Client

\* An archive that was extracted is whole; a destination that got its mode exists,
\* and if it is not the file there was a message.
LEMMA StoredBySuccess ==
  ASSUME NEW b \in Behaviours, b.status = Success, kind \in AllKinds
  PROVE /\ kind = "archive" => b.stored = "whole"
        /\ kind = "upload" => b.stored # "none" /\ (b.stored = "whole" \/ b.out = <<"err">>)
<1>1. Success # <<>> /\ Failure # Success
  BY DEF Success, Failure
<1>2. CASE kind = "archive"
  BY <1>1, <1>2 DEF Behaviours, ArchiveBehaviours, Behaves
<1>3. CASE kind = "upload"
  BY <1>1, <1>3 DEF Behaviours, UploadBehaviours, Behaves
<1> QED
  BY <1>2, <1>3

\* What is reported of a command that printed a message holds the message.
LEMMA MessageIsReported ==
  ASSUME TypeOK, OutputIsTail, outcome.by = "status", printed = <<"err">>
  PROVE  \E k \in DOMAIN outcome.text : outcome.text[k] = "err"
<1> DEFINE text == outcome.text
           before == Len(text) - Len(printed)
<1>1. text \in Seq(Tokens) /\ Len(text) \in Nat /\ DOMAIN text = 1..Len(text)
  BY DEF TypeOK
<1>2. Len(printed) = 1 /\ printed[1] = "err" /\ DOMAIN printed = {1}
  OBVIOUS
<1>3. Size(printed) = 0
  <2>1. {i \in DOMAIN printed : printed[i] \in Text} = {}
    BY <1>2, RemoteRunAssumption DEF Marks
  <2> QED
    BY <2>1, FS_EmptySet DEF Size
<1>4. before >= 0
  BY <1>3, RemoteRunAssumption DEF OutputIsTail
<1>5. Len(text) \in DOMAIN text /\ Len(text) > before /\ Len(text) - before = 1
  BY <1>1, <1>2, <1>4
<1>6. text[Len(text)] = printed[Len(text) - before]
  BY <1>1, <1>2, <1>5 DEF OutputIsTail
<1> QED
  BY <1>2, <1>5, <1>6

LEMMA ClientInvInvariant ==
  ASSUME TypeOK, ShellInv, OutcomeInv, OutputIsTail, ClientInv, [Next]_vars PROVE ClientInv'
<1>k. kind' = kind
  BY KindKept
<1>1. CASE ClientHears
  <2>1. /\ outcome' = outcome /\ pc = "done" /\ pc' = pc /\ script' = script /\ status' = status
        /\ stored' = stored /\ Hears
    BY <1>1 DEF ClientHears, daemonVars, remoteVars, commandVars
  <2>2. Failure # Success
    BY DEF Success, Failure
  <2>3. CASE client'.exit # Success
    BY <2>3 DEF ClientInv
  <2>4. CASE client'.exit = Success
    <3>1. outcome.exit = Success
      BY <2>1, <2>2, <2>4 DEF Hears, Answer, Succeeded, Decoded
    <3>2. outcome.by = "status"
      BY <3>1 DEF OutcomeInv
    <3>3. status = Success /\ script = <<>>
      <4>1. /\ script = <<>> /\ status # <<>> /\ Len(outcome.exit) <= Len(status)
            /\ \A k \in DOMAIN outcome.exit : outcome.exit[k] = status[k]
        BY <3>2 DEF OutcomeInv, ReportedStatus
      <4>2. status[1] = "0"
        BY <3>1, <4>1 DEF Success
      <4> QED
        BY <4>1, <4>2, RemoteRunAssumption DEF TypeOK
    <3>4. PICK way \in Behaviours :
            way.out = printed /\ way.status = status /\ way.stored = stored
      BY <3>2 DEF OutcomeInv
    <3>5. kind \in AllKinds
      BY RemoteRunAssumption DEF TypeOK
    <3>6. /\ kind = "archive" => stored = "whole"
          /\ kind = "upload" => stored # "none" /\ (stored = "whole" \/ printed = <<"err">>)
      BY <3>3, <3>4, <3>5, StoredBySuccess
    <3>8. printed = <<"err">> => \E k \in DOMAIN outcome.text : outcome.text[k] = "err"
      BY <3>2, MessageIsReported
    <3>7. kind = "download" => client'.file = Output
      <4> SUFFICES ASSUME kind = "download" PROVE client'.file = Output
        OBVIOUS
      <4>1. PICK b \in DOMAIN outcome.text, e \in DOMAIN outcome.text :
              /\ Payload(outcome.text, b, e)
              /\ client' = [exit |-> Success, file |-> SubSeq(outcome.text, b + 1, e - 1)]
        BY <2>1, <2>2, <2>4 DEF Hears, Answer, Decoded
      <4>2. PayloadInv
        BY <3>2 DEF OutcomeInv
      <4> QED
        BY <3>1, <4>1, <4>2 DEF PayloadInv
    <3> QED
      BY <1>k, <2>1, <3>2, <3>3, <3>6, <3>7, <3>8 DEF ClientInv, ZeroMeansDone
  <2> QED
    BY <2>3, <2>4
<1>2. CASE ClientGivesUp
  <2>1. client'.exit \in {Failure, TimedOut} /\ Failure # Success /\ TimedOut # Success
    BY <1>2 DEF ClientGivesUp, Answer, Success, Failure, TimedOut
  <2> QED
    BY <2>1 DEF ClientInv
<1>3. ASSUME client' = client, pc = "done" => UNCHANGED <<outcome, pc, script, status, stored>>
      PROVE ClientInv'
  BY <1>3, <1>k DEF ClientInv, ZeroMeansDone
<1>4. CASE \/ Context \/ Create \/ Connect \/ CreateFails \/ ConnectFails \/ SocketErrs \/ SendPrelude
           \/ SendScript \/ FindMarker \/ ReadMore \/ SplitPanics \/ Deadline \/ Close
  <2>1. client' = client /\ pc # "done"
    BY <1>4 DEF Context, Create, Connect, CreateFails, ConnectFails, SocketErrs, SendPrelude,
       SendScript, FindMarker, ReadMore, SplitPanics, Deadline, Close
  <2> QED
    BY <1>3, <2>1
<1>5. CASE ShellStarts \/ SttyRuns \/ CommandBegins \/ CommandPrints \/ CommandEnds
  <2>1. client' = client /\ outcome' = outcome /\ pc' = pc
    BY <1>5 DEF ShellStarts, SttyRuns, CommandBegins, CommandPrints, CommandEnds, daemonVars
  <2>2. shell \in {"starting", "ready", "running"}
    BY <1>5 DEF ShellStarts, SttyRuns, CommandBegins, CommandPrints, CommandEnds
  <2>3. client.exit = Success => shell \in {"ended", "none"}
    BY DEF ClientInv, ZeroMeansDone, OutcomeInv
  <2> QED
    BY <2>1, <2>2, <2>3 DEF ClientInv
<1>6. CASE SocketEnds \/ UNCHANGED vars
  BY <1>3, <1>6 DEF SocketEnds, vars, daemonVars, remoteVars, commandVars
<1> QED
  BY <1>1, <1>2, <1>4, <1>5, <1>6 DEF Next, Remote, Daemon, Client

-----------------------------------------------------------------------------
(* The output that is reported, and the statuses that are missed. *)

\* Only a command prints, and only a new terminal forgets what was printed.
LEMMA PrintedChanges ==
  ASSUME ShellInv, [Next]_vars
  PROVE \/ printed' = printed
        \/ CommandPrints /\ printed' = Append(printed, Head(script))
        \/ Connect
<1>1. CommandBegins => printed' = printed
  BY DEF CommandBegins, ShellInv
<1> QED
  BY <1>1 DEF Next, Remote, Daemon, Client, ShellStarts, SttyRuns, CommandPrints, CommandEnds,
     SocketEnds, Context, Create, CreateFails, ConnectFails, SocketErrs, SendPrelude, SendScript,
     FindMarker, ReadMore, SplitPanics, Deadline, Close, ClientHears, ClientGivesUp,
     vars, remoteVars, commandVars

LEMMA PrintedGrows ==
  ASSUME TypeOK, TypeOK', ShellInv, [Next]_vars, ~Connect
  PROVE /\ Size(printed) \in Nat /\ Size(printed') \in Nat
        /\ Size(printed) <= Size(printed')
<1>1. printed \in Seq(Tokens) /\ printed' \in Seq(Tokens)
  BY DEF TypeOK
<1>2. \A k \in DOMAIN printed : k \in DOMAIN printed' /\ printed'[k] = printed[k]
  <2>1. CASE printed' = printed
    BY <2>1
  <2>2. CASE CommandPrints /\ printed' = Append(printed, Head(script))
    <3>1. Head(script) \in Tokens
      BY <2>2 DEF TypeOK, CommandPrints
    <3> QED
      BY <1>1, <2>2, <3>1
  <2> QED
    BY <2>1, <2>2, PrintedChanges
<1> QED
  BY <1>1, <1>2, SizeGrows

\* A printed marker is where the report begins.
LEMMA MarkIsReport ==
  ASSUME TypeOK, ShellInv, NEW o \in Int, Shape(stream, o),
         NEW i \in DOMAIN stream, stream[i] = "mark"
  PROVE shell = "ended" /\ i = o + Len(printed) + 1
<1>1. /\ i \in Int /\ Len(printed) \in Nat /\ DOMAIN printed = 1..Len(printed)
      /\ Before(stream, o, i) /\ During(stream, o, i) /\ After(stream, o, i)
  BY DEF TypeOK, Shape
<1>2. ~(i <= o)
  BY <1>1 DEF Before, Early
<1>3. o + Len(printed) < i
  <2> SUFFICES ASSUME i <= o + Len(printed) PROVE FALSE
    BY <1>1
  <2>1. i - o \in DOMAIN printed /\ printed[i - o] = "mark"
    BY <1>1, <1>2 DEF During
  <2>2. printed[i - o] \in Clean
    BY <2>1 DEF ShellInv
  <2> QED
    BY <2>1, <2>2, TextIsClean
<1> DEFINE m == i - o - Len(printed)
<1>4. shell = "ended" /\ m \in DOMAIN Report /\ Report[m] = "mark"
  BY <1>1, <1>3 DEF After
<1>5. m = 1
  <2>1. m \in 1..(Len(status) + 2) /\ Len(status) \in Nat
    BY <1>4, ReportFacts
  <2>2. m # Len(status) + 2
    BY <1>4, ReportFacts
  <2>3. m - 1 \in 1..Len(status) => Report[(m - 1) + 1] \in Digits /\ (m - 1) + 1 = m
    BY <2>1, ReportFacts
  <2> QED
    BY <1>4, <2>1, <2>2, <2>3, TextIsClean
<1>6. i = o + Len(printed) + 1
  BY <1>1, <1>5
<1> QED
  BY <1>4, <1>6

\* What precedes the report: at its end what was printed, before that no output.
LEMMA FoundTail ==
  ASSUME TypeOK, TypeOK', ShellInv, StreamInv, FindMarker PROVE OutputIsTail'
<1> DEFINE L == Len(printed)
           text == outcome'.text
<1>1. PICK i \in 1..Len(stream), j \in 1..Len(stream), o \in Int :
        /\ Shape(stream, o) /\ i = o + L + 1
        /\ outcome' = [by |-> "status", exit |-> SubSeq(stream, i + 1, j),
                       text |-> SubSeq(stream, 1, i - 1)]
  BY FoundReport
<1>2. /\ stream \in Seq(Tokens) /\ Len(stream) \in Nat /\ DOMAIN stream = 1..Len(stream)
      /\ L \in Nat /\ DOMAIN printed = 1..L
      /\ printed' = printed
  BY DEF TypeOK, FindMarker, remoteVars, commandVars
<1>3. /\ text \in Seq(Tokens) /\ Len(text) = i - 1 /\ DOMAIN text = 1..(i - 1)
      /\ \A k \in 1..(i - 1) : k \in DOMAIN stream /\ text[k] = stream[k]
  <2>1. i - 1 \in 0..Len(stream) /\ text = Received(i - 1)
    BY <1>1, <1>2 DEF Received
  <2> QED
    BY <1>2, <2>1, ReceivedFacts
<1>a. L \in Nat /\ i = o + L + 1 /\ i \in Int /\ o \in Int /\ Shape(stream, o)
  BY <1>1, <1>2
<1> HIDE DEF text, L
<1>4. Len(text) - L = o
  <2>1. Len(text) = i - 1
    BY <1>3
  <2> QED
    BY <1>a, <2>1
<1>5. ASSUME NEW k \in DOMAIN text
      PROVE IF k <= o THEN text[k] \notin Text ELSE text[k] = printed[k - o]
  <2>1. k \in Int /\ k <= o + L /\ k \in DOMAIN stream /\ text[k] = stream[k]
    <3>1. k \in 1..(i - 1)
      BY <1>3
    <3> QED
      BY <1>3, <1>a, <3>1
  <2>a. Before(stream, o, k) /\ During(stream, o, k)
    BY <1>a, <2>1 DEF Shape
  <2>2. CASE k <= o
    BY <2>1, <2>2, <2>a, RemoteRunAssumption DEF Before, Early, Marks
  <2>3. CASE ~(k <= o)
    BY <1>a, <2>1, <2>3, <2>a DEF During, L
  <2> QED
    BY <2>2, <2>3
<1>6. Size(stream) \in Nat /\ Size(text) \in Nat /\ Size(stream) <= Size(text)
  <2>1. ASSUME NEW k \in DOMAIN stream, stream[k] \in Text
        PROVE k - 0 \in DOMAIN text /\ text[k - 0] \in Text
    <3>1. k - o \in 1..L
      BY <1>2, <1>a, <2>1, OutputIsPrinted DEF L
    <3>2. k - 0 = k /\ k \in 1..(i - 1)
      <4>1. k \in 1..Len(stream)
        BY <1>2
      <4> QED
        BY <1>a, <3>1, <4>1
    <3> QED
      BY <1>3, <2>1, <3>2
  <2>2. stream \in Seq(Tokens) /\ text \in Seq(Tokens)
    BY <1>2, <1>3
  <2> QED
    BY <2>1, <2>2, SizeShifts
<1>7. Kept(stream, o) /\ Keep \in Nat
  BY <1>1, RemoteRunAssumption DEF Shape
<1>8. /\ Size(printed) <= 2 * Keep => o >= 0
      /\ o < 0 => Keep <= Size(text)
  BY <1>6, <1>7 DEF Kept
<1> QED
  BY <1>2, <1>4, <1>5, <1>8 DEF OutputIsTail, text, L

LEMMA OutputIsTailInvariant ==
  ASSUME TypeOK, TypeOK', ShellInv, StreamInv, OutcomeInv, OutputIsTail, [Next]_vars
  PROVE OutputIsTail'
<1>1. CASE FindMarker
  BY <1>1, FoundTail
<1>2. CASE outcome' = outcome /\ printed' = printed
  BY <1>2 DEF OutputIsTail
<1>3. CASE outcome'.by # "status"
  BY <1>3 DEF OutputIsTail
<1>4. outcome' = outcome \/ FindMarker \/ outcome' \in {Pending, Errored} \/ Deadline
  BY DEF Next, Remote, Daemon, Client, ShellStarts, SttyRuns, CommandBegins, CommandPrints,
     CommandEnds, SocketEnds, Context, Create, Connect, CreateFails, ConnectFails, SocketErrs, Errs,
     NextAttempt, SendPrelude, SendScript, ReadMore, SplitPanics, Close,
     ClientHears, ClientGivesUp, vars, daemonVars
<1>5. outcome' \in {Pending, Errored} \/ Deadline => outcome'.by # "status"
  BY DEF Pending, Errored, Deadline
<1>6. CommandPrints \/ Connect => outcome.by # "status"
  BY DEF CommandPrints, Connect, OutcomeInv
<1> QED
  BY <1>1, <1>2, <1>3, <1>4, <1>5, <1>6, PrintedChanges

\* While the daemon waits, only its own reading moves `seen` or cuts the stream.
LEMMA WaitingStream ==
  ASSUME TypeOK, TypeOK', [Next]_vars, pc' = "wait", ~SendScript, ~ReadMore
  PROVE /\ pc = "wait" /\ seen' = seen
        /\ \A k \in DOMAIN stream : k \in DOMAIN stream' /\ stream'[k] = stream[k]
<1>1. ASSUME NEW t \in Seq(Tokens), Writes(t)
      PROVE \A k \in DOMAIN stream : k \in DOMAIN stream' /\ stream'[k] = stream[k]
  <2>1. CASE socket = "open"
    <3>1. /\ Len(stream') = Len(stream) + Len(t)
          /\ \A k \in DOMAIN stream' :
               stream'[k] = IF k <= Len(stream) THEN stream[k] ELSE t[k - Len(stream)]
      BY <1>1, <2>1, WritesAppends DEF TypeOK
    <3>2. stream \in Seq(Tokens) /\ stream' \in Seq(Tokens) /\ Len(t) \in Nat
      BY DEF TypeOK
    <3> QED
      BY <3>1, <3>2
  <2>2. CASE socket # "open"
    BY <1>1, <2>2 DEF Writes
  <2> QED
    BY <2>1, <2>2
<1>2. CASE ShellStarts
  BY <1>1, <1>2, EchoTyped DEF ShellStarts, daemonVars
<1>3. CASE CommandPrints
  <2>1. <<Head(script)>> \in Seq(Tokens)
    BY <1>3 DEF CommandPrints, TypeOK
  <2> QED
    BY <1>1, <1>3, <2>1 DEF CommandPrints, daemonVars
<1>4. CASE CommandEnds
  BY <1>1, <1>4, ReportFacts DEF CommandEnds, daemonVars
<1>5. CASE SttyRuns \/ CommandBegins \/ SocketEnds \/ ClientHears \/ ClientGivesUp \/ UNCHANGED vars
  BY <1>5 DEF SttyRuns, CommandBegins, SocketEnds, ClientHears, ClientGivesUp, vars, daemonVars
<1> QED
  BY <1>2, <1>3, <1>4, <1>5 DEF Next, Remote, Daemon, Client, Context, Create, Connect, CreateFails,
     ConnectFails, SocketErrs, Errs, NextAttempt, SendPrelude, FindMarker, SplitPanics,
     Deadline, Close

\* A printed marker with a digit behind it is found, if no echo is before it.
LEMMA ReportIsFound ==
  ASSUME TypeOK, ShellInv, StreamInv, pc = "wait", NEW n \in 0..Len(stream),
         ~Finds(Received(n)), NEW i \in DOMAIN stream, i < n, stream[i] = "mark"
  PROVE \E k \in 1..i : stream[k] = "echo"
<1> SUFFICES ASSUME \A k \in 1..i : stream[k] # "echo" PROVE FALSE
  OBVIOUS
<1> DEFINE S == Len(status)
           L == Len(printed)
           j == IF n - i <= S THEN n ELSE i + S
<1>1. PICK o \in Int : Shape(stream, o)
  BY DEF StreamInv
<1>2. shell = "ended" /\ i = o + L + 1
  BY <1>1, MarkIsReport
<1>3. /\ stream \in Seq(Tokens) /\ DOMAIN stream = 1..Len(stream) /\ Len(stream) \in Nat
      /\ L \in Nat /\ S \in Nat /\ S # 0 /\ i \in Nat \ {0} /\ n \in Nat
  <2>1. status \in Seq(Digits) /\ status # <<>>
    BY <1>2, ReportFacts DEF ShellInv
  <2> QED
    BY <2>1 DEF TypeOK
<1>4. /\ Received(n) \in Seq(Tokens) /\ Len(Received(n)) = n /\ DOMAIN Received(n) = 1..n
      /\ \A k \in 1..n : k \in DOMAIN stream /\ Received(n)[k] = stream[k]
  BY <1>3, ReceivedFacts
<1>5. j \in (i + 1)..n /\ j - i <= S /\ (j < n => j = i + S)
  BY <1>3
<1>6. ASSUME NEW k \in (i + 1)..n
      PROVE (k - i) + 1 \in 1..(S + 2) /\ stream[k] = Report[(k - i) + 1] /\ k \in 1..n
  <2>1. k \in 1..n /\ o + L < k /\ k - o - L = (k - i) + 1
    BY <1>2, <1>3
  <2>2. After(stream, o, k)
    BY <1>1, <1>4, <2>1 DEF Shape
  <2> QED
    BY <2>1, <2>2, ReportFacts DEF After
<1> HIDE DEF S, L, j
<1>7. ASSUME NEW k \in (i + 1)..j PROVE Received(n)[k] \in Digits
  <2>1. k \in (i + 1)..n /\ k - i \in 1..S
    BY <1>3, <1>5
  <2>2. Report[(k - i) + 1] \in Digits
    BY <2>1, ReportFacts DEF S
  <2> QED
    BY <1>4, <1>6, <2>1, <2>2
<1>8. j < n => Received(n)[j + 1] \notin Digits
  <2> SUFFICES ASSUME j < n PROVE Received(n)[j + 1] \notin Digits
    OBVIOUS
  <2>1. j + 1 \in (i + 1)..n /\ ((j + 1) - i) + 1 = S + 2
    BY <1>3, <1>5
  <2>2. stream[j + 1] = Report[S + 2] /\ j + 1 \in 1..n
    BY <1>6, <2>1
  <2>3. stream[j + 1] = "nl"
    BY <2>2, ReportFacts DEF S
  <2>4. "nl" \notin Digits
    BY RemoteRunAssumption DEF Marks
  <2> QED
    BY <1>4, <2>2, <2>3, <2>4
<1>9. DigitsEnd(Received(n), i, j)
  BY <1>4, <1>5, <1>7, <1>8 DEF DigitsEnd
<1>10. MarkerAt(Received(n), i)
  <2>1. i \in 1..n
    BY <1>3
  <2>2. ASSUME NEW k \in 1..(i - 1), IsMarker(stream[k]) PROVE FALSE
    <3>1. k \in DOMAIN stream /\ k \in 1..i /\ k # i /\ k \in Int
      BY <1>3
    <3>2. stream[k] = "mark"
      BY <2>2, <3>1 DEF IsMarker
    <3>3. k = o + L + 1
      BY <1>1, <3>1, <3>2, MarkIsReport DEF L
    <3> QED
      BY <1>2, <3>1, <3>3
  <2>3. \A k \in 1..(i - 1) : k \in 1..n
    BY <1>3
  <2> QED
    BY <1>4, <2>1, <2>2, <2>3 DEF MarkerAt, IsMarker
<1>11. i \in DOMAIN Received(n) /\ j \in DOMAIN Received(n)
  BY <1>3, <1>4, <1>5
<1> QED
  BY <1>9, <1>10, <1>11 DEF Finds

LEMMA SeenInvInvariant ==
  ASSUME TypeOK, TypeOK', ShellInv, StreamInv, SeenInv, [Next]_vars PROVE SeenInv'
<1> SUFFICES ASSUME pc' = "wait", Size(printed') <= 2 * Keep
             PROVE EchoBefore(stream', seen')
  BY DEF SeenInv, EchoBefore
<1>1. Size(printed) <= 2 * Keep
  <2>1. ~Connect
    BY DEF Connect
  <2> QED
    BY <2>1, PrintedGrows, RemoteRunAssumption
<1>2. /\ stream \in Seq(Tokens) /\ stream' \in Seq(Tokens)
      /\ seen \in 0..Len(stream) /\ Len(stream) \in Nat
  BY DEF TypeOK
<1>3. CASE SendScript
  <2>1. seen' = 0 /\ \A i \in DOMAIN stream' : ~(i < 0)
    BY <1>2, <1>3 DEF SendScript, DrainAndSend
  <2> QED
    BY <2>1 DEF EchoBefore
<1>4. CASE ReadMore
  <2>1. PICK n \in (seen + 1)..Len(stream) :
          /\ ~Finds(Received(n))
          /\ TooMuch(n) \/ (seen' = n /\ stream' = stream)
    BY <1>4 DEF ReadMore
  <2>2. n \in 0..Len(stream) /\ pc = "wait"
    BY <1>2, <1>4 DEF ReadMore
  <2>3. ~TooMuch(n)
    <3>1. PICK o \in Int : Shape(stream, o)
      BY <2>2 DEF StreamInv
    <3>2. /\ Size(Received(n)) \in Nat /\ Size(printed) \in Nat
          /\ Size(Received(n)) <= Size(printed)
      BY <2>2, <3>1, ReceivedIsPrinted
    <3> QED
      BY <1>1, <3>2, RemoteRunAssumption DEF TooMuch
  <2> QED
    BY <2>1, <2>2, <2>3, ReportIsFound DEF EchoBefore
<1>5. CASE ~SendScript /\ ~ReadMore
  <2>1. /\ pc = "wait" /\ seen' = seen
        /\ \A k \in DOMAIN stream : k \in DOMAIN stream' /\ stream'[k] = stream[k]
    BY <1>5, WaitingStream
  <2>2. EchoBefore(stream, seen)
    BY <1>1, <2>1 DEF SeenInv
  <2> SUFFICES ASSUME NEW i \in DOMAIN stream', i < seen', stream'[i] = "mark"
               PROVE \E k \in 1..i : stream'[k] = "echo"
    BY DEF EchoBefore
  <2>3. i \in DOMAIN stream /\ i \in Nat /\ \A k \in 1..i : k \in DOMAIN stream
    BY <1>2, <2>1
  <2> QED
    BY <2>1, <2>2, <2>3 DEF EchoBefore
<1> QED
  BY <1>3, <1>4, <1>5

LEMMA StatusNotMissedInvariant ==
  ASSUME TypeOK, TypeOK', ShellInv, OutcomeInv, SeenInv, StatusNotMissed, [Next]_vars
  PROVE StatusNotMissed'
<1>1. CASE Deadline
  <2>1. /\ pc = "wait" /\ printed' = printed /\ outcome'.text = Received(seen)
    BY <1>1 DEF Deadline, Received, remoteVars, commandVars
  <2>2. /\ Len(Received(seen)) = seen /\ DOMAIN Received(seen) = 1..seen /\ seen \in Nat
        /\ \A k \in 1..seen : k \in DOMAIN stream /\ Received(seen)[k] = stream[k]
    BY ReceivedFacts DEF TypeOK
  <2> SUFFICES ASSUME Size(printed) <= 2 * Keep, NEW i \in 1..seen,
                      stream[i] = "mark", i < seen
               PROVE \E k \in 1..i : Received(seen)[k] = "echo"
    BY <2>1, <2>2 DEF StatusNotMissed
  <2>3. \E k \in 1..i : stream[k] = "echo"
    BY <2>1, <2>2 DEF SeenInv, EchoBefore
  <2>4. \A k \in 1..i : k \in 1..seen
    BY <2>2
  <2> QED
    BY <2>2, <2>3, <2>4
<1>2. CASE outcome' = outcome /\ ~Connect
  <2>1. Size(printed') <= 2 * Keep => Size(printed) <= 2 * Keep
    BY <1>2, PrintedGrows, RemoteRunAssumption
  <2> QED
    BY <1>2, <2>1 DEF StatusNotMissed
<1>3. CASE Connect
  BY <1>3 DEF Connect, OutcomeInv, StatusNotMissed
<1>4. CASE outcome'.by # "timeout"
  BY <1>4 DEF StatusNotMissed
<1>5. outcome' = outcome \/ FindMarker \/ outcome' \in {Pending, Errored} \/ Deadline
  BY DEF Next, Remote, Daemon, Client, ShellStarts, SttyRuns, CommandBegins, CommandPrints,
     CommandEnds, SocketEnds, Context, Create, Connect, CreateFails, ConnectFails, SocketErrs, Errs,
     NextAttempt, SendPrelude, SendScript, ReadMore, SplitPanics, Close,
     ClientHears, ClientGivesUp, vars, daemonVars
<1>6. FindMarker \/ outcome' \in {Pending, Errored} => outcome'.by # "timeout"
  BY DEF Pending, Errored, FindMarker
<1> QED
  BY <1>1, <1>2, <1>3, <1>4, <1>5, <1>6

-----------------------------------------------------------------------------
(* The theorems. *)

LEMMA InductiveInvariant == SafeSpec => []IInv
<1>1. Init => IInv
  <2> SUFFICES ASSUME Init PROVE IInv
    OBVIOUS
  <2>1. TypeOK
    <3>1. Pending \in [by : Causes, exit : Exits, text : Seq(Tokens)]
      BY ExitsAreTyped DEF Pending, Causes
    <3>2. Waiting \in [exit : Exits, file : Seq(Tokens)]
      BY ExitsAreTyped DEF Waiting
    <3> QED
      BY <3>1, <3>2, RemoteRunAssumption DEF Init, TypeOK, Pcs, Shells
  <2>2. ShellInv /\ StreamInv
    BY DEF Init, ShellInv, StreamInv
  <2>3. <<>> # Success
    BY DEF Success
  <2>4. OutcomeInv /\ ClientInv
    BY <2>3 DEF Init, OutcomeInv, ClientInv, Pending, Waiting
  <2>5. SeenInv /\ OutputIsTail /\ StatusNotMissed
    BY DEF Init, SeenInv, OutputIsTail, StatusNotMissed, Pending
  <2> QED
    BY <2>1, <2>2, <2>4, <2>5 DEF IInv
<1>2. IInv /\ [Next]_vars => IInv'
  <2> SUFFICES ASSUME IInv, [Next]_vars PROVE IInv'
    OBVIOUS
  <2>1. /\ TypeOK /\ ShellInv /\ StreamInv /\ OutcomeInv /\ ClientInv
        /\ SeenInv /\ OutputIsTail /\ StatusNotMissed
    BY DEF IInv
  <2>2. TypeOK'
    BY <2>1, TypeOKInvariant
  <2>3. ShellInv'
    BY <2>1, ShellInvInvariant
  <2>4. StreamInv' /\ OutcomeInv' /\ ClientInv'
    BY <2>1, <2>2, <2>3, StreamInvInvariant, OutcomeInvInvariant, ClientInvInvariant
  <2>5. SeenInv' /\ OutputIsTail' /\ StatusNotMissed'
    BY <2>1, <2>2, SeenInvInvariant, OutputIsTailInvariant, StatusNotMissedInvariant
  <2> QED
    BY <2>2, <2>3, <2>4, <2>5 DEF IInv
<1> QED
  BY <1>1, <1>2, PTL DEF SafeSpec

\* Every variable keeps its type: two attempts at most, and nothing is seen that
\* has not been written.
THEOREM RemoteRunTypeCorrect == SafeSpec => []TypeOK
  BY InductiveInvariant, PTL DEF IInv

\* A status that the daemon reports is that of the command it ran in the last
\* attempt, or the beginning of it, whatever the terminal shows besides.
THEOREM StatusIsReported == SafeSpec => []ReportedStatus
<1>1. IInv => ReportedStatus
  BY DEF IInv, OutcomeInv, ReportedStatus
<1> QED
  BY <1>1, InductiveInvariant, PTL

\* A client that ends with 0 has got what it asked for: the command ended with
\* 0, a downloaded file is the remote one, an archive was extracted, and the
\* destination of a file was written.
THEOREM ZeroIsTrue == SafeSpec => []ZeroMeansDone
<1>1. IInv => ZeroMeansDone
  BY DEF IInv, ClientInv, ZeroMeansDone
<1> QED
  BY <1>1, InductiveInvariant, PTL

\* The output that a request reports is what the command has printed up to its
\* end, all of it unless it was too much, and no output besides.
THEOREM OutputIsReported == SafeSpec => []OutputIsTail
  BY InductiveInvariant, PTL DEF IInv

\* A request ends with 124 only if no digit of the status had arrived, or the
\* terminal had echoed the marker, or output had been cut.
THEOREM TimeoutIsTrue == SafeSpec => []StatusNotMissed
  BY InductiveInvariant, PTL DEF IInv

\* Without a fault the server has at most the terminal of the attempt.
ServerInv == faults = 0 =>
  /\ pc \in {"context", "start", "done"} => server = {}
  /\ server \subseteq {attempt}

\* After the last answer no terminal is left if no request failed and no thread
\* panicked, whatever the command did and however the wait for it ended.
THEOREM TerminalsAreClosed == SafeSpec => []NothingLeftBehind
<1>1. Init => ServerInv
  BY DEF Init, ServerInv
<1>2. TypeOK /\ ServerInv /\ [Next]_vars => ServerInv'
  <2> SUFFICES ASSUME TypeOK, ServerInv, [Next]_vars PROVE ServerInv'
    OBVIOUS
  <2>1. Fault => faults' # 0
    BY DEF Fault, TypeOK
  <2>2. ASSUME UNCHANGED <<pc, attempt, server, faults>> PROVE ServerInv'
    BY <2>2 DEF ServerInv
  <2>3. CASE \/ ShellStarts \/ SttyRuns \/ CommandBegins \/ CommandPrints \/ CommandEnds
             \/ ClientHears \/ ClientGivesUp \/ UNCHANGED vars
    BY <2>2, <2>3 DEF ShellStarts, SttyRuns, CommandBegins, CommandPrints, CommandEnds,
       ClientHears, ClientGivesUp, vars, daemonVars
  <2>4. CASE SocketEnds
    BY <2>4 DEF SocketEnds, TypeOK, ServerInv
  <2>5. CASE Context
    BY <2>1, <2>5 DEF Context, ServerInv
  <2>6. CASE Create \/ Connect
    BY <2>6 DEF Create, Connect, ServerInv
  <2>7. CASE CreateFails \/ ConnectFails
    BY <2>1, <2>7 DEF CreateFails, ConnectFails, ServerInv
  <2>8. CASE \/ SocketErrs \/ SendPrelude \/ SendScript \/ FindMarker \/ ReadMore
             \/ SplitPanics \/ Deadline
    BY <2>8 DEF SocketErrs, Errs, SendPrelude, SendScript, FindMarker, ReadMore,
       SplitPanics, Deadline, ServerInv
  <2>9. CASE Close
    <3>1. CASE server' = server \ {attempt} /\ faults' = faults
      BY <2>9, <3>1 DEF ServerInv
    <3>2. CASE Fault
      BY <2>1, <3>2 DEF ServerInv
    <3> QED
      BY <2>9, <3>1, <3>2 DEF Close
  <2> QED
    BY <2>3, <2>4, <2>5, <2>6, <2>7, <2>8, <2>9 DEF Next, Remote, Daemon, Client
<1>3. ServerInv => NothingLeftBehind
  BY DEF ServerInv, NothingLeftBehind
<1> QED
  BY <1>1, <1>2, <1>3, RemoteRunTypeCorrect, PTL DEF SafeSpec

-----------------------------------------------------------------------------
\* What every attempt has cost, beginning with the websocket that ends: no
\* terminal is left over from the attempt before.
AttemptsInv ==
  /\ RepeatedOnlyAfterFailure
  /\ socket \in {"closed", "broken"} => faults >= attempt
  /\ pc \in {"context", "start", "connect"} => socket = "none"

LEMMA AttemptsHold == SafeSpec => []AttemptsInv
<1>1. Init => AttemptsInv
  BY RemoteRunAssumption DEF Init, AttemptsInv, RepeatedOnlyAfterFailure, Pending
<1>2. TypeOK /\ AttemptsInv /\ [Next]_vars => AttemptsInv'
  <2> SUFFICES ASSUME TypeOK, AttemptsInv, [Next]_vars PROVE AttemptsInv'
    OBVIOUS
  <2> USE RemoteRunAssumption DEF AttemptsInv, RepeatedOnlyAfterFailure
  <2>1. attempt \in 1..2 /\ faults \in Nat
    BY DEF TypeOK
  <2>2. CASE UNCHANGED <<pc, attempt, socket, outcome, faults>>
    BY <2>2
  <2>3. CASE SocketEnds
    <3>1. /\ pc' = pc /\ attempt' = attempt /\ outcome' = outcome
          /\ faults' = faults + 1 /\ socket = "open"
      BY <2>3 DEF SocketEnds, daemonVars
    <3> QED
      BY <2>1, <3>1
  <2>4. CASE Context
    BY <2>1, <2>4 DEF Context, Fault
  <2>5. CASE Create \/ Connect
    BY <2>5 DEF Create, Connect
  <2>6. CASE CreateFails
    BY <2>1, <2>6 DEF CreateFails, Fault, NextAttempt, Pending
  <2>7. CASE ConnectFails
    BY <2>1, <2>7 DEF ConnectFails, Fault, Errs
  <2>8. CASE SocketErrs
    BY <2>8 DEF SocketErrs, Errs
  <2>9. CASE SendPrelude \/ SendScript
    BY <2>9 DEF SendPrelude, SendScript
  <2>10. CASE FindMarker \/ Deadline
    BY <2>10 DEF FindMarker, Deadline
  <2>11. CASE ReadMore \/ SplitPanics
    BY <2>11 DEF ReadMore, SplitPanics
  <2>12. CASE Close
    <3>1. faults' \in {faults, faults + 1} /\ socket' = "none" /\ pc' \in {"context", "done"}
      BY <2>12 DEF Close, Fault, NextAttempt
    <3>2. \/ attempt' = attempt /\ outcome' = outcome
          \/ outcome.by = "error" /\ attempt = 1 /\ attempt' = 2 /\ outcome' = Pending
          \/ outcome.by = "error" /\ attempt = 2 /\ attempt' = 2
      BY <2>1, <2>12 DEF Close, NextAttempt
    <3> QED
      BY <2>1, <3>1, <3>2 DEF Pending
  <2> QED
    BY <2>2, <2>3, <2>4, <2>5, <2>6, <2>7, <2>8, <2>9, <2>10, <2>11, <2>12
    DEF Next, Remote, Daemon, Client, ShellStarts, SttyRuns, CommandBegins,
        CommandPrints, CommandEnds, ClientHears, ClientGivesUp, daemonVars, vars
<1> QED
  BY <1>1, <1>2, RemoteRunTypeCorrect, PTL DEF SafeSpec

\* A second attempt, or an error, is the consequence of a failure.
THEOREM AttemptsNeedFailures == SafeSpec => []RepeatedOnlyAfterFailure
<1>1. AttemptsInv => RepeatedOnlyAfterFailure
  BY DEF AttemptsInv
<1> QED
  BY <1>1, AttemptsHold, PTL

-----------------------------------------------------------------------------
\* How far the daemon has got with a request; a second attempt begins behind
\* every place of the first one.
Position == [context |-> 0, start |-> 1, connect |-> 2, banner |-> 3, settle |-> 4,
             wait |-> 5, close |-> 6, done |-> 7, panicked |-> 7]
Rank == 7 * (attempt - 1) + Position[pc]

\* The daemon never goes back, whatever the remote side does: each of its steps
\* leads on, but for the reads of the wait, and there are at most 14 that do.
\* Its answer is final when the request is over.
THEOREM RequestsAdvance ==
  SafeSpec => /\ [](Rank \in 0..14)
              /\ [][\/ Rank' > Rank
                    \/ /\ UNCHANGED <<pc, attempt>>
                       /\ pc \in {"done", "panicked"} => UNCHANGED outcome]_vars
<1> DEFINE Advance == \/ Rank' > Rank
                      \/ /\ UNCHANGED <<pc, attempt>>
                         /\ pc \in {"done", "panicked"} => UNCHANGED outcome
<1>1. TypeOK /\ [Next]_vars => [Advance]_vars
  <2> SUFFICES ASSUME TypeOK, Next PROVE Advance
    OBVIOUS
  <2>1. attempt \in 1..2 /\ pc \in Pcs
    BY DEF TypeOK
  <2> USE DEF Rank, Position
  <2>2. CASE Remote \/ ReadMore \/ Client
    <3>1. UNCHANGED <<pc, attempt, outcome>>
      BY <2>2 DEF Remote, Client, ShellStarts, SttyRuns, CommandBegins, CommandPrints,
         CommandEnds, SocketEnds, ReadMore, ClientHears, ClientGivesUp, daemonVars
    <3> QED
      BY <3>1
  <2>3. CASE Context \/ Create \/ Connect \/ ConnectFails
    BY <2>1, <2>3 DEF Context, Create, Connect, ConnectFails, Errs
  <2>4. CASE CreateFails
    BY <2>1, <2>4 DEF CreateFails, NextAttempt
  <2>5. CASE SocketErrs
    BY <2>1, <2>5 DEF SocketErrs, Errs
  <2>6. CASE SendPrelude \/ SendScript
    BY <2>1, <2>6 DEF SendPrelude, SendScript
  <2>7. CASE FindMarker \/ SplitPanics \/ Deadline
    BY <2>1, <2>7 DEF FindMarker, SplitPanics, Deadline
  <2>8. CASE Close
    BY <2>1, <2>8 DEF Close, NextAttempt
  <2> QED
    BY <2>2, <2>3, <2>4, <2>5, <2>6, <2>7, <2>8 DEF Next, Daemon
<1>2. TypeOK => Rank \in 0..14
  <2>1. TypeOK => attempt \in {1, 2} /\ Position[pc] \in 0..7
    BY DEF TypeOK, Pcs, Position
  <2> QED
    BY <2>1 DEF Rank
<1> QED
  BY <1>1, <1>2, RemoteRunTypeCorrect, PTL DEF SafeSpec
-----------------------------------------------------------------------------
(* RemoteRun implements RemoteCall. *)

\* A daemon that waits has a terminal, one that has answered has an answer, and
\* an answer without a status is one of the fixed ones.
CallInv ==
  /\ pc \in {"banner", "settle", "wait"} => socket # "none" /\ shell # "none"
  /\ pc \in {"close", "done"} => outcome.by # "none"
  /\ outcome.by = "none" => outcome = Pending
  /\ outcome.by = "error" => outcome = Errored

LEMMA CallInvInvariant == ASSUME OutcomeInv, CallInv, [Next]_vars PROVE CallInv'
<1> USE DEF CallInv
<1>x. Pending.by = "none" /\ Errored.by = "error"
  BY DEF Pending, Errored
<1>1. CASE ShellStarts \/ SttyRuns \/ CommandBegins \/ CommandPrints
  BY <1>1 DEF ShellStarts, SttyRuns, CommandBegins, CommandPrints, daemonVars
<1>2. CASE CommandEnds
  BY <1>2 DEF CommandEnds, daemonVars
<1>3. CASE SocketEnds
  BY <1>3 DEF SocketEnds, daemonVars, remoteVars
<1>4. CASE Context
  <2>1. outcome = Pending \/ outcome.by # "none"
    OBVIOUS
  <2> QED
    BY <1>4, <1>x, <2>1 DEF Context
<1>5. CASE Create \/ Connect
  BY <1>5 DEF Create, Connect
<1>6. CASE CreateFails
  BY <1>6, <1>x DEF CreateFails, NextAttempt
<1>7. CASE ConnectFails \/ SocketErrs
  BY <1>7, <1>x DEF ConnectFails, SocketErrs, Errs
<1>8. CASE SendPrelude \/ SendScript
  BY <1>8 DEF SendPrelude, SendScript
<1>9. CASE FindMarker \/ Deadline
  BY <1>9 DEF FindMarker, Deadline
<1>10. CASE ReadMore \/ SplitPanics
  BY <1>10 DEF ReadMore, SplitPanics, remoteVars
<1>11. CASE Close
  BY <1>11, <1>x DEF Close, NextAttempt
<1>12. CASE ClientHears \/ ClientGivesUp \/ UNCHANGED vars
  BY <1>12 DEF ClientHears, ClientGivesUp, vars, daemonVars, remoteVars
<1> QED
  BY <1>1, <1>2, <1>3, <1>4, <1>5, <1>6, <1>7, <1>8, <1>9, <1>10, <1>11, <1>12
  DEF Next, Remote, Daemon, Client

\* Two sequences with the same elements; how a reported status is a beginning.
LEMMA BeginningIsSubSeq ==
  ASSUME NEW S, NEW T, NEW s \in Seq(S), NEW t \in Seq(T), Len(t) <= Len(s),
         \A k \in DOMAIN t : t[k] = s[k]
  PROVE t = SubSeq(s, 1, Len(t))
<1>1. Len(t) \in 0..Len(s)
  OBVIOUS
<1>2. /\ SubSeq(s, 1, Len(t)) \in Seq(S) /\ Len(SubSeq(s, 1, Len(t))) = Len(t) - 1 + 1
      /\ \A k \in 1..(Len(t) - 1 + 1) : SubSeq(s, 1, Len(t))[k] = s[1 + k - 1]
  BY <1>1, SubSeqFacts
<1>3. /\ Len(SubSeq(s, 1, Len(t))) = Len(t)
      /\ \A k \in 1..Len(t) : SubSeq(s, 1, Len(t))[k] = t[k]
  BY <1>1, <1>2
<1>4. t \in Seq(S \cup T) /\ SubSeq(s, 1, Len(t)) \in Seq(S \cup T)
  BY <1>2, SeqOfMore
<1> QED
  BY <1>3, <1>4, SeqEqual

\* What a step of the remote side shows of its command.
LEMMA RemoteCalls ==
  ASSUME TypeOK, ShellInv, OutcomeInv, Remote
  PROVE \/ CallCommand' = CallCommand
        \/ Call!Begin
        \/ Call!End
<1> USE DEF CallCommand, Unended, Ended
<1>1. UNCHANGED <<kind, pc, attempt, outcome, client>>
  BY DEF Remote, ShellStarts, SttyRuns, CommandBegins, CommandPrints, CommandEnds,
     SocketEnds, daemonVars
<1>2. UNCHANGED CallAnswer
  BY <1>1 DEF CallAnswer
<1>3. outcome.by = "status" => shell \in {"ended", "none"}
  BY DEF OutcomeInv
<1>4. CASE ShellStarts \/ SttyRuns \/ CommandPrints \/ SocketEnds
  BY <1>1, <1>4 DEF ShellStarts, SttyRuns, CommandPrints, SocketEnds, remoteVars, commandVars
<1>5. CASE CommandBegins
  <2>1. shell = "ready" /\ shell' = "running" /\ socket' = socket /\ outcome.by # "status"
    BY <1>3, <1>5 DEF CommandBegins
  <2>2. CASE socket = "none"
    BY <1>1, <2>1, <2>2
  <2>3. CASE socket # "none"
    BY <1>1, <1>2, <2>1, <2>3 DEF Call!Begin, Call!Absent, Call!Running, Call!Command
  <2> QED
    BY <2>2, <2>3
<1>6. CASE CommandEnds
  <2>1. /\ shell = "running" /\ socket' = socket /\ outcome.by # "status"
        /\ UNCHANGED <<status, stored>>
    BY <1>3, <1>6 DEF CommandEnds, commandVars
  <2>2. CASE socket = "none"
    BY <1>1, <2>1, <2>2
  <2>3. CASE shell' = "hung"
    BY <1>1, <2>1, <2>3
  <2>4. CASE socket # "none" /\ status # <<>> /\ shell' = "ended"
    <3>1. PICK b \in Behaviours : b.status = status /\ b.stored = stored
      BY <2>1 DEF ShellInv
    <3>2. kind \in AllKinds
      BY RemoteRunAssumption DEF TypeOK
    <3>3. status = Success => /\ kind = "upload" => stored # "none"
                              /\ kind = "archive" => stored = "whole"
      BY <3>1, <3>2, StoredBySuccess
    <3>4. CallCommand = Call!Running /\ CallCommand' = Call!Ended(status, stored)
      BY <1>1, <2>1, <2>4 DEF Call!Running, Call!Ended, Call!Command
    <3>5. status \in Statuses /\ stored \in {"none", "old", "cut", "whole"} /\ Call!Success = Success
      BY <2>4 DEF TypeOK, Call!Success, Success
    <3> QED
      BY <1>1, <1>2, <3>3, <3>4, <3>5 DEF Call!End
  <2> QED
    BY <1>6, <2>2, <2>3, <2>4 DEF CommandEnds
<1> QED
  BY <1>4, <1>5, <1>6 DEF Remote

\* The status that the daemon finds is that of a command that has ended.
LEMMA FindMarkerReports ==
  ASSUME TypeOK, ShellInv, StreamInv, OutcomeInv, CallInv, OutcomeInv', TypeOK', FindMarker
  PROVE Call!Report
<1>1. /\ shell = "ended" /\ socket # "none" /\ outcome.by = "none" /\ outcome'.by = "status"
      /\ UNCHANGED <<kind, attempt, client, status, stored, shell, socket>>
  BY FoundReport DEF FindMarker, CallInv, OutcomeInv, remoteVars, commandVars
<1>2. CallCommand = Call!Ended(status, stored) /\ CallCommand' = Call!Ended(status, stored)
  BY <1>1 DEF CallCommand, Ended, Call!Ended, Call!Command
<1>3. CallAnswer = Call!Pending /\ CallAnswer' = Call!Answered("status", outcome'.exit)
  BY <1>1 DEF CallAnswer, CallInv, Pending, Call!Pending, Call!Answered
<1>4. /\ status # <<>> /\ outcome'.exit # <<>> /\ Len(outcome'.exit) <= Len(status)
      /\ \A k \in DOMAIN outcome'.exit : outcome'.exit[k] = status[k]
  BY <1>1 DEF OutcomeInv, ReportedStatus
<1>5. status \in Statuses /\ status \in Seq(Digits) /\ outcome'.exit \in Exits
  BY <1>4, RemoteRunAssumption DEF TypeOK
<1>6. outcome'.exit = SubSeq(status, 1, Len(outcome'.exit)) /\ Len(outcome'.exit) \in 1..Len(status)
  <2>1. outcome'.exit = SubSeq(status, 1, Len(outcome'.exit))
    BY <1>4, <1>5, BeginningIsSubSeq DEF Exits
  <2>2. Len(outcome'.exit) \in 1..Len(status)
    BY <1>4, <1>5 DEF Exits
  <2> QED
    BY <2>1, <2>2
<1>7. outcome'.exit = Call!Success => status = Call!Success
  BY <1>4, <1>5, RemoteRunAssumption DEF Success, Call!Success
<1> QED
  BY <1>1, <1>2, <1>3, <1>6, <1>7 DEF Call!Report, Call!Ended, Call!Command, Call!Answered

\* What a step of the daemon shows: its answers, and the attempts.
LEMMA DaemonCalls ==
  ASSUME TypeOK, TypeOK', ShellInv, StreamInv, OutcomeInv, OutcomeInv', AttemptsInv, CallInv,
         Daemon
  PROVE \/ UNCHANGED <<kind, attempt, CallCommand, CallAnswer, client>>
        \/ Call!Report \/ Call!TimeOut \/ Call!Abandon \/ Call!Retry \/ Call!Fail
<1> USE DEF CallCommand, CallAnswer, Unended, Call!Absent, Call!Command
<1>1. attempt \in 1..2 /\ faults \in Nat /\ faults >= attempt - 1
  BY RemoteRunAssumption DEF TypeOK, AttemptsInv, RepeatedOnlyAfterFailure
<1>2. pc \in {"context", "start", "connect"} => socket = "none" /\ outcome = Pending
  BY DEF AttemptsInv, CallInv, OutcomeInv
<1>3. pc \in {"banner", "settle", "wait"} => outcome = Pending
  BY DEF CallInv, OutcomeInv
<1>p. Pending.by = "none" /\ Pending.exit = <<>> /\ Errored.by = "error" /\ Errored.exit = Failure
  BY DEF Pending, Errored
<1>a. Call!Pending = [by |-> "none", exit |-> <<>>]
  BY DEF Call!Pending, Call!Answered
<1>e. Call!Answered("error", Call!Failure) = [by |-> "error", exit |-> Failure]
  BY DEF Call!Answered, Call!Failure, Failure
<1>4. CASE Context
  <2>1. CASE pc' = "start" /\ UNCHANGED outcome
    BY <1>2, <1>4, <1>p, <2>1 DEF Context, remoteVars
  <2>2. CASE pc' = "done" /\ outcome' = Errored /\ Fault
    BY <1>1, <1>2, <1>4, <1>p, <1>a, <1>e, <2>2 DEF Context, Fault, remoteVars, Call!Fail
  <2> QED
    BY <1>4, <2>1, <2>2 DEF Context
<1>5. CASE Create \/ Connect
  BY <1>2, <1>5, <1>p DEF Create, Connect, remoteVars
<1>6. CASE CreateFails
  <2>1. CASE attempt = 1
    BY <1>1, <1>2, <1>6, <1>p, <1>a, <2>1 DEF CreateFails, Fault, NextAttempt, Call!Retry
  <2>2. CASE attempt # 1
    BY <1>1, <1>2, <1>6, <1>p, <1>a, <1>e, <2>2 DEF CreateFails, Fault, NextAttempt, Call!Fail
  <2> QED
    BY <2>1, <2>2
<1>7. CASE ConnectFails
  BY <1>2, <1>7, <1>p DEF ConnectFails, Errs, remoteVars
<1>8. CASE SocketErrs
  BY <1>3, <1>8, <1>p DEF SocketErrs, Errs, remoteVars, commandVars, Ended
<1>9. CASE SendPrelude \/ SendScript
  BY <1>3, <1>9, <1>p DEF SendPrelude, SendScript, commandVars
<1>10. CASE FindMarker
  BY <1>10, FindMarkerReports
<1>11. CASE ReadMore \/ SplitPanics
  BY <1>3, <1>11, <1>p DEF ReadMore, SplitPanics, remoteVars, commandVars
<1>12. CASE Deadline
  <2>1. /\ outcome'.by = "timeout" /\ outcome'.exit = Call!TimedOut
        /\ UNCHANGED <<kind, attempt, client, shell, socket, status, stored>>
    BY <1>12 DEF Deadline, TimedOut, Call!TimedOut, remoteVars, commandVars
  <2>2. CallAnswer = Call!Pending /\ CallAnswer' = Call!Answered("timeout", Call!TimedOut)
    BY <1>3, <1>12, <1>p, <1>a, <2>1 DEF Deadline, Call!Answered
  <2>3. UNCHANGED CallCommand
    BY <1>3, <1>12, <1>p, <2>1 DEF Deadline, Ended
  <2> QED
    BY <2>1, <2>2, <2>3 DEF Call!TimeOut
<1>13. CASE Close
  <2>1. /\ pc = "close" /\ socket' = "none" /\ outcome.by \in {"status", "timeout", "error"}
        /\ UNCHANGED <<kind, status, stored, client>>
    BY <1>13 DEF Close, commandVars, CallInv, TypeOK, Causes
  <2>2. CASE outcome.by = "status"
    BY <1>13, <2>1, <2>2 DEF Close
  <2>3. CASE outcome.by = "timeout"
    BY <1>13, <2>1, <2>3 DEF Close, Call!Abandon
  <2>4. CASE outcome.by = "error"
    <3>1. faults' >= attempt
      BY <1>1, <1>13, <2>4 DEF Close, Fault, AttemptsInv, RepeatedOnlyAfterFailure
    <3>2. CASE attempt = 1
      BY <1>1, <1>13, <1>p, <1>a, <2>1, <2>4, <3>1, <3>2 DEF Close, NextAttempt, Call!Retry
    <3>3. CASE attempt # 1
      BY <1>1, <1>13, <1>p, <1>a, <1>e, <2>1, <2>4, <3>1, <3>3 DEF Close, NextAttempt, Call!Fail
    <3> QED
      BY <3>2, <3>3
  <2> QED
    BY <2>1, <2>2, <2>3, <2>4
<1> QED
  BY <1>4, <1>5, <1>6, <1>7, <1>8, <1>9, <1>10, <1>11, <1>12, <1>13 DEF Daemon

\* What a client makes of an answer.
LEMMA ClientCalls ==
  ASSUME OutcomeInv, CallInv, Client
  PROVE Call!Hear \/ Call!GiveUp
<1>1. UNCHANGED <<kind, attempt, CallCommand, CallAnswer>> /\ client = Call!Waiting
  BY DEF Client, ClientHears, ClientGivesUp, daemonVars, remoteVars, commandVars,
     CallCommand, CallAnswer, Waiting, Call!Waiting, Call!Left
<1>2. CASE ClientGivesUp
  BY <1>1, <1>2 DEF ClientGivesUp, Answer, Failure, TimedOut, Call!GiveUp, Call!Left,
     Call!Failure, Call!TimedOut
<1>3. CASE ClientHears
  <2>1. /\ CallAnswer # Call!Pending /\ CallAnswer.exit = outcome.exit
        /\ Call!Success = Success /\ Call!Failure = Failure
    BY <1>3 DEF ClientHears, CallAnswer, CallInv, Call!Pending, Call!Answered,
       Call!Success, Success, Call!Failure, Failure
  <2>2. outcome.exit = Success => PayloadInv
    BY DEF OutcomeInv
  <2>3. CASE kind \in {"run", "plain"} /\ Answer(outcome.exit, <<>>)
    BY <1>1, <2>1, <2>3 DEF Answer, Call!Hear, Call!Left
  <2>4. CASE kind \in {"upload", "archive"} /\ Answer(IF Succeeded THEN Success ELSE Failure, <<>>)
    BY <1>1, <2>1, <2>4 DEF Answer, Succeeded, Call!Hear, Call!Left
  <2>5. ASSUME kind = "download", NEW b \in DOMAIN outcome.text, NEW e \in DOMAIN outcome.text,
               Decoded(b, e), Answer(Success, SubSeq(outcome.text, b + 1, e - 1))
        PROVE Call!Hear
    <3>1. SubSeq(outcome.text, b + 1, e - 1) = Output /\ outcome.exit = Success
      BY <2>2, <2>5 DEF Decoded, Succeeded, PayloadInv
    <3> QED
      BY <1>1, <2>1, <2>5, <3>1 DEF Answer, Call!Hear, Call!Left
  <2>6. CASE kind = "download" /\ Answer(Failure, <<>>)
    BY <1>1, <2>1, <2>6 DEF Answer, Call!Hear, Call!Left
  <2> QED
    BY <1>3, <2>3, <2>4, <2>5, <2>6 DEF ClientHears, Hears
<1> QED
  BY <1>2, <1>3 DEF Client

\* Every run, upload and download keeps the promise of RemoteCall, for any output,
\* statuses, echo, division into messages, and number of failures.
THEOREM CallIsImplemented == SafeSpec => ImplementsCall
<1>1. Init => Call!Init /\ CallInv
  BY DEF Init, Call!Init, CallCommand, CallAnswer, CallInv, Unended, Pending, Waiting,
     Call!Absent, Call!Command, Call!Pending, Call!Answered, Call!Waiting, Call!Left
<1>2. IInv /\ CallInv /\ [Next]_vars => CallInv'
  BY CallInvInvariant DEF IInv
<1>3. IInv /\ IInv' /\ AttemptsInv /\ CallInv /\ [Next]_vars => [Call!Next]_(Call!vars)
  <2> SUFFICES ASSUME IInv, IInv', AttemptsInv, CallInv, [Next]_vars
               PROVE Call!Next \/ UNCHANGED Call!vars
    OBVIOUS
  <2>1. /\ TypeOK /\ TypeOK' /\ ShellInv /\ StreamInv /\ OutcomeInv /\ OutcomeInv'
    BY DEF IInv
  <2>2. CASE UNCHANGED vars
    BY <2>2 DEF vars, daemonVars, remoteVars, commandVars, Call!vars, CallCommand, CallAnswer
  <2>3. Next => faults' \in {faults, faults + 1}
    BY DEF Next, Remote, Daemon, Client, ShellStarts, SttyRuns, CommandBegins, CommandPrints,
       CommandEnds, SocketEnds, Context, Create, Connect, CreateFails, ConnectFails, SocketErrs, Fault,
       SendPrelude, SendScript, FindMarker, ReadMore, SplitPanics, Deadline, Close,
       ClientHears, ClientGivesUp
  <2>4. CASE Remote
    <3>1. UNCHANGED <<kind, attempt, CallAnswer, client>>
      BY <2>4 DEF Remote, ShellStarts, SttyRuns, CommandBegins, CommandPrints, CommandEnds,
         SocketEnds, daemonVars, CallAnswer
    <3> QED
      BY <2>1, <2>3, <2>4, <3>1, RemoteCalls DEF Next, Call!Next
  <2>5. CASE Daemon
    BY <2>1, <2>3, <2>5, DaemonCalls DEF Next, Call!Next
  <2>6. CASE Client
    BY <2>1, <2>3, <2>6, ClientCalls DEF Next, Call!Next
  <2> QED
    BY <2>2, <2>4, <2>5, <2>6 DEF Next
<1> QED
  BY <1>1, <1>2, <1>3, InductiveInvariant, AttemptsHold, PTL
  DEF SafeSpec, ImplementsCall, Call!SafeSpec
=============================================================================
