----------------------------- MODULE Ports_proofs -----------------------------
(***************************************************************************)
(* Proofs about the ports file of an account: of the programs that race to *)
(* create it, exactly one writes it, and a complete file is final.         *)
(***************************************************************************)
EXTENDS Ports, TLAPS

\* The ports that are searched lie in the pool.
LEMMA OrderedPortInPool ==
  ASSUME NEW a \in Accounts, NEW i \in Nat
  PROVE  OrderedPort(a, i) \in PoolPorts
<1>1. Offset[a] + i \in Nat /\ PortCount \in Nat /\ PortCount > 0
  BY PortsAssumption
<1>2. \A m, n \in Nat : n > 0 => m % n \in 0..(n - 1)
  OBVIOUS
<1> QED
  BY <1>1, <1>2 DEF OrderedPort, PoolPorts

\* A pair of ports is neither a missing nor an incomplete file.
LEMMA PairsAreReadable == \A f \in Pairs : Readable(f)
<1>1. \A a, b \in PoolPorts : <<a, b>> # <<>> /\ <<a, b>> # <<"partial">>
  OBVIOUS
<1> QED
  BY <1>1 DEF Pairs, Readable, Unwritten

\* A program that tries the stream port has a window left to go on with, and
\* holds a pair from the end of its search on.
Searching == \A p \in Programs :
  /\ pc[p] = "bindStream" => window[p] < PortCount - 1
  /\ pc[p] \in {"create", "write", "reread", "resolved", "serving"} => pair[p] \in Pairs

\* No step of a search breaks the types or what a search knows.
LEMMA SearchStep == TypeOK /\ Searching /\ [Next]_vars => TypeOK' /\ Searching'
<1> SUFFICES ASSUME TypeOK, Searching, [Next]_vars PROVE TypeOK' /\ Searching'
  OBVIOUS
<1> USE PortsAssumption DEF TypeOK, Searching, Goto, FileOf, NextWindow
<1>1. ASSUME NEW p \in Programs, Call(p) PROVE TypeOK' /\ Searching'
  BY <1>1 DEF Call, Readable
<1>2. ASSUME NEW p \in Programs, Read(p) PROVE TypeOK' /\ Searching'
  BY <1>2 DEF Read, Readable
<1>3. ASSUME NEW p \in Programs, BindApi(p) PROVE TypeOK' /\ Searching'
  <2> DEFINE w == Window(p, window[p])
  <2>1. w[1] \in PoolPorts
    BY OrderedPortInPool DEF Window
  <2> HIDE DEF w
  <2>2. CASE /\ bound' = [bound EXCEPT ![w[1]] = p]
             /\ Goto(p, "bindStream") /\ UNCHANGED window
    BY <1>3, <2>1, <2>2 DEF BindApi
  <2>3. CASE NextWindow(p) /\ UNCHANGED <<bound, pc>>
    <3>1. window[p] + 1 \in 0..PortCount
      BY <1>3 DEF BindApi
    <3> QED
      BY <1>3, <2>3, <3>1 DEF BindApi
  <2> QED
    BY <1>3, <2>2, <2>3 DEF BindApi, w
<1>4. ASSUME NEW p \in Programs, BindStream(p) PROVE TypeOK' /\ Searching'
  <2> DEFINE w == Window(p, window[p])
  <2>1. w \in Pairs /\ w[1] \in PoolPorts
    BY OrderedPortInPool DEF Window, Pairs
  <2> HIDE DEF w
  <2>2. bound' = [bound EXCEPT ![w[1]] = None] /\ pc[p] = "bindStream"
        /\ UNCHANGED <<file, settled, crashes>>
    BY <1>4 DEF BindStream, w
  <2>3. CASE pair' = [pair EXCEPT ![p] = w] /\ Goto(p, "create") /\ UNCHANGED window
    BY <2>1, <2>2, <2>3
  <2>4. CASE NextWindow(p) /\ Goto(p, "bindApi") /\ UNCHANGED pair
    <3>1. window[p] + 1 \in 0..PortCount
      BY <2>2
    <3> QED
      BY <2>1, <2>2, <2>4, <3>1
  <2> QED
    BY <1>4, <2>3, <2>4 DEF BindStream, w
<1>5. ASSUME NEW p \in Programs, NoPair(p) PROVE TypeOK' /\ Searching'
  BY <1>5 DEF NoPair
<1>6. ASSUME NEW p \in Programs, Create(p) PROVE TypeOK' /\ Searching'
  BY <1>6 DEF Create, Unwritten, Readable
<1>7. ASSUME NEW p \in Programs, Write(p) PROVE TypeOK' /\ Searching'
  BY <1>7 DEF Write
<1>8. ASSUME NEW p \in Programs, Reread(p) PROVE TypeOK' /\ Searching'
  BY <1>8 DEF Reread, Readable
<1>9. ASSUME NEW p \in Programs, CrashWriting(p) PROVE TypeOK' /\ Searching'
  BY <1>9 DEF CrashWriting
<1>10. ASSUME NEW p \in Programs, Serve(p) PROVE TypeOK' /\ Searching'
  BY <1>10 DEF Serve
<1>11. ASSUME NEW p \in Programs, Done(p) PROVE TypeOK' /\ Searching'
  BY <1>11 DEF Done
<1>12. ASSUME UNCHANGED vars PROVE TypeOK' /\ Searching'
  BY <1>12 DEF vars
<1> QED
  BY <1>1, <1>2, <1>3, <1>4, <1>5, <1>6, <1>7, <1>8, <1>9, <1>10, <1>11, <1>12 DEF Next

\* Every variable keeps its type: what is searched, found and persisted are
\* pairs of the pool, for pools of any size and any number of programs.
THEOREM PortsTypeCorrect == Spec => []TypeOK
<1>1. Init => TypeOK /\ Searching
  BY PortsAssumption DEF Init, TypeOK, Searching, Unwritten, PoolPorts
<1> QED
  BY <1>1, SearchStep, PTL DEF Spec

-----------------------------------------------------------------------------
\* A program that has created the file is the only one that writes it.
OneWriter ==
  /\ \A p \in Programs : pc[p] = "write" => FileOf(p) = <<"partial">>
  /\ \A p, q \in Programs :
       pc[p] = "write" /\ pc[q] = "write" /\ AccountOf[p] = AccountOf[q] => p = q

\* What a program that has seen the file complete knows.
Agreed == \A p \in Programs : settled[p] =>
  /\ pc[p] \in {"read", "reread", "resolved", "serving"} => Readable(FileOf(p))
  /\ pc[p] \in {"resolved", "serving"} => pair[p] = FileOf(p)

\* A complete file is not written again.
LEMMA CompleteIsFinal ==
  ASSUME TypeOK, OneWriter, [Next]_vars, NEW a \in Accounts, Readable(file[a])
  PROVE  file'[a] = file[a]
<1> USE DEF TypeOK, OneWriter, FileOf, Readable, Unwritten
<1>1. ASSUME NEW p \in Programs, Create(p) PROVE file'[a] = file[a]
  BY <1>1 DEF Create
<1>2. ASSUME NEW p \in Programs, Write(p) PROVE file'[a] = file[a]
  BY <1>2, PortsAssumption DEF Write
<1>3. ASSUME UNCHANGED file PROVE file'[a] = file[a]
  BY <1>3
<1> QED
  BY <1>1, <1>2, <1>3 DEF Next, Call, Read, BindApi, BindStream, NoPair, Reread,
     CrashWriting, Serve, Done, vars

\* The creation gives the file one writer, and no other step gives it another.
LEMMA WriterStep == TypeOK /\ OneWriter /\ [Next]_vars => OneWriter'
<1> SUFFICES ASSUME TypeOK, OneWriter, [Next]_vars PROVE OneWriter'
  OBVIOUS
<1> USE PortsAssumption DEF TypeOK, OneWriter, FileOf, Goto
<1>1. ASSUME NEW p \in Programs, Create(p) PROVE OneWriter'
  <2>1. CASE FileOf(p) # <<>>
    BY <1>1, <2>1 DEF Create
  <2>2. CASE FileOf(p) = <<>>
    <3>1. /\ file' = [file EXCEPT ![AccountOf[p]] = <<"partial">>]
          /\ pc' = [pc EXCEPT ![p] = "write"]
      BY <1>1, <2>2 DEF Create
    <3>2. <<>> # <<"partial">>
      OBVIOUS
    <3>3. \A q \in Programs : pc[q] = "write" => AccountOf[q] # AccountOf[p]
      BY <2>2, <3>2
    <3> QED
      BY <3>1, <3>3
  <2> QED
    BY <2>1, <2>2
<1>2. ASSUME NEW p \in Programs, Write(p) PROVE OneWriter'
  BY <1>2 DEF Write
<1>3. ASSUME NEW p \in Programs,
             \/ Call(p) \/ Read(p) \/ BindApi(p) \/ BindStream(p) \/ NoPair(p)
             \/ Reread(p) \/ CrashWriting(p) \/ Serve(p) \/ Done(p)
      PROVE  OneWriter'
  <2>1. UNCHANGED file
    BY <1>3 DEF Call, Read, BindApi, BindStream, NoPair, Reread, CrashWriting, Serve, Done
  <2>2. \A q \in Programs : pc'[q] = "write" => pc[q] = "write"
    <3>1. \/ UNCHANGED pc
          \/ \E label \in {"idle", "read", "bindApi", "bindStream", "create", "reread",
                          "resolved", "serving"} : pc' = [pc EXCEPT ![p] = label]
      BY <1>3 DEF Call, Read, BindApi, BindStream, NoPair, Reread, CrashWriting, Serve, Done
    <3> QED
      BY <3>1
  <2> QED
    BY <2>1, <2>2
<1>4. ASSUME UNCHANGED vars PROVE OneWriter'
  BY <1>4 DEF vars
<1> QED
  BY <1>1, <1>2, <1>3, <1>4 DEF Next

\* So it has at most one from the beginning on.
LEMMA WriterInvariant == Spec => []OneWriter
<1>1. Init => OneWriter
  BY DEF Init, OneWriter
<1> QED
  BY <1>1, WriterStep, PortsTypeCorrect, PTL DEF Spec

\* The endpoints of an account never change once they are persisted.
THEOREM PersistedStays == Spec => PersistedForGood
<1>1. TypeOK /\ OneWriter /\ [Next]_vars
        => [\A a \in Accounts : Readable(file[a]) => file'[a] = file[a]]_vars
  BY CompleteIsFinal
<1> QED
  BY <1>1, WriterInvariant, PortsTypeCorrect, PTL DEF Spec, PersistedForGood

-----------------------------------------------------------------------------
\* A step of another program does not change a complete file; a step of the
\* program itself takes its pair from there.
LEMMA AgreedStep ==
  TypeOK /\ Searching /\ OneWriter /\ Agreed /\ [Next]_vars => Agreed'
<1> SUFFICES ASSUME TypeOK, Searching, OneWriter, Agreed, [Next]_vars,
                    NEW q \in Programs, settled'[q]
             PROVE  /\ pc'[q] \in {"read", "reread", "resolved", "serving"}
                         => Readable(FileOf(q)')
                    /\ pc'[q] \in {"resolved", "serving"} => pair'[q] = FileOf(q)'
  BY DEF Agreed, Readable, Unwritten
<1> DEFINE Good == /\ pc'[q] \in {"read", "reread", "resolved", "serving"}
                         => Readable(FileOf(q)')
                   /\ pc'[q] \in {"resolved", "serving"} => pair'[q] = FileOf(q)'
<1> USE PortsAssumption DEF TypeOK, Agreed, Goto, NextWindow
<1>0. Readable(FileOf(q)) => FileOf(q)' = FileOf(q)
  BY CompleteIsFinal DEF FileOf
<1>1. ASSUME UNCHANGED <<pc, pair, settled>> PROVE Good
  BY <1>0, <1>1
<1>2. ASSUME NEW p \in Programs, p # q,
             UNCHANGED <<pc[q], pair[q], settled[q]>> PROVE Good
  BY <1>0, <1>2
<1>3. ASSUME Call(q) PROVE Good
  BY <1>0, <1>3 DEF Call
<1>4. ASSUME Read(q) PROVE Good
  BY <1>0, <1>4 DEF Read
<1>5. ASSUME BindApi(q) PROVE Good
  BY <1>5 DEF BindApi
<1>6. ASSUME BindStream(q) PROVE Good
  BY <1>6 DEF BindStream
<1>7. ASSUME NoPair(q) PROVE Good
  BY <1>7 DEF NoPair
<1>8. ASSUME Create(q) PROVE Good
  BY <1>0, <1>8 DEF Create
<1>9. ASSUME Write(q) PROVE Good
  <2>1. FileOf(q)' = pair[q] /\ pc'[q] = "reread"
    BY <1>9 DEF Write, FileOf
  <2>2. Readable(pair[q])
    BY <1>9, PairsAreReadable DEF Write, Searching
  <2> QED
    BY <2>1, <2>2
<1>10. ASSUME Reread(q) PROVE Good
  BY <1>0, <1>10 DEF Reread
<1>11. ASSUME CrashWriting(q) \/ Done(q) PROVE Good
  BY <1>11 DEF CrashWriting, Done
<1>12. ASSUME Serve(q) PROVE Good
  BY <1>0, <1>12 DEF Serve
<1>13. ASSUME NEW p \in Programs, p # q,
             \/ Call(p) \/ Read(p) \/ BindApi(p) \/ BindStream(p) \/ NoPair(p)
             \/ Create(p) \/ Write(p) \/ Reread(p) \/ CrashWriting(p) \/ Serve(p) \/ Done(p)
      PROVE  UNCHANGED <<pc[q], pair[q], settled[q]>>
  BY <1>13 DEF Call, Read, BindApi, BindStream, NoPair, Create, Write, Reread,
     CrashWriting, Serve, Done
<1> QED
  BY <1>1, <1>2, <1>3, <1>4, <1>5, <1>6, <1>7, <1>8, <1>9, <1>10, <1>11, <1>12, <1>13
  DEF Next, vars

\* Whoever has seen a complete file, or has written it, uses the pair in it, for
\* any number of programs, accounts and crashes.
THEOREM ProgramsAgree == Spec => []PersistedPairIsUsed
<1>1. Init => TypeOK /\ Searching /\ Agreed
  BY PortsAssumption DEF Init, TypeOK, Searching, Agreed, Unwritten, PoolPorts
<1>2. Agreed => PersistedPairIsUsed
  BY DEF Agreed, PersistedPairIsUsed
<1> QED
  BY <1>1, <1>2, SearchStep, AgreedStep, WriterInvariant, PTL DEF Spec
=============================================================================
