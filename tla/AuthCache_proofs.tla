---------------------------- MODULE AuthCache_proofs ----------------------------
(***************************************************************************)
(* Proofs about AuthCache, for any clients, tokens and failures: the types *)
(* of the file, the copies and the tokens, and that the attempts after one *)
(* that a rejection has ended ask Chrome.  No token is accepted again once *)
(* it is not, and a new one is none that anybody has: this is why a copy   *)
(* of Chrome's token stays good until Chrome itself replaces it.           *)
(***************************************************************************)
EXTENDS AuthCache, TLAPS

\* Every copy is of tokens that have been issued.
Known(cookies) == \A d \in Domains : cookies[d] <= issued

\* The copy of a client whose next request begins an attempt with force.
OfChrome(c) ==
  /\ jar[c]["plain"] = None
  /\ jar[c]["dotted"] = chrome \/ jar[c]["dotted"] \notin accepted
Forced(c) ==
  /\ force[c]
  /\ pc[c] \in {"probe", "insert"} \/ (pc[c] = "save" /\ next[c] \in {"probe", "insert"})

\* The inductive invariant.
IInv ==
  /\ TypeOK
  /\ Known(file) /\ \A c \in Clients : Known(jar[c])
  /\ \A c \in Clients : Forced(c) => OfChrome(c)

-----------------------------------------------------------------------------
(* Tokens. *)

LEMMA JarFacts ==
  ASSUME NEW cookies \in Jars, NEW d \in Domains, NEW t \in Tokens \cup {None}
  PROVE  /\ Empty \in Jars
         /\ Update(cookies, d, t) \in Jars
         /\ \A x \in Domains : Update(cookies, d, t)[x] = IF x = d THEN t ELSE cookies[x]
  BY DEF Jars, Empty, Update

\* Nobody's token is accepted again, and who issues one counts it.
LEMMA ServerSteps ==
  ASSUME TypeOK, [Next]_vars
  PROVE  /\ issued' \in 1..MaxTokens /\ issued <= issued'
         /\ chrome' \in 1..issued' /\ accepted' \subseteq 1..issued' /\ expired' \subseteq 1..issued'
         /\ \A t \in accepted' : t \in accepted \/ t = issued + 1
         /\ chrome' # chrome => chrome \notin accepted'
<1> USE AuthAssumption DEF TypeOK, Tokens
<1>1. CASE UNCHANGED serverVars
  BY <1>1 DEF serverVars
<1>2. ASSUME NEW c \in Clients, Rotated(c)
      PROVE  /\ issued' = issued + 1 /\ issued + 2 <= MaxTokens
             /\ UNCHANGED <<chrome, expired>>
             /\ accepted' \subseteq accepted \cup {issued + 1}
  BY <1>2 DEF Rotated
<1>3. ASSUME NEW t \in Tokens, Expires(t)
      PROVE  /\ UNCHANGED <<issued, chrome>> /\ accepted' \subseteq accepted
             /\ t \in 1..issued /\ expired' = expired \cup {t}
  BY <1>3 DEF Expires
<1>4. CASE ChromeRenews
  BY <1>4 DEF ChromeRenews
<1>5. ASSUME NEW c \in Clients, Begin(c) \/ ClientStep(c), ~Rotated(c) PROVE UNCHANGED serverVars
  BY <1>5 DEF Begin, ClientStep, ReadCache, Extract, ExtractFails, Save, SkipsProbe, ProbeFails,
     Accepted, Rejected, RequestFails, TriesChrome, Deadline, Finish
<1>6. ASSUME NEW c \in Clients, Rotated(c)
      PROVE  /\ issued' \in 1..MaxTokens /\ issued <= issued'
             /\ chrome' \in 1..issued' /\ accepted' \subseteq 1..issued' /\ expired' \subseteq 1..issued'
             /\ \A t \in accepted' : t \in accepted \/ t = issued + 1
             /\ chrome' # chrome => chrome \notin accepted'
  <2>1. /\ issued \in Nat /\ issued' = issued + 1 /\ issued' \in 1..MaxTokens
        /\ chrome' = chrome /\ expired' = expired
        /\ accepted' \subseteq accepted \cup {issued + 1}
    BY <1>2, <1>6
  <2>2. \A t \in 1..issued : t \in 1..issued'
    BY <2>1
  <2>3. issued + 1 \in 1..issued'
    BY <2>1
  <2> QED
    BY <2>1, <2>2, <2>3
<1>7. ASSUME NEW t \in Tokens, Expires(t)
      PROVE  /\ issued' \in 1..MaxTokens /\ issued <= issued'
             /\ chrome' \in 1..issued' /\ accepted' \subseteq 1..issued' /\ expired' \subseteq 1..issued'
             /\ \A u \in accepted' : u \in accepted \/ u = issued + 1
             /\ chrome' # chrome => chrome \notin accepted'
  <2>1. /\ UNCHANGED <<issued, chrome>> /\ accepted' \subseteq accepted
        /\ t \in 1..issued /\ expired' = expired \cup {t}
    BY <1>3, <1>7
  <2>2. issued \in Nat /\ expired' \subseteq 1..issued'
    BY <2>1
  <2> QED
    BY <2>1, <2>2
<1> QED
  BY <1>1, <1>4, <1>5, <1>6, <1>7 DEF Next, vars

-----------------------------------------------------------------------------
(* What a client does to its own copy; it touches nobody else's. *)

\* A client's next state, and the file it leaves.
ClientTypes(c) ==
  /\ pc'[c] \in Pcs /\ jar'[c] \in Jars
  /\ aim'[c] \in {"probe", "insert"} /\ next'[c] \in Nexts
  /\ force'[c] \in BOOLEAN /\ dead'[c] \in BOOLEAN
  /\ file' \in Jars /\ faults' \in 0..MaxFaults
  /\ \A d \in Domains : /\ file'[d] <= issued'
                        /\ jar'[c][d] <= issued'
Touches(c) ==
  /\ \E l : pc' = [pc EXCEPT ![c] = l]
  /\ jar' = jar \/ \E j : jar' = [jar EXCEPT ![c] = j]
  /\ aim' = aim \/ \E a : aim' = [aim EXCEPT ![c] = a]
  /\ next' = next \/ \E n : next' = [next EXCEPT ![c] = n]
  /\ dead' = dead \/ \E d : dead' = [dead EXCEPT ![c] = d]
  /\ force' = force \/ \E f : force' = [force EXCEPT ![c] = f]

LEMMA ClientsTouchTheirOwn ==
  ASSUME NEW c \in Clients, Begin(c) \/ ClientStep(c)
  PROVE  Touches(c)
<1> USE DEF Touches
<1>1. ASSUME NEW l, Goto(c, l) PROVE Touches(c)
  BY <1>1 DEF Goto
<1>2. ASSUME Return(c) PROVE Touches(c)
  BY <1>2 DEF Return, Drops, Forgets
<1>3. ASSUME NEW j, NEW l, SaveThen(c, j, l), UNCHANGED <<aim, force, dead>> \/ Forgets(c)
      PROVE Touches(c)
  BY <1>3 DEF SaveThen, Forgets
<1>4. ASSUME NEW f, Retry(c, f) PROVE Touches(c)
  BY <1>4 DEF Retry, Drops
<1>5. ASSUME Stops(c) PROVE Touches(c)
  BY <1>2, <1>4, <1>5 DEF Stops
<1>6. CASE Begin(c)
  BY <1>1, <1>6 DEF Begin
<1>7. CASE ReadCache(c)
  BY <1>1, <1>5, <1>7 DEF ReadCache
<1>8. CASE Extract(c)
  BY <1>3, <1>8 DEF Extract
<1>9. CASE ExtractFails(c) \/ RequestFails(c)
  BY <1>2, <1>5, <1>9 DEF ExtractFails, RequestFails
<1>10. CASE Save(c)
  BY <1>2, <1>10 DEF Save, Drops
<1>11. CASE SkipsProbe(c)
  BY <1>11 DEF SkipsProbe, Drops
<1>12. CASE ProbeFails(c)
  BY <1>12 DEF ProbeFails, AimsAtInsert, Leaves, Drops, SaveThen
<1>13. CASE Accepted(c)
  BY <1>13 DEF Accepted, KeepsLocals, Forgets
<1>14. CASE Rotated(c)
  BY <1>3, <1>14 DEF Rotated, KeepsLocals
<1>15. CASE Rejected(c)
  BY <1>2, <1>3, <1>15 DEF Rejected, Leaves, Drops
<1>16. CASE TriesChrome(c)
  BY <1>4, <1>16 DEF TriesChrome
<1>17. CASE Deadline(c) \/ Finish(c)
  BY <1>2, <1>17 DEF Deadline, Finish
<1> QED
  BY <1>6, <1>7, <1>8, <1>9, <1>10, <1>11, <1>12, <1>13, <1>14, <1>15, <1>16, <1>17
  DEF ClientStep

\* The client's own copy is well-formed, and Chrome's at the beginning of an attempt
\* with force.
LEMMA ClientKeepsInv ==
  ASSUME IInv, NEW c \in Clients, Begin(c) \/ ClientStep(c)
  PROVE  ClientTypes(c) /\ (Forced(c)' => OfChrome(c)')
<1> USE AuthAssumption DEF Pcs, Nexts, Requests, None
<1>0. /\ issued' \in 1..MaxTokens /\ issued <= issued' /\ issued \in 1..MaxTokens
      /\ chrome \in 1..issued /\ accepted \subseteq 1..issued
      /\ pc \in [Clients -> Pcs] /\ jar \in [Clients -> Jars]
      /\ aim \in [Clients -> {"probe", "insert"}] /\ next \in [Clients -> Nexts]
      /\ force \in [Clients -> BOOLEAN] /\ dead \in [Clients -> BOOLEAN]
      /\ file \in Jars /\ faults \in 0..MaxFaults /\ faults' \in 0..MaxFaults
  <2>1. TypeOK
    BY DEF IInv
  <2>2. faults' = faults \/ (faults < MaxFaults /\ faults' = faults + 1)
    BY DEF Begin, ClientStep, ReadCache, Extract, ExtractFails, Save, SkipsProbe, ProbeFails,
       Accepted, Rotated, Rejected, RequestFails, TriesChrome, Deadline, Finish, Fault, NoFault
  <2> QED
    BY <2>1, <2>2, ServerSteps DEF TypeOK, Next
<1>1. /\ \A d \in Domains : file[d] <= issued /\ jar[c][d] <= issued
      /\ \A d \in Domains : file[d] \in Nat /\ jar[c][d] \in Nat
      /\ "dotted" \in Domains /\ "plain" \in Domains
  BY <1>0 DEF IInv, Known, Jars, Domains, Tokens
<1>e. Empty \in Jars /\ \A d \in Domains : Empty[d] = None
  BY DEF Empty, Jars
\* A client that does not begin an attempt, whatever else its locals are;
<1>2. ASSUME pc'[c] \in Pcs \ {"probe", "insert", "save"}, jar'[c] \in {jar[c], Empty},
             aim'[c] \in {"probe", "insert"}, next'[c] \in Nexts,
             force'[c] \in BOOLEAN, dead'[c] \in BOOLEAN, file' \in {file, jar[c]}
      PROVE  ClientTypes(c) /\ (Forced(c)' => OfChrome(c)')
  <2>1. \A d \in Domains : file'[d] <= issued' /\ jar'[c][d] <= issued'
    <3>1. \A d \in Domains : file'[d] \in {file[d], jar[c][d]} /\ jar'[c][d] \in {jar[c][d], None}
      BY <1>2, <1>e
    <3> QED
      BY <1>0, <1>1, <3>1
  <2>2. ClientTypes(c)
    BY <1>0, <1>2, <1>e, <2>1 DEF ClientTypes
  <2> QED
    BY <1>2, <2>2 DEF Forced
<1>3. ASSUME Return(c), file' \in {file, jar[c]} PROVE ClientTypes(c) /\ (Forced(c)' => OfChrome(c)')
  BY <1>0, <1>2, <1>3 DEF Return, Drops, Forgets
<1>4. ASSUME NEW f \in BOOLEAN, Retry(c, f), file' = file
      PROVE  ClientTypes(c) /\ (Forced(c)' => OfChrome(c)')
  BY <1>0, <1>2, <1>4 DEF Retry, Drops
<1>5. ASSUME Stops(c), file' = file PROVE ClientTypes(c) /\ (Forced(c)' => OfChrome(c)')
  <2>1. force[c] \in BOOLEAN /\ (force[c] \/ c \in Browsers) \in BOOLEAN
    BY <1>0
  <2> QED
    BY <1>3, <1>4, <1>5, <2>1 DEF Stops
\* one that saves a copy first.
<1>6. ASSUME NEW j \in Jars, NEW l \in Nexts,
             SaveThen(c, j, l), UNCHANGED <<aim, force, dead>> \/ Forgets(c) \/ AimsAtInsert(c),
             file' = file, \A d \in Domains : j[d] <= issued',
             l \in {"probe", "insert"} => UNCHANGED chrome /\ j["plain"] = None /\ j["dotted"] = chrome
      PROVE ClientTypes(c) /\ (Forced(c)' => OfChrome(c)')
  <2>1. pc'[c] = "save" /\ jar'[c] = j /\ next'[c] = l
    BY <1>0, <1>6 DEF SaveThen
  <2>2. aim'[c] \in {"probe", "insert"} /\ force'[c] \in BOOLEAN /\ dead'[c] \in BOOLEAN
    BY <1>0, <1>6 DEF Forgets, AimsAtInsert
  <2>3. ClientTypes(c)
    BY <1>0, <1>1, <1>6, <2>1, <2>2 DEF ClientTypes
  <2> QED
    BY <1>6, <2>1, <2>3 DEF Forced, OfChrome
<1>7. CASE Begin(c)
  BY <1>0, <1>2, <1>7 DEF Begin, Goto
<1>8. CASE ReadCache(c)
  <2>1. CASE Goto(c, "extract")
    BY <1>0, <1>2, <1>8, <2>1 DEF ReadCache, Goto
  <2>2. CASE Stops(c)
    BY <1>5, <1>8, <2>2 DEF ReadCache
  <2>3. CASE /\ CacheServes(c) /\ pc' = [pc EXCEPT ![c] = aim[c]]
             /\ jar' = [jar EXCEPT ![c] = file] /\ UNCHANGED <<aim, next, force, dead>>
    <3>1. ~Forced(c)'
      BY <2>3 DEF CacheServes, Forced
    <3>2. file' = file
      BY <1>8 DEF ReadCache
    <3>3. ClientTypes(c)
      BY <1>0, <1>1, <2>3, <3>2 DEF ClientTypes
    <3> QED
      BY <3>1, <3>3
  <2> QED
    BY <1>8, <2>1, <2>2, <2>3 DEF ReadCache
<1>9. CASE Extract(c)
  <2> DEFINE j == Update(Empty, "dotted", chrome)
  <2>1. j \in Jars /\ j["dotted"] = chrome /\ j["plain"] = None
    <3>1. chrome \in Tokens \cup {None}
      BY <1>0 DEF Tokens
    <3>2. j \in Jars /\ \A x \in Domains : j[x] = IF x = "dotted" THEN chrome ELSE Empty[x]
      BY <1>1, <1>e, <3>1, JarFacts
    <3> QED
      BY <1>1, <1>e, <3>2
  <2>2. \A d \in Domains : j[d] <= issued'
    BY <1>0, <2>1 DEF Domains
  <2>3. SaveThen(c, j, aim[c]) /\ UNCHANGED <<aim, force, dead, file, chrome>> /\ aim[c] \in Nexts
    BY <1>0, <1>9 DEF Extract, serverVars
  <2> HIDE DEF j
  <2> QED
    BY <1>6, <2>1, <2>2, <2>3
<1>10. CASE ExtractFails(c)
  BY <1>5, <1>10 DEF ExtractFails
<1>11. CASE Save(c)
  <2>1. CASE Return(c)
    BY <1>3, <1>11, <2>1 DEF Save, WriteFile
  <2>2. CASE ~Return(c)
    <3>1. /\ pc[c] = "save" /\ pc' = [pc EXCEPT ![c] = next[c]] /\ next' = [next EXCEPT ![c] = "idle"]
          /\ file' = jar[c] /\ UNCHANGED <<aim, force, dead, chrome, accepted>>
          /\ next[c] \in Requests => UNCHANGED jar
          /\ jar' = jar \/ Drops(c)
      BY <1>11, <2>2 DEF Save, WriteFile, serverVars
    <3>2. jar'[c] \in {jar[c], Empty} /\ pc'[c] = next[c] /\ next'[c] = "idle" /\ next[c] # "idle"
      BY <1>0, <1>11, <2>2, <3>1 DEF Drops, Save
    <3>3. ClientTypes(c)
      BY <1>0, <1>1, <1>e, <3>1, <3>2 DEF ClientTypes
    <3>4. Forced(c)' => Forced(c) /\ UNCHANGED jar
      BY <1>0, <3>1, <3>2 DEF Forced
    <3> QED
      BY <3>1, <3>3, <3>4 DEF IInv, OfChrome
  <2> QED
    BY <2>1, <2>2
<1>12. CASE SkipsProbe(c)
  BY <1>0, <1>2, <1>12 DEF SkipsProbe, Drops
<1>13. CASE ProbeFails(c)
  <2>1. file' = file
    BY <1>13 DEF ProbeFails
  <2>2. CASE Leaves(c, "auth")
    BY <1>0, <1>2, <1>13, <2>1, <2>2 DEF ProbeFails, AimsAtInsert, Leaves, Drops
  <2>3. CASE SaveThen(c, Update(jar[c], "dotted", None), "auth")
    <3> DEFINE j == Update(jar[c], "dotted", None)
    <3>1. j \in Jars /\ j["dotted"] = None /\ j["plain"] = jar[c]["plain"]
      BY <1>0, <1>1, JarFacts DEF Domains
    <3>2. \A d \in Domains : j[d] <= issued'
      BY <1>0, <1>1, <3>1 DEF Domains
    <3> HIDE DEF j
    <3>3. SaveThen(c, j, "auth") /\ AimsAtInsert(c)
      BY <1>13, <2>3 DEF j, ProbeFails
    <3> QED
      BY <1>6, <2>1, <3>1, <3>2, <3>3
  <2> QED
    BY <1>13, <2>2, <2>3 DEF ProbeFails
<1>14. CASE Accepted(c)
  <2>1. pc'[c] \in {"confirm", "held"} /\ UNCHANGED <<jar, next, file>> /\ KeepsLocals(c)
    BY <1>0, <1>14 DEF Accepted, AfterAnswer
  <2>2. aim'[c] \in {"probe", "insert"} /\ force'[c] \in BOOLEAN /\ dead'[c] \in BOOLEAN
    BY <1>0, <2>1 DEF KeepsLocals, Forgets
  <2> QED
    BY <1>0, <1>2, <2>1, <2>2
<1>15. CASE Rotated(c)
  <2>1. PICK d \in Domains : SaveThen(c, Update(jar[c], d, issued + 1), AfterAnswer(c))
    BY <1>15 DEF Rotated
  <2> DEFINE j == Update(jar[c], d, issued + 1)
  <2>2. issued + 1 \in Tokens /\ issued' = issued + 1 /\ file' = file /\ KeepsLocals(c)
    BY <1>0, <1>15 DEF Rotated, Tokens
  <2>3. j \in Jars /\ \A x \in Domains : j[x] = IF x = d THEN issued + 1 ELSE jar[c][x]
    BY <1>0, <2>2, JarFacts
  <2>4. \A x \in Domains : j[x] <= issued'
    BY <1>0, <1>1, <2>2, <2>3
  <2> HIDE DEF j
  <2>5. SaveThen(c, j, AfterAnswer(c)) /\ AfterAnswer(c) \in {"confirm", "held"}
    BY <2>1 DEF j, AfterAnswer
  <2>6. UNCHANGED <<aim, force, dead>> \/ Forgets(c)
    BY <2>2 DEF KeepsLocals
  <2> QED
    BY <1>6, <2>2, <2>3, <2>4, <2>5, <2>6
<1>16. CASE Rejected(c)
  <2>1. file' = file
    BY <1>16 DEF Rejected
  <2>2. CASE Leaves(c, "rejected") /\ UNCHANGED <<aim, force, dead>>
    BY <1>0, <1>2, <2>1, <2>2 DEF Leaves, Drops
  <2>3. CASE Return(c)
    BY <1>3, <2>1, <2>3
  <2>4. CASE SaveThen(c, Update(jar[c], "dotted", None), AfterRejection(c)) /\ UNCHANGED <<aim, force, dead>>
    <3> DEFINE j == Update(jar[c], "dotted", None)
    <3>1. j \in Jars /\ j["dotted"] = None /\ j["plain"] = jar[c]["plain"]
      BY <1>0, <1>1, JarFacts DEF Domains
    <3>2. \A d \in Domains : j[d] <= issued'
      BY <1>0, <1>1, <3>1 DEF Domains
    <3> HIDE DEF j
    <3>3. SaveThen(c, j, AfterRejection(c)) /\ UNCHANGED <<aim, force, dead>>
          /\ AfterRejection(c) \in {"idle", "rejected"}
      BY <2>4 DEF j, AfterRejection
    <3> QED
      BY <1>6, <2>1, <3>1, <3>2, <3>3
  <2> QED
    BY <1>16, <2>2, <2>3, <2>4 DEF Rejected
<1>17. CASE RequestFails(c)
  BY <1>3, <1>5, <1>17 DEF RequestFails
<1>18. CASE TriesChrome(c)
  <2>1. (force[c] \/ c \in Browsers) \in BOOLEAN
    OBVIOUS
  <2> QED
    BY <1>4, <1>18, <2>1 DEF TriesChrome
<1>19. CASE Deadline(c) \/ Finish(c)
  BY <1>3, <1>19 DEF Deadline, Finish
<1> QED
  BY <1>7, <1>8, <1>9, <1>10, <1>11, <1>12, <1>13, <1>14, <1>15, <1>16, <1>17, <1>18, <1>19
  DEF ClientStep

-----------------------------------------------------------------------------
(* The theorems. *)

\* The other clients keep their copies: what they have of Chrome's is so as long
\* as it is accepted.
LEMMA OthersKeepInv ==
  ASSUME IInv, [Next]_vars, NEW c \in Clients,
         UNCHANGED <<pc[c], jar[c], next[c], force[c]>>
  PROVE  Known(jar[c])' /\ (Forced(c)' => OfChrome(c)')
<1>0. /\ issued' \in 1..MaxTokens /\ issued <= issued' /\ issued \in 1..MaxTokens
      /\ \A t \in accepted' : t \in accepted \/ t = issued + 1
      /\ chrome' # chrome => chrome \notin accepted'
      /\ chrome \in 1..issued
  BY ServerSteps DEF IInv, TypeOK
<1>1. \A d \in Domains : jar[c][d] \in Nat /\ jar[c][d] <= issued
  <2>1. jar[c] \in Jars /\ \A d \in Domains : jar[c][d] <= issued
    BY DEF IInv, TypeOK, Known
  <2> QED
    BY <2>1 DEF Jars, Tokens, None
<1>2. Known(jar[c])'
  BY <1>0, <1>1, AuthAssumption DEF Known
<1>3. ASSUME Forced(c)' PROVE OfChrome(c)'
  <2>1. OfChrome(c)
    BY <1>3 DEF Forced, IInv
  <2>2. jar[c]["dotted"] \in Nat /\ jar[c]["dotted"] <= issued
    BY <1>1 DEF Domains
  <2>3. CASE jar[c]["dotted"] = chrome
    BY <1>0, <2>1, <2>3 DEF OfChrome
  <2>4. CASE jar[c]["dotted"] \notin accepted
    <3>1. jar[c]["dotted"] # issued + 1
      BY <1>0, <2>2, AuthAssumption
    <3> QED
      BY <1>0, <2>1, <2>4, <3>1 DEF OfChrome
  <2> QED
    BY <2>1, <2>3, <2>4 DEF OfChrome
<1> QED
  BY <1>2, <1>3

LEMMA InductiveInvariant == SafeSpec => []IInv
<1> USE AuthAssumption
<1>1. Init => IInv
  <2> SUFFICES ASSUME Init PROVE IInv
    OBVIOUS
  <2>1. Empty \in Jars /\ \A d \in Domains : Empty[d] = 0
    BY DEF Empty, Jars, None
  <2>2. TypeOK
    BY <2>1 DEF Init, TypeOK, Pcs, Nexts, Requests, Tokens
  <2>3. issued = 1 /\ file = Empty /\ \A c \in Clients : jar[c] = Empty /\ force[c] = FALSE
    BY DEF Init
  <2>4. Known(file) /\ \A c \in Clients : Known(jar[c])
    BY <2>1, <2>3 DEF Known
  <2> QED
    BY <2>2, <2>3, <2>4 DEF IInv, Forced
<1>2. IInv /\ [Next]_vars => IInv'
  <2> SUFFICES ASSUME IInv, [Next]_vars PROVE IInv'
    OBVIOUS
  <2>0. /\ TypeOK
        /\ pc \in [Clients -> Pcs] /\ jar \in [Clients -> Jars]
        /\ aim \in [Clients -> {"probe", "insert"}] /\ next \in [Clients -> Nexts]
        /\ force \in [Clients -> BOOLEAN] /\ dead \in [Clients -> BOOLEAN]
    BY DEF IInv, TypeOK
  <2>1. /\ issued' \in 1..MaxTokens /\ chrome' \in 1..issued'
        /\ accepted' \subseteq 1..issued' /\ expired' \subseteq 1..issued'
    BY <2>0, ServerSteps
  <2>2. ASSUME NEW c \in Clients, Begin(c) \/ ClientStep(c) PROVE IInv'
    <3>1. ClientTypes(c) /\ (Forced(c)' => OfChrome(c)') /\ Touches(c)
      BY <2>2, ClientKeepsInv, ClientsTouchTheirOwn
    <3>2. /\ pc' \in [Clients -> Pcs] /\ jar' \in [Clients -> Jars]
          /\ aim' \in [Clients -> {"probe", "insert"}] /\ next' \in [Clients -> Nexts]
          /\ force' \in [Clients -> BOOLEAN] /\ dead' \in [Clients -> BOOLEAN]
      BY <2>0, <3>1 DEF Touches, ClientTypes
    <3>3. TypeOK'
      BY <2>1, <3>1, <3>2 DEF TypeOK, ClientTypes
    <3>4. \A b \in Clients : b # c => UNCHANGED <<pc[b], jar[b], next[b], force[b]>>
      BY <2>0, <3>1 DEF Touches
    <3>5. \A b \in Clients : b # c => Known(jar[b])' /\ (Forced(b)' => OfChrome(b)')
      BY <3>4, OthersKeepInv
    <3>6. Known(file)' /\ Known(jar[c])'
      BY <3>1 DEF ClientTypes, Known
    <3> QED
      BY <3>1, <3>3, <3>5, <3>6 DEF IInv
  <2>3. ASSUME UNCHANGED <<file, clientVars, faults>> PROVE IInv'
    <3>1. UNCHANGED <<pc, jar, aim, next, force, dead>>
      BY <2>3 DEF clientVars
    <3>2. TypeOK'
      BY <2>0, <2>1, <2>3, <3>1 DEF TypeOK
    <3>3. \A b \in Clients : Known(jar[b])' /\ (Forced(b)' => OfChrome(b)')
      BY <3>1, OthersKeepInv
    <3>4. Known(file)'
      <4>1. \A d \in Domains : file[d] \in Nat /\ file[d] <= issued
        BY DEF IInv, TypeOK, Jars, Tokens, None, Known
      <4>2. issued \in Nat /\ issued' \in Nat /\ issued <= issued'
        BY <2>0, ServerSteps DEF TypeOK
      <4> QED
        BY <2>3, <4>1, <4>2 DEF Known
    <3> QED
      BY <3>2, <3>3, <3>4 DEF IInv
  <2>4. (\E t \in Tokens : Expires(t)) \/ ChromeRenews \/ UNCHANGED vars
          => UNCHANGED <<file, clientVars, faults>>
    BY DEF Expires, ChromeRenews, vars
  <2> QED
    BY <2>2, <2>3, <2>4 DEF Next
<1> QED
  BY <1>1, <1>2, PTL DEF SafeSpec

\* The file, the copies and the tokens keep their types: whatever is in use has
\* been issued (direct.rs 63-139).
THEOREM AuthTypeCorrect == SafeSpec => []TypeOK
  BY InductiveInvariant, PTL DEF IInv

\* An attempt of direct_context after one that a rejection has ended begins with
\* Chrome's token, or one that Chrome has replaced since because it was not
\* accepted, and not with the cached one, for any clients that overwrite the file
\* and any tokens that expire or rotate.
THEOREM RejectionsLeadToChrome == SafeSpec => []RejectedAskChrome
<1>1. IInv => RejectedAskChrome
  BY DEF IInv, Forced, OfChrome, RejectedAskChrome
<1> QED
  BY <1>1, InductiveInvariant, PTL
=============================================================================
