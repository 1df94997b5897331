------------------------------ MODULE AuthCache ------------------------------
(***************************************************************************)
(* auth.json and the clients that copy it: CookieAuth and HttpClient of    *)
(* src/direct.rs, get_direct_auth and the retries of direct_context in     *)
(* src/daemon/mod.rs.  An HttpClient takes a copy of the cookies when it   *)
(* is made, sends it with each request, and whenever an answer sets a      *)
(* cookie it saves its whole copy over the file.  It lives as long as its  *)
(* terminal.  Chrome's profile is where a rejected client turns to.        *)
(* The two cookies that a login needs are set and revoked together and are *)
(* one token here.  ensure_lock is left out: clients interleave more than  *)
(* in the code.  A step is a request, or an access to the file or Chrome.  *)
(***************************************************************************)
EXTENDS Naturals, FiniteSets

CONSTANTS Clients,    \* operations that make a client
          Browsers,   \* those that may ask Chrome: all but a run with ensure=false
          Regular,    \* those that begin again and again: maintenance
          MaxTokens,  \* bound: tokens that are ever issued
          MaxFaults   \* bound: failures without a cause in here

None == 0   \* no token; tokens are numbered as they are issued

ASSUME AuthAssumption ==
  /\ Regular \subseteq Browsers /\ Browsers \subseteq Clients
  /\ MaxTokens \in Nat \ {0} /\ MaxFaults \in Nat

Tokens == 1..MaxTokens

\* A cookie of domain ".gitcode.com", as Chrome has it, is sent to all hosts; one
\* of "gitcode.com", which a Set-Cookie may name, to none that the program asks.
Domains == {"dotted", "plain"}
Jars == [Domains -> Tokens \cup {None}]
Empty == [d \in Domains |-> None]

VARIABLES
  file,      \* auth.json
  chrome,    \* the token of Chrome's profile
  issued,    \* how many tokens have been issued
  accepted,  \* those the server accepts
  expired,   \* those whose expiry has passed, which everyone can see
  pc,        \* where each operation is
  jar,       \* the cookies of its client
  aim,       \* the request that get_direct_auth is called for
  next,      \* where it goes on after a save
  force,     \* its force_extract_next
  dead,      \* its previous_dead
  faults

serverVars == <<chrome, issued, accepted, expired>>
clientVars == <<pc, jar, aim, next, force, dead>>
vars == <<file, serverVars, clientVars, faults>>

\* The requests: the probe of the previous notebook, the insert, the probe of the
\* inserted one, and later ones of the same client.
Requests == {"probe", "insert", "confirm", "held"}
Pcs == Requests \cup {"idle", "auth", "extract", "save", "rejected"}
Nexts == Requests \cup {"idle", "auth", "rejected"}

\* The type invariant: tokens in use have been issued.
TypeOK ==
  /\ issued \in 1..MaxTokens
  /\ file \in Jars /\ chrome \in 1..issued
  /\ accepted \subseteq 1..issued /\ expired \subseteq 1..issued
  /\ pc \in [Clients -> Pcs]
  /\ jar \in [Clients -> Jars]
  /\ aim \in [Clients -> {"probe", "insert"}]
  /\ next \in [Clients -> Nexts]
  /\ force \in [Clients -> BOOLEAN] /\ dead \in [Clients -> BOOLEAN]
  /\ faults \in 0..MaxFaults

Init ==
  /\ issued = 1 /\ chrome = 1 /\ accepted = {1} /\ expired = {}
  /\ file = Empty
  /\ pc = [c \in Clients |-> "idle"]
  /\ jar = [c \in Clients |-> Empty]
  /\ aim = [c \in Clients |-> "probe"]
  /\ next = [c \in Clients |-> "idle"]
  /\ force = [c \in Clients |-> FALSE] /\ dead = [c \in Clients |-> FALSE]
  /\ faults = 0

-----------------------------------------------------------------------------
(* Cookies. *)

Live(t) == t # None /\ t \notin expired

\* CookieAuth::valid: a token by name, whatever its domain (auth_refresh_margin,
\* which lets a token count as expired somewhat earlier, is left out).
Valid(cookies) == \E d \in Domains : Live(cookies[d])

\* CookieAuth::cookie_header: what is sent.
Sent(cookies) == {t \in {cookies["dotted"]} : Live(t)}

\* CookieAuth::update: a cookie replaces the one of its domain; one that is
\* expired removes it.
Update(cookies, d, t) == [cookies EXCEPT ![d] = t]

\* CookieAuth::save: the whole copy, renamed into place.
WriteFile(cookies) == file' = cookies

-----------------------------------------------------------------------------
(* The operation of a client. *)

Fault == faults < MaxFaults /\ faults' = faults + 1
NoFault == UNCHANGED faults

Goto(c, label) == pc' = [pc EXCEPT ![c] = label] /\ UNCHANGED <<jar, aim, next, force, dead>>

\* The client is dropped; direct_context returns.
Drops(c) == jar' = [jar EXCEPT ![c] = Empty]
Forgets(c) ==
  /\ aim' = [aim EXCEPT ![c] = "probe"]
  /\ force' = [force EXCEPT ![c] = FALSE] /\ dead' = [dead EXCEPT ![c] = FALSE]
Return(c) ==
  /\ pc' = [pc EXCEPT ![c] = "idle"]
  /\ next' = [next EXCEPT ![c] = "idle"]
  /\ Drops(c) /\ Forgets(c)

Begin(c) ==
  /\ pc[c] = "idle"
  /\ Goto(c, "auth")
  /\ NoFault /\ UNCHANGED <<file, serverVars>>

\* The next attempt of direct_context, with force or without.
Retry(c, f) ==
  /\ pc' = [pc EXCEPT ![c] = "auth"]
  /\ aim' = [aim EXCEPT ![c] = "probe"]
  /\ force' = [force EXCEPT ![c] = f]
  /\ Drops(c)
  /\ UNCHANGED <<next, dead>>

\* An attempt fails, before its deadline or behind it; the error may contain
\* "auth" without being a rejection.
Stops(c) ==
  \/ Retry(c, force[c])
  \/ Retry(c, force[c] \/ c \in Browsers)
  \/ Return(c)

\* get_direct_auth: load_cached_auth, unless Chrome is to be asked.
MutCacheServesAgain(c) == Valid(file)
CacheServes(c) == ~force[c] /\ Valid(file)
ReadCache(c) ==
  /\ pc[c] = "auth"
  /\ \/ /\ CacheServes(c)
        /\ pc' = [pc EXCEPT ![c] = aim[c]]
        /\ jar' = [jar EXCEPT ![c] = file]
        /\ UNCHANGED <<aim, next, force, dead>>
     \/ ~CacheServes(c) /\ c \in Browsers /\ Goto(c, "extract")
     \/ ~CacheServes(c) /\ c \notin Browsers /\ Stops(c)
  /\ NoFault /\ UNCHANGED <<file, serverVars>>

\* extract_auth_from_chrome reads the profile's cookies and saves them.
SaveThen(c, cookies, label) ==
  /\ pc' = [pc EXCEPT ![c] = "save"]
  /\ jar' = [jar EXCEPT ![c] = cookies]
  /\ next' = [next EXCEPT ![c] = label]
MutExtractUnsaved(c) ==
  /\ pc[c] = "extract" /\ Live(chrome)
  /\ pc' = [pc EXCEPT ![c] = aim[c]]
  /\ jar' = [jar EXCEPT ![c] = Update(Empty, "dotted", chrome)]
  /\ UNCHANGED <<aim, next, force, dead>>
  /\ NoFault /\ UNCHANGED <<file, serverVars>>
Extract(c) ==
  /\ pc[c] = "extract" /\ Live(chrome)
  /\ SaveThen(c, Update(Empty, "dotted", chrome), aim[c])
  /\ UNCHANGED <<aim, force, dead>>
  /\ NoFault /\ UNCHANGED <<file, serverVars>>

\* Chrome has no valid login, or fails.
ExtractFails(c) ==
  /\ pc[c] = "extract"
  /\ \/ ~Live(chrome) /\ NoFault
     \/ Live(chrome) /\ Fault
  /\ Stops(c)
  /\ UNCHANGED <<file, serverVars>>

Save(c) ==
  /\ pc[c] = "save"
  /\ WriteFile(jar[c])
  /\ IF next[c] = "idle" THEN Return(c)
     ELSE /\ pc' = [pc EXCEPT ![c] = next[c]]
          /\ next' = [next EXCEPT ![c] = "idle"]
          /\ IF next[c] \in Requests THEN UNCHANGED jar ELSE Drops(c)
          /\ UNCHANGED <<aim, force, dead>>
  /\ NoFault /\ UNCHANGED serverVars

-----------------------------------------------------------------------------
(* Requests. *)

Asking(c) == pc[c] \in Requests
Welcome(c) == Sent(jar[c]) \cap accepted # {}

\* Without a previous notebook, or for a caller that skips it, this client is not
\* used at all.
SkipsProbe(c) ==
  /\ pc[c] = "probe"
  /\ pc' = [pc EXCEPT ![c] = "auth"]
  /\ aim' = [aim EXCEPT ![c] = "insert"]
  /\ Drops(c)
  /\ UNCHANGED <<next, force, dead>>
  /\ NoFault /\ UNCHANGED <<file, serverVars>>

\* A notebook that is known to be dead is not probed.
Sends(c) == Asking(c) /\ (pc[c] = "probe" => ~dead[c])

AfterAnswer(c) == IF pc[c] = "insert" THEN "confirm" ELSE "held"
KeepsLocals(c) == IF pc[c] = "insert" THEN UNCHANGED <<aim, force, dead>> ELSE Forgets(c)
Accepted(c) ==
  /\ Sends(c) /\ Welcome(c)
  /\ pc' = [pc EXCEPT ![c] = AfterAnswer(c)]
  /\ KeepsLocals(c)
  /\ UNCHANGED <<jar, next>>
  /\ NoFault /\ UNCHANGED <<file, serverVars>>

\* The answer brings a new token; the old one may be revoked by it.
Rotated(c) ==
  /\ Sends(c) /\ Welcome(c)
  /\ issued + 2 <= MaxTokens
  /\ issued' = issued + 1
  /\ \E d \in Domains : SaveThen(c, Update(jar[c], d, issued + 1), AfterAnswer(c))
  /\ \E revoked \in {{}, Sent(jar[c])} : accepted' = (accepted \ revoked) \cup {issued + 1}
  /\ KeepsLocals(c)
  /\ NoFault /\ UNCHANGED <<file, chrome, expired>>

Leaves(c, label) == pc' = [pc EXCEPT ![c] = label] /\ Drops(c) /\ UNCHANGED next

\* A probe of the previous notebook that fails, whatever the reason, is followed
\* by another get_direct_auth and the insert of the same attempt.
AimsAtInsert(c) ==
  /\ aim' = [aim EXCEPT ![c] = "insert"] /\ dead' = [dead EXCEPT ![c] = TRUE]
  /\ UNCHANGED force
ProbeFails(c) ==
  /\ pc[c] = "probe" /\ ~dead[c]
  /\ AimsAtInsert(c)
  /\ \/ /\ ~Welcome(c) /\ NoFault
        /\ \/ Leaves(c, "auth")
           \/ SaveThen(c, Update(jar[c], "dotted", None), "auth")
     \/ Fault /\ Leaves(c, "auth")
  /\ UNCHANGED <<file, serverVars>>

\* 401 or 403; the answer may remove the cookie, and update_cookies comes before
\* the status is looked at.  A later request is not tried again by this call.
AfterRejection(c) == IF pc[c] = "held" THEN "idle" ELSE "rejected"
Rejected(c) ==
  /\ Asking(c) /\ pc[c] # "probe" /\ ~Welcome(c)
  /\ \/ AfterRejection(c) = "rejected" /\ Leaves(c, "rejected") /\ UNCHANGED <<aim, force, dead>>
     \/ AfterRejection(c) = "idle" /\ Return(c)
     \/ /\ SaveThen(c, Update(jar[c], "dotted", None), AfterRejection(c))
        /\ UNCHANGED <<aim, force, dead>>
  /\ NoFault /\ UNCHANGED <<file, serverVars>>

\* Any other error of a request.
RequestFails(c) ==
  /\ Asking(c) /\ pc[c] # "probe" /\ Fault
  /\ IF pc[c] = "held" THEN Return(c) ELSE Stops(c)
  /\ UNCHANGED <<file, serverVars>>

\* The error of a rejection: the next attempt asks Chrome.
MutTriesTheSame(c) ==
  /\ pc[c] = "rejected"
  /\ Retry(c, force[c])
  /\ NoFault /\ UNCHANGED <<file, serverVars>>
TriesChrome(c) ==
  /\ pc[c] = "rejected"
  /\ Retry(c, force[c] \/ c \in Browsers)
  /\ NoFault /\ UNCHANGED <<file, serverVars>>

\* The deadline of direct_context; before a second attempt it is a fault.
Deadline(c) ==
  /\ pc[c] = "rejected"
  /\ \/ (force[c] \/ c \notin Browsers) /\ NoFault
     \/ ~(force[c] \/ c \notin Browsers) /\ Fault
  /\ Return(c)
  /\ UNCHANGED <<file, serverVars>>

Finish(c) ==
  /\ pc[c] = "held"
  /\ Return(c)
  /\ NoFault /\ UNCHANGED <<file, serverVars>>

-----------------------------------------------------------------------------
(* The server and Chrome. *)

Expires(t) ==
  /\ t \in 1..issued /\ t \notin expired /\ issued < MaxTokens
  /\ expired' = expired \cup {t} /\ accepted' = accepted \ {t}
  /\ UNCHANGED <<file, chrome, issued, clientVars, faults>>

\* A page of a profile that is logged in renews its token when it loads.
ChromeRenews ==
  /\ chrome \notin accepted /\ issued < MaxTokens
  /\ issued' = issued + 1 /\ chrome' = issued + 1
  /\ accepted' = accepted \cup {issued + 1}
  /\ UNCHANGED <<file, expired, clientVars, faults>>

ClientStep(c) ==
  \/ ReadCache(c) \/ Extract(c) \/ ExtractFails(c) \/ Save(c)
  \/ SkipsProbe(c) \/ ProbeFails(c)
  \/ Accepted(c) \/ Rotated(c) \/ Rejected(c) \/ RequestFails(c)
  \/ TriesChrome(c) \/ Deadline(c) \/ Finish(c)

Next == \/ \E c \in Clients : Begin(c) \/ ClientStep(c)
        \/ \E t \in Tokens : Expires(t)
        \/ ChromeRenews

(***************************************************************************)
(* Threads are scheduled and requests end; a terminal is closed at last    *)
(* (Finish); maintenance begins again and again; Chrome stays logged in.   *)
(***************************************************************************)
Fairness ==
  /\ \A c \in Clients : WF_vars(ClientStep(c)) /\ SF_vars(Finish(c))
  /\ \A c \in Regular : WF_vars(Begin(c))
  /\ WF_vars(ChromeRenews)

SafeSpec == Init /\ [][Next]_vars

Spec == SafeSpec /\ Fairness

-----------------------------------------------------------------------------
\* An attempt after one that a rejection has ended begins with what Chrome has,
\* in its probe and in its insert, whatever the others have saved to the file
\* meanwhile and wherever a save, a failed extraction or another error leads in
\* between; and if Chrome has another token by now, then because the server does
\* not accept this one any more (mod.rs 464-478, 592-635).  A rejection of the
\* probe does not end its attempt: the insert behind it may send the same token.
RejectedAskChrome == \A c \in Clients :
  force[c] /\ pc[c] \in {"probe", "insert"} =>
    /\ jar[c]["plain"] = None
    /\ jar[c]["dotted"] = chrome \/ jar[c]["dotted"] \notin accepted

\* Each client saves its whole copy and may lose what another one stored, and a
\* rotated token may get a domain it is never sent to (direct.rs 191, 405-423);
\* still the file comes to hold a token that is sent and accepted again, so that
\* the runs which may not ask Chrome work again.
CacheUsableAgain == []<>(Sent(file) \cap accepted # {})

\* Maintenance is let in again and again: a file whose token is valid in form
\* but not sent, or not accepted any more, does not keep it on the cached copy:
\* a rejected probe only leads to the insert, whose own rejection makes the next
\* attempt ask Chrome (mod.rs 592-602, 629-633).
MaintenanceLetIn == \A c \in Regular : []<>(pc[c] = "held")
=============================================================================
