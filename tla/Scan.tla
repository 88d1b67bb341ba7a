-------------------------------- MODULE Scan --------------------------------
(***************************************************************************)
(* One call of scan() in server/scan.js: runScan with its sequential       *)
(* stages and its six concurrent ones, raced against the deadline. Losing  *)
(* the race does not stop runScan: its connections and its progress events *)
(* go on after the caller has been told scan-timeout.                      *)
(*                                                                         *)
(* The probes themselves are not here. A stage ends with an outcome the    *)
(* target's nature and silence allow; a probe that stays unanswered gives  *)
(* up on its own timeout, so every stage ends.                             *)
(***************************************************************************)
CONSTANTS
  Versions,       \* protocol versions, VERSION_ORDER
  AllowPrivate    \* ALLOW_PRIVATE_TARGETS

ASSUME ScanAssumption == AllowPrivate \in BOOLEAN

Works == {"ciphers", "features", "keyexchange", "http", "clients", "certificate"}

Kinds == {"unparsable", "literal4", "literal6", "name", "digitName"}
Literals == {"literal4", "literal6"}

NoReport == [incomplete |-> FALSE, grade |-> "none"]
Reports == [incomplete : BOOLEAN, grade : {"none", "letter", "T", "?"}]

Stages == {"none", "resolve", "handshake", "protocols", "grade"} \cup Works
Codes == {"pending", "report", "invalid-host", "private-address", "dns-failed",
          "tls-unreachable", "ERR_INVALID_URL", "scan-timeout"}

VARIABLES
  kind,         \* what the caller typed
  address,      \* what it resolves to: "none", "public" or "private"
  server,       \* the target: versions it speaks, and how it is set up
  silent,       \* the target has stopped answering
  at,           \* where runScan stands
  sni,          \* the handshake under way names the host
  supported,    \* the versions detectProtocols found
  work,         \* the concurrent stages
  walking,      \* the versions whose cipher walk is not over
  unanswered,   \* some probe behind the results so far got no answer
  reached,      \* the addresses a connection was opened to
  lookedUp,     \* the name server was asked
  progress,     \* the last stage announced
  outcome,      \* the promise scan() returned
  report        \* what it resolved with

env  == <<kind, address, server>>
body == <<at, sni, supported, work, walking, unanswered, reached, lookedUp, progress>>
vars == <<env, silent, body, outcome, report>>

Servers == [versions : SUBSET Versions \ {{}}, refusesName : BOOLEAN,
            badRedirect : BOOLEAN, trusted : BOOLEAN]

Init ==
  /\ kind \in Kinds
  /\ address \in {"none", "public", "private"}
  /\ kind \in Literals => address # "none"
  /\ server \in Servers
  /\ silent = FALSE
  /\ at = "start"
  /\ sni = FALSE
  /\ supported = {}
  /\ work = [w \in Works |-> "idle"]
  /\ walking = {}
  /\ unanswered = FALSE
  /\ reached = {}
  /\ lookedUp = FALSE
  /\ progress = "none"
  /\ outcome = "pending"
  /\ report = NoReport

-----------------------------------------------------------------------------
\* Promise.race: whoever settles first decides, the other is ignored.
Settle(code, value) ==
  IF outcome = "pending" THEN outcome' = code /\ report' = value
                         ELSE UNCHANGED <<outcome, report>>

\* An exception leaves runScan; stages already running are left running.
Throw(code) ==
  /\ at' = "ended"
  /\ Settle(code, NoReport)

\* A stage that ends while the target is silent may lack answers.
Heard(b) == b \in {unanswered} \cup (IF silent THEN {TRUE} ELSE {})

\* tlsInspect: without a servername it falls back on the host, unless that
\* starts like an address.
NameSent(servername) == servername \/ kind = "name"

\* The handshake fails on silence, on a refused name, or on the way.
CanShake == ~silent /\ ~(server.refusesName /\ sni)

OpenHandshake(servername) ==
  /\ sni' = NameSent(servername)
  /\ reached' = reached \cup {address}

-----------------------------------------------------------------------------
Start ==
  /\ at = "start"
  /\ \/ /\ kind = "unparsable"
        /\ Throw("invalid-host")
        /\ UNCHANGED <<progress, lookedUp>>
     \/ /\ kind # "unparsable"
        /\ progress' = "resolve"
        /\ IF kind \in Literals /\ address = "private" /\ ~AllowPrivate
           THEN Throw("private-address") /\ UNCHANGED lookedUp
           ELSE /\ at' = "dns"
                /\ lookedUp' = TRUE
                /\ UNCHANGED <<outcome, report>>
  /\ UNCHANGED <<env, silent, sni, supported, work, walking, unanswered, reached>>

\* Mutant: the address a name resolves to is not looked at again.
ResolvedUnchecked ==
  /\ at = "dns"
  /\ IF address = "none"
     THEN Throw("dns-failed") /\ UNCHANGED <<sni, reached, progress>>
     ELSE /\ at' = "handshake"
          /\ progress' = "handshake"
          /\ OpenHandshake(kind \notin Literals)
          /\ UNCHANGED <<outcome, report>>
  /\ UNCHANGED <<env, silent, supported, work, walking, unanswered, lookedUp>>

Resolved ==
  /\ at = "dns"
  /\ \/ /\ address = "none"
        /\ Throw("dns-failed")
        /\ UNCHANGED <<sni, reached, progress>>
     \/ /\ address = "private" /\ ~AllowPrivate
        /\ Throw("private-address")
        /\ UNCHANGED <<sni, reached, progress>>
     \/ /\ address # "none" /\ (address = "private" => AllowPrivate)
        /\ at' = "handshake"
        /\ progress' = "handshake"
        /\ OpenHandshake(kind \notin Literals)
        /\ UNCHANGED <<outcome, report>>
  /\ UNCHANGED <<env, silent, supported, work, walking, unanswered, lookedUp>>

BeginProtocols ==
  /\ at' = "protocols"
  /\ progress' = "protocols"
  /\ UNCHANGED <<sni, reached, outcome, report>>

FirstHandshake ==
  /\ at = "handshake"
  /\ \/ CanShake /\ BeginProtocols
     \/ /\ at' = "bare"
        /\ OpenHandshake(FALSE)
        /\ UNCHANGED <<progress, outcome, report>>
  /\ UNCHANGED <<env, silent, supported, work, walking, unanswered, lookedUp>>

\* Mutant: the bare handshake is tried until it is answered.
BareForever ==
  /\ at = "bare"
  /\ \/ CanShake /\ BeginProtocols
     \/ OpenHandshake(FALSE) /\ UNCHANGED <<at, progress, outcome, report>>
  /\ UNCHANGED <<env, silent, supported, work, walking, unanswered, lookedUp>>

BareHandshake ==
  /\ at = "bare"
  /\ \/ CanShake /\ BeginProtocols
     \/ Throw("tls-unreachable") /\ UNCHANGED <<sni, reached, progress>>
  /\ UNCHANGED <<env, silent, supported, work, walking, unanswered, lookedUp>>

\* Mutant: every version that was tried counts as supported.
ProtocolsUnfiltered ==
  /\ at = "protocols"
  /\ supported' = Versions
  /\ walking' = Versions
  /\ unanswered' = silent
  /\ at' = "works"
  /\ work' = [w \in Works |-> "running"]
  /\ progress' = "certificate"
  /\ UNCHANGED <<env, silent, sni, reached, lookedUp, outcome, report>>

\* All six works start in one go; certWork's is the last announcement.
ProtocolsDetected ==
  /\ at = "protocols"
  /\ \E found \in (IF silent THEN SUBSET server.versions ELSE {server.versions}) :
       /\ supported' = found
       /\ walking' = found
       /\ unanswered' = (found # server.versions)
  /\ at' = "works"
  /\ work' = [w \in Works |-> "running"]
  /\ progress' = "certificate"
  /\ UNCHANGED <<env, silent, sni, reached, lookedUp, outcome, report>>

-----------------------------------------------------------------------------
(* The concurrent stages. They run on whether or not the scan has ended.   *)

\* enumerateCiphers and detectCipherOrder for one version.
CiphersWalked(v) ==
  /\ v \in walking
  /\ walking' = walking \ {v}
  /\ progress' = "ciphers"
  /\ Heard(unanswered')
  /\ UNCHANGED <<env, silent, at, sni, supported, work, reached, lookedUp, outcome, report>>

\* new URL throws on an unbracketed IPv6 host, and on a Location that is none.
HttpThrows == kind = "literal6" \/ (server.badRedirect /\ ~silent)

WorkDone(w) ==
  /\ work[w] = "running"
  /\ w = "ciphers" => walking = {}
  /\ w = "http" => ~HttpThrows
  /\ work' = [work EXCEPT ![w] = "done"]
  /\ Heard(unanswered')
  /\ UNCHANGED <<env, silent, at, sni, supported, walking, reached, lookedUp, progress,
                 outcome, report>>

\* The rejection of one work is the rejection of Promise.all.
HttpRejects ==
  /\ work["http"] = "running"
  /\ HttpThrows
  /\ work' = [work EXCEPT !["http"] = "rejected"]
  /\ Throw("ERR_INVALID_URL")
  /\ UNCHANGED <<env, silent, sni, supported, walking, unanswered, reached, lookedUp, progress>>

\* The order of grade(): the certificate's verdict, then nothing to grade.
Grade(incomplete) ==
  IF ~server.trusted THEN "T" ELSE IF incomplete THEN "?" ELSE "letter"

\* Mutant: the cipher walk is not among the awaited works.
AssembleEarly ==
  /\ at = "works"
  /\ \A w \in Works \ {"ciphers"} : work[w] = "done"
  /\ at' = "ended"
  /\ progress' = "grade"
  /\ Settle("report", [incomplete |-> supported = {}, grade |-> Grade(supported = {})])
  /\ UNCHANGED <<env, silent, sni, supported, work, walking, unanswered, reached, lookedUp>>

Assemble ==
  /\ at = "works"
  /\ \A w \in Works : work[w] = "done"
  /\ at' = "ended"
  /\ progress' = "grade"
  /\ Settle("report", [incomplete |-> supported = {}, grade |-> Grade(supported = {})])
  /\ UNCHANGED <<env, silent, sni, supported, work, walking, unanswered, reached, lookedUp>>

-----------------------------------------------------------------------------
\* Mutant: the clock starts once the name is resolved.
DeadlineAfterLookup ==
  /\ at \notin {"start", "dns"}
  /\ outcome = "pending"
  /\ Settle("scan-timeout", NoReport)
  /\ UNCHANGED <<env, silent, body>>

Deadline ==
  /\ at # "start"
  /\ outcome = "pending"
  /\ Settle("scan-timeout", NoReport)
  /\ UNCHANGED <<env, silent, body>>

\* A rate limiter trips, or the host goes away.
GoesSilent ==
  /\ ~silent
  /\ silent' = TRUE
  /\ UNCHANGED <<env, body, outcome, report>>

Sequential == \/ Start \/ Resolved \/ FirstHandshake \/ BareHandshake
              \/ ProtocolsDetected \/ Assemble

Next ==
  \/ Sequential
  \/ \E v \in Versions : CiphersWalked(v)
  \/ \E w \in Works : WorkDone(w)
  \/ HttpRejects
  \/ Deadline
  \/ GoesSilent

Spec == Init /\ [][Next]_vars

\* The timer is all that is promised: no probe need ever finish.
FairSpec == Spec /\ WF_vars(Start) /\ WF_vars(Deadline)

\* What holds on top of that: every probe has a timeout of its own.
StagesEnd ==
  /\ WF_vars(Sequential)
  /\ \A v \in Versions : WF_vars(CiphersWalked(v))
  /\ \A w \in Works : WF_vars(WorkDone(w))
  /\ WF_vars(HttpRejects)

-----------------------------------------------------------------------------
TypeOK ==
  /\ kind \in Kinds
  /\ address \in {"none", "public", "private"}
  /\ server \in Servers
  /\ silent \in BOOLEAN
  /\ at \in {"start", "dns", "handshake", "bare", "protocols", "works", "ended"}
  /\ sni \in BOOLEAN
  /\ supported \subseteq server.versions
  /\ work \in [Works -> {"idle", "running", "done", "rejected"}]
  /\ walking \subseteq supported
  /\ unanswered \in BOOLEAN
  /\ reached \subseteq {"public", "private"}
  /\ lookedUp \in BOOLEAN
  /\ progress \in Stages
  /\ outcome \in Codes
  /\ report \in Reports

(***************************************************************************)
(* A private address is never connected to, however it was arrived at, and *)
(* one typed as a literal is not even looked up.                           *)
(***************************************************************************)
PrivateUntouched ==
  ~AllowPrivate =>
    /\ "private" \notin reached
    /\ kind \in Literals /\ address = "private" => ~lookedUp

(***************************************************************************)
(* A report is only given when all of it has been measured: the six works  *)
(* done, the cipher walk of every supported version over, and nothing left *)
(* running that could announce progress after it.                          *)
(***************************************************************************)
ReportIsWhole ==
  outcome = "report" =>
    /\ \A w \in Works : work[w] = "done"
    /\ walking = {}
    /\ progress = "grade"

(***************************************************************************)
(* A scan none of whose protocol probes was answered never carries a       *)
(* letter, whatever its other stages managed to collect.                   *)
(***************************************************************************)
NoLetterFromSilence ==
  outcome = "report" /\ supported = {} => report.incomplete /\ report.grade # "letter"

\* The hard ceiling: the caller is answered even if no probe ever returns.
CallerAnswered == at # "start" ~> outcome # "pending"

\* What a failed or timed out scan left running dies down.
Quiet == at = "ended" /\ walking = {} /\ \A w \in Works : work[w] # "running"
GoesQuiet == StagesEnd => <>[]Quiet

-----------------------------------------------------------------------------
(* What the repository says of the scan and the code does not do.          *)

\* "One retry without SNI": the retry sends no name.
RetryDropsName == at = "bare" => ~sni

\* "A target that stops answering mid-scan produces a report marked
\* incomplete with no grade".
SilenceHasNoGrade ==
  outcome = "report" /\ unanswered => report.incomplete /\ report.grade # "letter"

\* "One request, following nothing. Never throws.": so the HTTP stage could
\* only fail on a redirect it follows.
RequestNeverThrows == work["http"] = "rejected" => server.badRedirect
=============================================================================
