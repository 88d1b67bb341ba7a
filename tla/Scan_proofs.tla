----------------------------- MODULE Scan_proofs -----------------------------
(***************************************************************************)
(* Theorems about one scan, for any protocol versions and with private     *)
(* targets allowed or not.                                                 *)
(***************************************************************************)
EXTENDS Scan, TLAPS

(***************************************************************************)
(* The inductive invariant. A connection is only opened once the address   *)
(* has been resolved and vetted; the works only run once the protocols are *)
(* known; and a report is what Assemble made of works that were all done.  *)
(***************************************************************************)
Vetted ==
  /\ at = "start" => ~lookedUp
  /\ lookedUp => ~(kind \in Literals /\ address = "private" /\ ~AllowPrivate)
  /\ at \in {"start", "dns"} => reached = {}
  /\ at \in {"handshake", "bare"} \/ reached # {} =>
       address # "none" /\ (address = "private" => AllowPrivate)
  /\ reached \subseteq {address}

Phased ==
  /\ at \in {"start", "dns", "handshake", "bare", "protocols"} =>
       work = [w \in Works |-> "idle"]
  /\ work["ciphers"] # "running" => walking = {}

Assembled ==
  outcome = "report" =>
    /\ at = "ended"
    /\ \A w \in Works : work[w] = "done"
    /\ progress = "grade"
    /\ report = [incomplete |-> supported = {}, grade |-> Grade(supported = {})]

IInv == TypeOK /\ Vetted /\ Phased /\ Assembled

-----------------------------------------------------------------------------
\* The records a scan may be settled with are reports.
LEMMA GradeType ==
  ASSUME NEW b \in BOOLEAN
  PROVE  /\ [incomplete |-> b, grade |-> Grade(b)] \in Reports
         /\ Grade(TRUE) # "letter"
  BY DEF Grade, Reports

\* Settling keeps the outcome and the report within their types.
LEMMA SettleType ==
  ASSUME TypeOK, NEW c \in Codes, NEW r \in Reports, Settle(c, r)
  PROVE  outcome' \in Codes /\ report' \in Reports
  BY DEF Settle, TypeOK

\* An exception is a code of its own, never a report.
LEMMA ThrowKeeps ==
  ASSUME TypeOK, NEW c \in Codes \ {"report"}, Throw(c)
  PROVE  /\ at' = "ended"
         /\ outcome' \in Codes /\ report' \in Reports
         /\ outcome' = "report" => outcome = "report" /\ report' = report
  <1>1. NoReport \in Reports
    BY DEF NoReport, Reports
  <1>2. outcome \in Codes /\ report \in Reports
    BY DEF TypeOK
  <1>3. CASE outcome = "pending"
    BY <1>1, <1>3 DEF Throw, Settle
  <1>4. CASE outcome # "pending"
    BY <1>2, <1>4 DEF Throw, Settle
  <1> QED
    BY <1>3, <1>4

\* Every initial state satisfies the invariant.
LEMMA InitInv == Init => IInv
  <1> SUFFICES ASSUME Init PROVE IInv
    OBVIOUS
  <1>1. report \in Reports
    BY DEF Init, NoReport, Reports
  <1>2. TypeOK
    BY <1>1 DEF Init, TypeOK, Stages, Codes
  <1>3. Vetted
    BY DEF Init, Vetted
  <1>4. Phased
    BY DEF Init, Phased
  <1>5. Assembled
    BY DEF Init, Assembled
  <1> QED
    BY <1>2, <1>3, <1>4, <1>5 DEF IInv

\* Parsing the target, and refusing it, keep the invariant.
LEMMA StartKeeps == ASSUME IInv, Start PROVE IInv'
  <1>1. TypeOK'
    <2>1. CASE kind = "unparsable" /\ Throw("invalid-host") /\ UNCHANGED <<progress, lookedUp>>
      BY <2>1, ThrowKeeps DEF IInv, TypeOK, Start, Codes, env
    <2>2. CASE progress' = "resolve" /\ Throw("private-address") /\ UNCHANGED lookedUp
      BY <2>2, ThrowKeeps DEF IInv, TypeOK, Start, Codes, Stages, env
    <2>3. CASE progress' = "resolve" /\ at' = "dns" /\ lookedUp' = TRUE /\ UNCHANGED <<outcome, report>>
      BY <2>3 DEF IInv, TypeOK, Start, Stages, env
    <2> QED
      BY <2>1, <2>2, <2>3 DEF Start
  <1>2. Vetted'
    BY DEF IInv, Vetted, Start, Throw, env
  <1>3. Phased'
    BY DEF IInv, Phased, Start, Throw
  <1>4. Assembled'
    BY DEF IInv, TypeOK, Assembled, Start, Throw, Settle
  <1> QED
    BY <1>1, <1>2, <1>3, <1>4 DEF IInv

\* Vetting the resolved address keeps the invariant.
LEMMA ResolvedKeeps == ASSUME IInv, Resolved PROVE IInv'
  <1>1. TypeOK'
    <2>1. CASE \E c \in {"dns-failed", "private-address"} :
                 Throw(c) /\ UNCHANGED <<sni, reached, progress>>
      BY <2>1, ThrowKeeps DEF IInv, TypeOK, Resolved, Codes, env
    <2>2. CASE /\ address \in {"public", "private"}
               /\ at' = "handshake" /\ progress' = "handshake"
               /\ OpenHandshake(kind \notin Literals)
               /\ UNCHANGED <<outcome, report>>
      BY <2>2 DEF IInv, TypeOK, Resolved, OpenHandshake, NameSent, Stages, env
    <2>3. address \in {"none", "public", "private"}
      BY DEF IInv, TypeOK
    <2> QED
      BY <2>1, <2>2, <2>3 DEF Resolved
  <1>2. Vetted'
    BY DEF IInv, TypeOK, Vetted, Resolved, Throw, OpenHandshake, env
  <1>3. Phased'
    BY DEF IInv, Phased, Resolved, Throw
  <1>4. Assembled'
    BY DEF IInv, TypeOK, Assembled, Resolved, Throw, Settle
  <1> QED
    BY <1>1, <1>2, <1>3, <1>4 DEF IInv

\* Both handshakes, answered or not, keep the invariant.
LEMMA HandshakeKeeps ==
  ASSUME IInv, FirstHandshake \/ BareHandshake
  PROVE  IInv'
  <1>1. TypeOK'
    <2>1. CASE BeginProtocols
      BY <2>1 DEF IInv, TypeOK, FirstHandshake, BareHandshake, BeginProtocols, Stages, env
    <2>2. CASE at' = "bare" /\ OpenHandshake(FALSE) /\ UNCHANGED <<progress, outcome, report>>
      BY <2>2 DEF IInv, TypeOK, Vetted, FirstHandshake, BareHandshake, OpenHandshake,
                  NameSent, env
    <2>3. CASE Throw("tls-unreachable") /\ UNCHANGED <<sni, reached, progress>>
      BY <2>3, ThrowKeeps DEF IInv, TypeOK, FirstHandshake, BareHandshake, Codes, env
    <2> QED
      BY <2>1, <2>2, <2>3 DEF FirstHandshake, BareHandshake
  <1>2. Vetted'
    BY DEF IInv, Vetted, FirstHandshake, BareHandshake, BeginProtocols, OpenHandshake, Throw, env
  <1>3. Phased'
    BY DEF IInv, Phased, FirstHandshake, BareHandshake, BeginProtocols, Throw
  <1>4. Assembled'
    BY DEF IInv, TypeOK, Assembled, FirstHandshake, BareHandshake, BeginProtocols, Throw, Settle
  <1> QED
    BY <1>1, <1>2, <1>3, <1>4 DEF IInv

\* Starting the works keeps the invariant.
LEMMA ProtocolsKeep == ASSUME IInv, ProtocolsDetected PROVE IInv'
  <1>1. TypeOK'
    BY DEF IInv, TypeOK, ProtocolsDetected, Stages, Works, env
  <1>2. Vetted'
    BY DEF IInv, Vetted, ProtocolsDetected, env
  <1>3. Phased'
    BY DEF Phased, ProtocolsDetected, Works
  <1>4. Assembled'
    BY DEF IInv, Assembled, ProtocolsDetected
  <1> QED
    BY <1>1, <1>2, <1>3, <1>4 DEF IInv

\* The stages that run side by side, and may outlive the scan.
LEMMA WorksKeep ==
  ASSUME IInv,
         \/ \E v \in Versions : CiphersWalked(v)
         \/ \E w \in Works : WorkDone(w)
         \/ HttpRejects
  PROVE  IInv'
  <1>1. ASSUME NEW v \in Versions, CiphersWalked(v) PROVE IInv'
    <2>1. work["ciphers"] = "running" /\ at \in {"works", "ended"}
      BY <1>1 DEF CiphersWalked, IInv, Phased, TypeOK, Works
    <2>2. outcome # "report"
      BY <2>1 DEF IInv, Assembled, Works
    <2> QED
      BY <1>1, <2>1, <2>2, ZenonT(60) DEF CiphersWalked, Heard, IInv, TypeOK, Vetted, Phased,
                              Assembled, Stages, Works, env
  <1>2. ASSUME NEW w \in Works, WorkDone(w) PROVE IInv'
    <2>1. at \in {"works", "ended"} /\ outcome # "report"
      BY <1>2 DEF WorkDone, IInv, Phased, Assembled, TypeOK
    <2>2. TypeOK'
      BY <1>2 DEF WorkDone, Heard, IInv, TypeOK, env
    <2>3. Phased'
      BY <1>2, <2>1 DEF WorkDone, IInv, TypeOK, Phased, Works
    <2> QED
      BY <1>2, <2>1, <2>2, <2>3 DEF WorkDone, IInv, Vetted, Assembled, env
  <1>3. CASE HttpRejects
    <2>1. at \in {"works", "ended"} /\ outcome # "report"
      BY <1>3 DEF HttpRejects, IInv, Phased, Assembled, TypeOK, Works
    <2>2. TypeOK'
      BY <1>3, ThrowKeeps DEF HttpRejects, IInv, TypeOK, Codes, env
    <2>3. Vetted' /\ Phased'
      BY <1>3 DEF HttpRejects, Throw, IInv, TypeOK, Vetted, Phased, Works, env
    <2>4. Assembled'
      BY <1>3, <2>1, ThrowKeeps DEF HttpRejects, IInv, Assembled, Codes
    <2> QED
      BY <2>2, <2>3, <2>4 DEF IInv
  <1> QED
    BY <1>1, <1>2, <1>3

\* Assembling the report keeps the invariant.
LEMMA AssembleKeeps == ASSUME IInv, Assemble PROVE IInv'
  <1> DEFINE r == [incomplete |-> supported = {}, grade |-> Grade(supported = {})]
  <1>1. r \in Reports
    BY GradeType
  <1>2. TypeOK'
    BY <1>1, SettleType DEF Assemble, IInv, TypeOK, Codes, Stages, env
  <1>3. Vetted' /\ Phased'
    BY DEF Assemble, IInv, Vetted, Phased, env
  <1>4. Assembled'
    <2>1. outcome' = "report" => report' = r
      BY DEF Assemble, IInv, Assembled, Settle
    <2> QED
      BY <2>1 DEF Assemble, Assembled, Grade, env
  <1> QED
    BY <1>2, <1>3, <1>4 DEF IInv

\* Running out of time keeps the invariant.
LEMMA DeadlineKeeps == ASSUME IInv, Deadline PROVE IInv'
  <1>1. NoReport \in Reports
    BY DEF NoReport, Reports
  <1>2. TypeOK'
    BY <1>1 DEF Deadline, Settle, Codes, IInv, TypeOK, env, body
  <1>3. Vetted' /\ Phased'
    BY DEF Deadline, IInv, Vetted, Phased, env, body
  <1>4. Assembled'
    BY DEF Deadline, Settle, Assembled
  <1> QED
    BY <1>2, <1>3, <1>4 DEF IInv

\* The target going silent keeps the invariant.
LEMMA SilenceKeeps == ASSUME IInv, GoesSilent PROVE IInv'
  BY DEF GoesSilent, IInv, TypeOK, Vetted, Phased, Assembled, Grade, env, body

(***************************************************************************)
(* The invariant holds in every state of every scan.                       *)
(***************************************************************************)
THEOREM Invariance == Spec => []IInv
  <1>1. IInv /\ [Next]_vars => IInv'
    <2> SUFFICES ASSUME IInv, [Next]_vars PROVE IInv'
      OBVIOUS
    <2>1. CASE Sequential
      BY <2>1, StartKeeps, ResolvedKeeps, HandshakeKeeps, ProtocolsKeep, AssembleKeeps
      DEF Sequential
    <2>2. CASE \/ \E v \in Versions : CiphersWalked(v)
               \/ \E w \in Works : WorkDone(w)
               \/ HttpRejects
      BY <2>2, WorksKeep
    <2>3. CASE Deadline \/ GoesSilent
      BY <2>3, DeadlineKeeps, SilenceKeeps
    <2>4. CASE UNCHANGED vars
      <3> USE <2>4 DEF vars, env, body, IInv
      <3>1. TypeOK'
        BY DEF TypeOK
      <3>2. Vetted' /\ Phased'
        BY DEF Vetted, Phased
      <3>3. Assembled'
        BY DEF Assembled, Grade
      <3> QED
        BY <3>1, <3>2, <3>3
    <2> QED
      BY <2>1, <2>2, <2>3, <2>4 DEF Next
  <1> QED
    BY <1>1, InitInv, PTL DEF Spec

(***************************************************************************)
(* Every variable of a scan keeps its type; what detectProtocols reports   *)
(* is spoken by the server and what is being walked was reported.          *)
(***************************************************************************)
THEOREM TypeCorrect == Spec => []TypeOK
  BY Invariance, PTL DEF IInv

(***************************************************************************)
(* No connection to a private address, by name or by literal, and no       *)
(* lookup of a private literal.                                            *)
(***************************************************************************)
THEOREM PrivateStaysUntouched == Spec => []PrivateUntouched
  <1>1. IInv => PrivateUntouched
    BY DEF IInv, Vetted, PrivateUntouched
  <1> QED
    BY <1>1, Invariance, PTL

(***************************************************************************)
(* A report is only ever given once nothing behind it is still running.    *)
(***************************************************************************)
THEOREM ReportsAreWhole == Spec => []ReportIsWhole
  <1>1. IInv => ReportIsWhole
    BY DEF IInv, Phased, Assembled, ReportIsWhole, Works
  <1> QED
    BY <1>1, Invariance, PTL

(***************************************************************************)
(* No letter is given when no protocol probe was answered.                 *)
(***************************************************************************)
THEOREM SilenceEarnsNoLetter == Spec => []NoLetterFromSilence
  <1>1. IInv => NoLetterFromSilence
    <2> SUFFICES ASSUME IInv, outcome = "report", supported = {}
                 PROVE  report.incomplete /\ report.grade # "letter"
      BY DEF NoLetterFromSilence
    <2>1. (supported = {}) = TRUE
      OBVIOUS
    <2>2. report = [incomplete |-> TRUE, grade |-> Grade(TRUE)]
      BY <2>1 DEF IInv, Assembled, Grade
    <2> QED
      BY <2>2, GradeType
  <1> QED
    BY <1>1, Invariance, PTL
=============================================================================
