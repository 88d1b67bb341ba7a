-------------------------- MODULE Sockets_proofs ---------------------------
(***************************************************************************)
(* Theorems about the operations with a connection of their own, for every *)
(* limit of redirects and of a body.                                       *)
(***************************************************************************)
EXTENDS Sockets, TLAPS

(***************************************************************************)
(* The inductive invariant: what has been heard in each phase. Nothing has *)
(* broken an operation that still runs, a ticket is only waited for after  *)
(* the handshake and while there is none, an SSL 2.0 answer stays open     *)
(* while it is short, and the pages of a trail before the current one      *)
(* answered.                                                               *)
(***************************************************************************)
HeardSoFar ==
  /\ answer = Pending => heard \cap Breaks = {}
  /\ phase = "ticket" => op \in Handshakes /\ "secure" \in heard /\ "ticket" \notin heard
  /\ op \in Handshakes /\ phase = "open" => "secure" \notin heard
  /\ op = "renegotiation" /\ answer = Pending => "renegotiated" \notin heard
  /\ op = "ssl2" /\ answer = Pending => got < 11
  /\ phase \in {"body", "joined"} => op = "http"
  /\ phase = "body" => heard \subseteq Statuses

Trail ==
  op = "http" =>
    /\ 1..(leg - 1) \subseteq loaded
    /\ phase \in {"open", "body"} => leg \notin loaded
    /\ phase = "joined" =>
         leg = 1 /\ \A s \in heard : s = "failed" \/ (s \in Statuses /\ 1 \in loaded)

IInv == TypeOK /\ HeardSoFar /\ Trail /\ VerdictsAreEarned /\ JudgedPageAnswered

USE SizesAssumption DEF Pending, Breaks

LEMMA InitHolds == Init => IInv
  BY DEF Init, IInv, TypeOK, HeardSoFar, Trail, VerdictsAreEarned, JudgedPageAnswered,
         Ops, Handshakes, Answers

\* A handshake that is done, with what was heard of it.
LEMMA InspectedKeeps ==
  ASSUME IInv, op \in Handshakes, phase \in {"open", "ticket"}, NoPage,
         NEW h, h \subseteq heard \cup {"secure", "ticket", "reused"}, "secure" \in h, Inspected(h)
  PROVE  IInv'
<1> USE DEF Ops, Handshakes, Answers
<1>1. TypeOK'
  BY DEF IInv, TypeOK, Inspected, Resolve, Open, NoPage
<1>2. HeardSoFar' /\ Trail'
  BY DEF IInv, TypeOK, HeardSoFar, Trail, Inspected, Resolve, Open, NoPage
<1>3. VerdictsAreEarned'
  <2>0. h \cap Breaks = {}
    BY DEF IInv, TypeOK, HeardSoFar
  <2>1. CASE op = "inspect"
    BY <2>1 DEF VerdictsAreEarned, Inspected, Resolve
  <2>2. CASE op = "resumption" /\ leg = 2
    <3>1. /\ answer' = (IF "reused" \in h THEN "true" ELSE "false")
          /\ op' = "resumption" /\ leg' = 2 /\ heard' = h
      BY <2>2 DEF Inspected, Resolve
    <3> QED
      BY <2>0, <3>1 DEF VerdictsAreEarned
  <2>3. CASE op = "resumption" /\ leg = 1
    <3>1. CASE "ticket" \in h
      <4>1. answer' = Pending
        BY <2>3, <3>1 DEF Inspected, Open, IInv, TypeOK
      <4> QED
        BY <4>1 DEF VerdictsAreEarned
    <3>2. CASE "ticket" \notin h
      <4>1. answer' = "false" /\ op' = "resumption" /\ leg' = 1 /\ heard' = h
        BY <2>3, <3>2 DEF Inspected, Resolve
      <4> QED
        BY <2>0, <3>2, <4>1 DEF VerdictsAreEarned
    <3> QED
      BY <3>1, <3>2
  <2> QED
    BY <2>1, <2>2, <2>3 DEF IInv, TypeOK
<1>4. JudgedPageAnswered'
  BY DEF IInv, TypeOK, JudgedPageAnswered, Inspected, Resolve, Open
<1> QED
  BY <1>1, <1>2, <1>3, <1>4 DEF IInv

\* A handshake that goes on: a ticket before it is done, or one waited for.
LEMMA HandshakeWaits ==
  ASSUME IInv, op \in Handshakes, phase \in {"open", "ticket"}, NoPage,
         NEW p \in {"open", "ticket"}, NEW h, h \subseteq heard \cup {"secure", "ticket", "reused"},
         p = "ticket" => "secure" \in h /\ "ticket" \notin h,
         p = "open" => "secure" \notin h, Waits(p, h)
  PROVE  IInv'
<1> USE DEF Ops, Handshakes, Answers
<1>1. TypeOK'
  BY DEF IInv, TypeOK, Waits, NoPage
<1>2. HeardSoFar' /\ Trail'
  BY DEF IInv, TypeOK, HeardSoFar, Trail, Waits, NoPage
<1>3. VerdictsAreEarned' /\ JudgedPageAnswered'
  BY DEF IInv, TypeOK, VerdictsAreEarned, JudgedPageAnswered, Waits, NoPage
<1> QED
  BY <1>1, <1>2, <1>3 DEF IInv

\* The steps of a handshake.
LEMMA HandshakeKeeps ==
  ASSUME IInv, Secured \/ Ticket \/ TicketWaitOver \/ InspectBreaks
  PROVE  IInv'
<1>1. CASE Secured
  <2>1. PICK tls13 \in BOOLEAN, reused \in {leg = 2, FALSE} :
          LET h == heard \cup {"secure"} \cup (IF reused THEN {"reused"} ELSE {})
              triggerTicket == op = "resumption" /\ leg = 1
          IN IF "ticket" \notin heard /\ (triggerTicket \/ tls13)
               THEN Waits("ticket", h) ELSE Inspected(h)
    BY <1>1 DEF Secured
  <2> DEFINE h == heard \cup {"secure"} \cup (IF reused THEN {"reused"} ELSE {})
  <2>2. h \subseteq heard \cup {"secure", "ticket", "reused"} /\ "secure" \in h
    OBVIOUS
  <2>3. \/ Waits("ticket", h) /\ "ticket" \notin h
        \/ Inspected(h)
    BY <2>1
  <2> HIDE DEF h
  <2> QED
    BY <1>1, <2>2, <2>3, InspectedKeeps, HandshakeWaits DEF Secured
<1>2. CASE Ticket
  <2>1. CASE phase = "open" /\ Waits("open", heard \cup {"ticket"})
    <3>1. "secure" \notin heard \cup {"ticket"}
      BY <1>2, <2>1 DEF Ticket, IInv, HeardSoFar
    <3> QED
      BY <1>2, <2>1, <3>1, HandshakeWaits DEF Ticket
  <2>2. CASE phase = "ticket" /\ Inspected(heard \cup {"ticket"})
    BY <1>2, <2>2, InspectedKeeps DEF Ticket, IInv, HeardSoFar
  <2> QED
    BY <1>2, <2>1, <2>2 DEF Ticket
<1>3. CASE TicketWaitOver
  BY <1>3, InspectedKeeps DEF TicketWaitOver, IInv, HeardSoFar
<1>4. CASE InspectBreaks
  BY <1>4 DEF InspectBreaks, InspectFailed, Resolve, NoPage, IInv, TypeOK, HeardSoFar, Trail,
              VerdictsAreEarned, JudgedPageAnswered, Handshakes, Answers
<1> QED
  BY <1>1, <1>2, <1>3, <1>4

\* checkRenegotiation and probeSsl2.
LEMMA VerdictStepKeeps ==
  ASSUME IInv,
         \/ RenegotiationSecured \/ Renegotiated \/ RenegotiationBreaks
         \/ Ssl2Data \/ Ssl2Breaks
  PROVE  IInv'
<1> USE DEF Ops, Handshakes, Answers, Ssl2Answers, NoPage, IInv
<1>1. CASE RenegotiationSecured
  <2>1. /\ op = "renegotiation" /\ op' = op /\ heard' = {"secure"}
        /\ \/ phase' = "renegotiating" /\ answer' = Pending
           \/ phase' = "closed" /\ answer' = "false"
        /\ UNCHANGED <<leg, got, plain, loaded, judged>>
    BY <1>1 DEF RenegotiationSecured, Resolve, Waits, TypeOK
  <2>2. TypeOK' /\ HeardSoFar' /\ Trail'
    BY <2>1 DEF TypeOK, HeardSoFar, Trail
  <2>3. VerdictsAreEarned' /\ JudgedPageAnswered'
    BY <2>1 DEF VerdictsAreEarned, JudgedPageAnswered
  <2> QED
    BY <2>2, <2>3
<1>2. CASE Renegotiated
  <2>1. /\ op = "renegotiation" /\ op' = op /\ phase' = "closed"
        /\ \/ heard' = heard \cup {"renegotiated"} /\ answer' = "true"
           \/ heard' = heard /\ answer' = "false"
        /\ heard \cap Breaks = {}
        /\ UNCHANGED <<leg, got, plain, loaded, judged>>
    BY <1>2 DEF Renegotiated, Resolve, TypeOK, HeardSoFar
  <2>2. TypeOK' /\ HeardSoFar' /\ Trail'
    BY <2>1 DEF TypeOK, HeardSoFar, Trail
  <2>3. VerdictsAreEarned' /\ JudgedPageAnswered'
    BY <2>1 DEF VerdictsAreEarned, JudgedPageAnswered
  <2> QED
    BY <2>2, <2>3
<1>3. CASE RenegotiationBreaks
  <2>1. /\ op = "renegotiation" /\ op' = op /\ phase' = "closed"
        /\ \/ heard' = heard \cup {"error"} /\ answer' = "false"
           \/ heard' = heard \cup {"timer"} /\ answer' = "null"
        /\ heard \cap Breaks = {}
        /\ UNCHANGED <<leg, got, plain, loaded, judged>>
    BY <1>3 DEF RenegotiationBreaks, Resolve, TypeOK, HeardSoFar
  <2>2. TypeOK' /\ HeardSoFar' /\ Trail'
    BY <2>1 DEF TypeOK, HeardSoFar, Trail
  <2>3. VerdictsAreEarned' /\ JudgedPageAnswered'
    BY <2>1 DEF VerdictsAreEarned, JudgedPageAnswered
  <2> QED
    BY <2>2, <2>3
<1>4. CASE Ssl2Data
  <2>1. PICK first \in (IF got > 0 THEN heard ELSE Ssl2Answers), n \in {1, 3, 11} :
          /\ got' = n /\ heard' = {first} /\ answer' = Ssl2Verdict(first, n)
          /\ phase' = IF answer' = Pending THEN "open" ELSE "closed"
    BY <1>4 DEF Ssl2Data
  <2>2. op = "ssl2" /\ phase = "open" /\ UNCHANGED <<op, leg, plain, loaded, judged>>
    BY <1>4 DEF Ssl2Data
  <2>3. /\ answer' \in {Pending, "true", "false"}
        /\ answer' = "true" => first = "ssl2-hello" /\ n = 11
        /\ answer' = "false" => first # "ssl2-hello" \/ n < 11
        /\ answer' = Pending => n < 11
    BY <2>1 DEF Ssl2Verdict
  <2>4. TypeOK'
    BY <2>1, <2>2, <2>3 DEF TypeOK
  <2>5. HeardSoFar' /\ Trail'
    BY <2>1, <2>2, <2>3 DEF HeardSoFar, Trail
  <2>6. VerdictsAreEarned' /\ JudgedPageAnswered'
    BY <2>1, <2>2, <2>3 DEF VerdictsAreEarned, JudgedPageAnswered
  <2> QED
    BY <2>4, <2>5, <2>6
<1>5. CASE Ssl2Breaks
  BY <1>5 DEF Ssl2Breaks, Resolve, TypeOK, HeardSoFar, Trail, VerdictsAreEarned, JudgedPageAnswered
<1> QED
  BY <1>1, <1>2, <1>3, <1>4, <1>5

-----------------------------------------------------------------------------
\* What follows a request: s is what it answered, loaded' the pages that did.
LEMMA FollowKeeps ==
  ASSUME IInv, op = "http", phase \in {"open", "body", "joined"},
         NEW s \in Statuses \cup {"failed"}, Follow(s),
         loaded' \in {loaded, loaded \cup {leg}},
         plain' \in {"skipped", "open", "ok", "failed"},
         s = "failed" => loaded' = loaded /\ (phase = "joined" => leg = 1),
         s # "failed" => leg \in loaded'
  PROVE  IInv'
<1> USE DEF Ops, Handshakes, Answers, Statuses, IInv
<1>1. /\ op' = "http"
      /\ \/ Open /\ s = "home" /\ leg <= MaxRedirects /\ judged' = judged
         \/ /\ phase' = "closed" /\ UNCHANGED <<leg, heard, got>>
            /\ \/ answer' \in {"unreachable", "rejected"} /\ judged' = judged
               \/ answer' = "reported" /\ judged' = 1 /\ s = "failed" /\ leg > 1
               \/ answer' = "reported" /\ judged' = leg /\ s # "failed"
  BY DEF Follow, Resolve, Open, Judge, TypeOK
<1>2. leg \in Nat /\ 1 <= leg /\ leg <= MaxRedirects + 1
  BY DEF TypeOK
<1>3. CASE Open /\ s = "home" /\ leg <= MaxRedirects /\ judged' = judged
  <2>1. TypeOK'
    BY <1>1, <1>2, <1>3 DEF Open, TypeOK
  <2>2. HeardSoFar' /\ VerdictsAreEarned' /\ JudgedPageAnswered'
    BY <1>1, <1>3 DEF Open, TypeOK, HeardSoFar, VerdictsAreEarned, JudgedPageAnswered
  <2>3. Trail'
    BY <1>1, <1>2, <1>3 DEF Open, TypeOK, Trail
  <2> QED
    BY <2>1, <2>2, <2>3
<1>4. CASE phase' = "closed" /\ UNCHANGED <<leg, heard, got>>
  <2>1. answer' \in {"unreachable", "rejected", "reported"}
    BY <1>1, <1>4 DEF Open
  <2>2. judged' \in 0..leg
    BY <1>1, <1>2, <1>4 DEF TypeOK, Open
  <2>3. TypeOK'
    BY <1>1, <1>2, <1>4, <2>1, <2>2 DEF TypeOK
  <2>4. HeardSoFar' /\ VerdictsAreEarned' /\ Trail'
    BY <1>1, <1>4, <2>1 DEF HeardSoFar, VerdictsAreEarned, Trail
  <2>5. JudgedPageAnswered'
    <3>1. CASE s = "failed"
      <4>1. leg > 1 => 1 \in loaded /\ leg \notin loaded
        BY <1>2, <3>1 DEF Trail
      <4> QED
        BY <1>1, <1>2, <1>4, <3>1, <4>1 DEF JudgedPageAnswered, Open
    <3>2. CASE s # "failed"
      BY <1>1, <1>2, <1>4, <3>2 DEF JudgedPageAnswered, Open
    <3> QED
      BY <3>1, <3>2
  <2> QED
    BY <2>3, <2>4, <2>5
<1> QED
  BY <1>1, <1>3, <1>4

\* The end of a request, while the one to port 80 may still be under way.
LEMMA RequestOverKeeps ==
  ASSUME IInv, op = "http", phase \in {"open", "body"}, plain' = plain,
         NEW s \in Statuses \cup {"failed"}, RequestOver(s),
         loaded' \in {loaded, loaded \cup {leg}},
         s = "failed" => loaded' = loaded,
         s # "failed" => leg \in loaded'
  PROVE  IInv'
<1>1. CASE leg = 1 /\ plain = "open"
  <2>1. Waits("joined", {s}) /\ UNCHANGED judged
    BY <1>1 DEF RequestOver
  <2>2. TypeOK'
    BY <1>1, <2>1 DEF Waits, IInv, TypeOK, Ops, Statuses, Answers
  <2>3. answer' = Pending /\ op' = "http" /\ phase' = "joined" /\ leg' = 1 /\ heard' = {s}
    BY <1>1, <2>1 DEF Waits, IInv, TypeOK
  <2>4. HeardSoFar' /\ VerdictsAreEarned' /\ JudgedPageAnswered'
    BY <2>3 DEF HeardSoFar, VerdictsAreEarned, JudgedPageAnswered
  <2>5. Trail'
    BY <1>1, <2>3 DEF Trail, Statuses
  <2> QED
    BY <2>2, <2>4, <2>5 DEF IInv
<1>2. CASE ~(leg = 1 /\ plain = "open")
  <2>1. Follow(s)
    BY <1>2 DEF RequestOver
  <2>2. plain' \in {"skipped", "open", "ok", "failed"}
    BY DEF IInv, TypeOK
  <2> QED
    BY <2>1, <2>2, FollowKeeps
<1> QED
  BY <1>1, <1>2

\* The steps of probeHttp.
LEMMA HttpKeeps ==
  ASSUME IInv, Headers \/ Body \/ BodyOver \/ RequestFails \/ PlainOver
  PROVE  IInv'
<1>1. CASE Headers
  BY <1>1 DEF Headers, Waits, NoPage, IInv, TypeOK, HeardSoFar, Trail, VerdictsAreEarned,
              JudgedPageAnswered, Ops, Statuses, Answers
<1>2. CASE Body
  <2>1. got' \in Nat
    BY <1>2 DEF Body, IInv, TypeOK
  <2> QED
    BY <1>2, <2>1 DEF Body, NoPage, IInv, TypeOK, HeardSoFar, Trail, VerdictsAreEarned,
                      JudgedPageAnswered, Ops, Statuses, Answers
<1>3. CASE BodyOver
  <2>1. PICK s \in heard : RequestOver(s)
    BY <1>3 DEF BodyOver
  <2>2. s \in Statuses /\ s # "failed"
    BY <1>3 DEF BodyOver, IInv, HeardSoFar, Statuses
  <2> QED
    BY <1>3, <2>1, <2>2, RequestOverKeeps DEF BodyOver
<1>4. CASE RequestFails
  BY <1>4, RequestOverKeeps DEF RequestFails
<1>5. CASE PlainOver
  <2>1. plain' \in {"skipped", "open", "ok", "failed"} /\ loaded' = loaded
    BY <1>5 DEF PlainOver
  <2>2. CASE phase = "joined"
    <3>1. PICK s \in heard : Follow(s)
      BY <1>5, <2>2 DEF PlainOver
    <3>2. op = "http" /\ leg = 1 /\ (s = "failed" \/ (s \in Statuses /\ 1 \in loaded))
      BY <2>2 DEF IInv, HeardSoFar, Trail
    <3>3. "failed" \notin Statuses
      BY DEF Statuses
    <3> QED
      BY <2>1, <2>2, <3>1, <3>2, <3>3, FollowKeeps
  <2>3. CASE phase # "joined"
    BY <1>5, <2>1, <2>3 DEF PlainOver, IInv, TypeOK, HeardSoFar, Trail, VerdictsAreEarned,
                            JudgedPageAnswered
  <2> QED
    BY <2>2, <2>3
<1> QED
  BY <1>1, <1>2, <1>3, <1>4, <1>5

LEMMA StepKeeps == IInv /\ [Next]_vars => IInv'
<1> SUFFICES ASSUME IInv, [Next]_vars PROVE IInv'
  OBVIOUS
<1>1. CASE UNCHANGED vars
  <2>1. TypeOK' /\ HeardSoFar' /\ Trail'
    BY <1>1 DEF vars, IInv, TypeOK, HeardSoFar, Trail
  <2>2. VerdictsAreEarned' /\ JudgedPageAnswered'
    BY <1>1, Zenon DEF vars, IInv, VerdictsAreEarned, JudgedPageAnswered
  <2> QED
    BY <2>1, <2>2 DEF IInv
<1> QED
  BY <1>1, HandshakeKeeps, VerdictStepKeeps, HttpKeeps DEF Next

LEMMA Invariance == Spec => []IInv
  BY InitHolds, StepKeeps, PTL DEF Spec

-----------------------------------------------------------------------------
(***************************************************************************)
(* The type invariant: a promise is resolved exactly when its last socket  *)
(* is gone, and a trail never has more than MAX_REDIRECTS requests after   *)
(* the first (http-probe.js:122-149).                                      *)
(***************************************************************************)
THEOREM TypeCorrect == Spec => []TypeOK
<1>1. IInv => TypeOK
  BY DEF IInv
<1> QED
  BY <1>1, Invariance, PTL

(***************************************************************************)
(* Whenever timers fire and connections break (node-tls.js:129-183,        *)
(* tls-probe.js:569-617): yes takes the server's own answer, no to         *)
(* resumption a handshake that was not broken off, no to renegotiation is  *)
(* never the timer's, and a handshake that succeeded is only forgotten     *)
(* while its ticket is not there. A broken socket counts as no to          *)
(* renegotiation and SSL 2.0, which this theorem allows.                   *)
(***************************************************************************)
THEOREM EarnedVerdicts == Spec => []VerdictsAreEarned
<1>1. IInv => VerdictsAreEarned
  BY DEF IInv
<1> QED
  BY <1>1, Invariance, PTL

(***************************************************************************)
(* For any number of redirects, the headers judged are those of a page     *)
(* that answered: the last of the trail, or the first (http-probe.js:151). *)
(***************************************************************************)
THEOREM JudgedPagesAnswered == Spec => []JudgedPageAnswered
<1>1. IInv => JudgedPageAnswered
  BY DEF IInv
<1> QED
  BY <1>1, Invariance, PTL
=============================================================================
