------------------------------ MODULE Sockets ------------------------------
(***************************************************************************)
(* The operations that hold a real connection of their own:                *)
(*   inspect        tlsInspect of server/node-tls.js                       *)
(*   resumption     checkResumption, two handshakes one after the other    *)
(*   renegotiation  checkRenegotiation                                     *)
(*   ssl2           probeSsl2 of server/tls-probe.js                       *)
(*   http           probeHttp of server/http-probe.js, a request per hop   *)
(* Each is a promise over one socket at a time: whatever event comes first *)
(* decides, and then the socket is destroyed. They share nothing but the   *)
(* target, so a behaviour is one of them; what the server does, and when a *)
(* connection breaks or a timer fires, is open.                            *)
(***************************************************************************)
EXTENDS Naturals

CONSTANTS MaxRedirects,  \* MAX_REDIRECTS
          MaxBody        \* MAX_BODY, in chunks

ASSUME SizesAssumption == MaxRedirects \in Nat /\ MaxBody \in Nat

Handshakes == {"inspect", "resumption"}
Ops        == Handshakes \cup {"renegotiation", "ssl2", "http"}

\* A response: no redirect, one without a usable Location, one to the host
\* itself, one to another host, one whose Location is no URL.
Statuses == {"page", "nowhere", "home", "away", "bad"}

\* What the first bytes of an answer to an SSL 2.0 hello say.
Ssl2Answers == {"tls", "short", "ssl2-other", "ssl2-hello"}

\* What ends a socket in place of the server's answer.
Breaks == {"error", "timer", "closed"}

Pending == "pending"
Answers == {Pending, "ok", "failed", "true", "false", "null",
            "unreachable", "rejected", "reported"}

VARIABLES
  op,      \* the operation
  leg,     \* how many sockets it has opened; page leg of the trail, for http
  phase,   \* of the current socket
  heard,   \* what the server has said on the current socket, or what broke it
  got,     \* how much of an answer is in: bytes of SSL 2.0, chunks of a body
  plain,   \* the request to port 80 beside the first page
  loaded,  \* ghost: the pages of the trail that answered
  judged,  \* the page whose headers go into the report
  answer   \* what the promise resolved to
vars == <<op, leg, phase, heard, got, plain, loaded, judged, answer>>

Init ==
  /\ op \in Ops
  /\ leg = 1 /\ phase = "open" /\ heard = {} /\ got = 0
  /\ plain \in IF op = "http" THEN {"skipped", "open"} ELSE {"skipped"}
  /\ loaded = {} /\ judged = 0 /\ answer = Pending
-----------------------------------------------------------------------------
\* finish, done: the first to come resolves and the socket is destroyed.
Resolve(a, h) ==
  /\ answer' = a /\ phase' = "closed" /\ heard' = h
  /\ UNCHANGED <<op, leg, got>>

Open ==
  /\ leg' = leg + 1 /\ phase' = "open" /\ heard' = {} /\ got' = 0
  /\ UNCHANGED <<op, answer>>

Waits(p, h) == phase' = p /\ heard' = h /\ UNCHANGED <<op, leg, got, answer>>

NoPage == UNCHANGED <<plain, loaded, judged>>
-----------------------------------------------------------------------------
\* tlsInspect, and what checkResumption makes of its two results.
Inspected(h) ==
  IF op = "inspect" THEN Resolve("ok", h)
  ELSE IF leg = 2   THEN Resolve(IF "reused" \in h THEN "true" ELSE "false", h)
  ELSE IF "ticket" \in h THEN Open ELSE Resolve("false", h)

\* Mutant: a handshake that failed is one that gave no session.
InspectFailedPlain(why) ==
  Resolve(IF op = "inspect" THEN "failed" ELSE "false", heard \cup {why})

InspectFailed(why) ==
  Resolve(IF op = "inspect" THEN "failed" ELSE "null", heard \cup {why})

\* Only the first handshake of checkResumption asks for a page to draw a
\* ticket out; any handshake at TLS 1.3 waits a moment for one.
Secured ==
  /\ op \in Handshakes /\ phase = "open"
  /\ \E tls13 \in BOOLEAN, reused \in {leg = 2, FALSE} :
       LET h == heard \cup {"secure"} \cup (IF reused THEN {"reused"} ELSE {})
           triggerTicket == op = "resumption" /\ leg = 1
       IN IF "ticket" \notin heard /\ (triggerTicket \/ tls13)
            THEN Waits("ticket", h) ELSE Inspected(h)
  /\ NoPage

Ticket ==
  /\ op \in Handshakes
  /\ \/ phase = "open" /\ "ticket" \notin heard /\ Waits("open", heard \cup {"ticket"})
     \/ phase = "ticket" /\ Inspected(heard \cup {"ticket"})
  /\ NoPage

TicketWaitOver ==
  op \in Handshakes /\ phase = "ticket" /\ Inspected(heard) /\ NoPage

\* The timer or an error, also while a ticket is waited for: the handshake is
\* then reported as failed although it had succeeded.
InspectBreaks ==
  /\ op \in Handshakes /\ phase \in {"open", "ticket"}
  /\ InspectFailed("timer") \/ InspectFailed("error")
  /\ NoPage
-----------------------------------------------------------------------------
\* checkRenegotiation. Its maxVersion keeps TLS 1.3 out of the handshake.
RenegotiationSecured ==
  /\ op = "renegotiation" /\ phase = "open"
  /\ \/ Waits("renegotiating", {"secure"})
     \/ Resolve("false", {"secure"})      \* threw, or refused locally
  /\ NoPage

Renegotiated ==
  /\ op = "renegotiation" /\ phase = "renegotiating"
  /\ \/ Resolve("true", heard \cup {"renegotiated"})
     \/ Resolve("false", heard)
  /\ NoPage

RenegotiationBreaks ==
  /\ op = "renegotiation" /\ phase \in {"open", "renegotiating"}
  /\ \/ Resolve("false", heard \cup {"error"})
     \/ Resolve("null", heard \cup {"timer"})
  /\ NoPage
-----------------------------------------------------------------------------
\* probeSsl2: 3 bytes tell SSL 2.0 from TLS, 11 tell its message.
Ssl2Verdict(first, n) ==
  IF n < 3 THEN Pending
  ELSE IF first \in {"tls", "short"} THEN "false"
  ELSE IF n < 11 THEN Pending ELSE IF first = "ssl2-hello" THEN "true" ELSE "false"

Ssl2Data ==
  /\ op = "ssl2" /\ phase = "open"
  /\ \E first \in (IF got > 0 THEN heard ELSE Ssl2Answers), n \in {1, 3, 11} :
       /\ n > got
       /\ got' = n /\ heard' = {first}
       /\ answer' = Ssl2Verdict(first, n)
       /\ phase' = IF answer' = Pending THEN "open" ELSE "closed"
  /\ UNCHANGED <<op, leg>> /\ NoPage

\* An error, a close and the timer all say unsupported.
Ssl2Breaks ==
  /\ op = "ssl2" /\ phase = "open"
  /\ \E why \in Breaks : Resolve("false", heard \cup {why})
  /\ NoPage
-----------------------------------------------------------------------------
\* probeHttp, when the current request is over: s is what it answered.
Judge(page) == Resolve("reported", heard) /\ judged' = page

\* Mutant: the headers of the last response, whether there is one or not.
FollowBlindly(s) ==
  CASE s = "failed" /\ leg = 1 -> Resolve("unreachable", heard) /\ UNCHANGED judged
    [] s = "bad" /\ leg <= MaxRedirects -> Resolve("rejected", heard) /\ UNCHANGED judged
    [] s = "home" /\ leg <= MaxRedirects -> Open /\ UNCHANGED judged
    [] OTHER -> Judge(leg)

Follow(s) ==
  CASE s = "failed" /\ leg = 1 -> Resolve("unreachable", heard) /\ UNCHANGED judged
    [] s = "failed" /\ leg > 1 -> Judge(1)
    [] s = "bad" /\ leg <= MaxRedirects -> Resolve("rejected", heard) /\ UNCHANGED judged
    [] s = "home" /\ leg <= MaxRedirects -> Open /\ UNCHANGED judged
    [] OTHER -> Judge(leg)

\* The first page and the one on port 80 are awaited together.
RequestOver(s) ==
  IF leg = 1 /\ plain = "open" THEN Waits("joined", {s}) /\ UNCHANGED judged ELSE Follow(s)

Headers ==
  /\ op = "http" /\ phase = "open"
  /\ \E s \in Statuses : Waits("body", {s})
  /\ NoPage

\* Mutant: a body is read to its end, however long.
BodyWhole ==
  /\ op = "http" /\ phase = "body"
  /\ got' = (got + 1) % (MaxBody + 2)
  /\ UNCHANGED <<op, leg, phase, heard, answer>> /\ NoPage

Body ==
  /\ op = "http" /\ phase = "body" /\ got <= MaxBody
  /\ got' = got + 1
  /\ UNCHANGED <<op, leg, phase, heard, answer>> /\ NoPage

\* The response ended, was reset, or was destroyed past MAX_BODY.
BodyOver ==
  /\ op = "http" /\ phase = "body"
  /\ loaded' = loaded \cup {leg}
  /\ \E s \in heard : RequestOver(s)
  /\ UNCHANGED plain

\* An error before the headers, or an idle timeout before the body is over.
RequestFails ==
  /\ op = "http"
  /\ phase = "open" \/ (phase = "body" /\ got <= MaxBody)
  /\ RequestOver("failed")
  /\ UNCHANGED <<plain, loaded>>

PlainOver ==
  /\ plain = "open" /\ plain' \in {"ok", "failed"}
  /\ IF phase = "joined" THEN \E s \in heard : Follow(s)
     ELSE UNCHANGED <<op, leg, phase, heard, got, judged, answer>>
  /\ UNCHANGED loaded
-----------------------------------------------------------------------------
Next ==
  \/ Secured \/ Ticket \/ TicketWaitOver \/ InspectBreaks
  \/ RenegotiationSecured \/ Renegotiated \/ RenegotiationBreaks
  \/ Ssl2Data \/ Ssl2Breaks
  \/ Headers \/ Body \/ BodyOver \/ RequestFails \/ PlainOver

Spec == Init /\ [][Next]_vars

\* Every socket has a timer, so that something always happens next: an event
\* of the server, or the timer.
FairSpec == Spec /\ WF_vars(Next)
-----------------------------------------------------------------------------
\* The type invariant; a promise is resolved exactly when its last socket is
\* gone, and a trail has at most MAX_REDIRECTS requests after the first.
TypeOK ==
  /\ op \in Ops /\ answer \in Answers
  /\ phase \in {"open", "ticket", "renegotiating", "body", "joined", "closed"}
  /\ (phase = "closed") <=> (answer # Pending)
  /\ leg \in 1..(IF op = "http" THEN MaxRedirects + 1 ELSE IF op = "resumption" THEN 2 ELSE 1)
  /\ heard \subseteq Statuses \cup Ssl2Answers \cup Breaks
                     \cup {"secure", "ticket", "reused", "renegotiated", "failed"}
  /\ got \in Nat /\ loaded \subseteq 1..leg /\ judged \in 0..leg
  /\ plain \in {"skipped", "open", "ok", "failed"}

\* What a verdict rests on, whenever the timer or an error comes in between.
\* Yes takes the session accepted, the renegotiation done or the SSL 2.0 hello
\* whole. No to resumption takes a handshake that succeeded and was not broken
\* off, and no ticket in it, or its ticket refused: a timer or an error in
\* either handshake leaves it open (node-tls.js:131-135). A handshake that had
\* succeeded is forgotten only while the ticket it waits for is not there
\* (node-tls.js:98). No to renegotiation never comes from the timer, and only
\* the timer leaves it open (node-tls.js:167-169). An error on that socket, and
\* whatever ends the SSL 2.0 probe, does count as no (tls-probe.js:593-596):
\* see VerdictsAreVolunteered.
VerdictsAreEarned ==
  /\ answer = "true" => CASE op = "resumption"    -> leg = 2 /\ "reused" \in heard
                          [] op = "renegotiation" -> "renegotiated" \in heard
                          [] op = "ssl2"          -> "ssl2-hello" \in heard /\ got >= 11
  /\ op = "resumption" /\ answer = "false" =>
       /\ "secure" \in heard /\ heard \cap Breaks = {}
       /\ (IF leg = 1 THEN "ticket" ELSE "reused") \notin heard
  /\ op \in Handshakes /\ answer \in {"failed", "null"} =>
       /\ heard \cap Breaks # {}
       /\ "secure" \in heard => "ticket" \notin heard
  /\ op = "renegotiation" /\ answer # Pending => (answer = "null") = ("timer" \in heard)

\* What vulns.js:4 says: a verdict, no as well as yes, comes from what the
\* server volunteered. A SSL 2.0 probe that meets only silence is a no
\* (tls-probe.js:593), from which DROWN is safe (vulns.js:32), and a connection
\* refused is a no to renegotiation (node-tls.js:169, vulns.js:108).
VerdictsAreVolunteered ==
  answer \in {"true", "false"} => heard \ Breaks # {}

\* The headers that are judged are those of a page that answered: the last of
\* the trail, or the first when the last did not (http-probe.js:151).
JudgedPageAnswered ==
  answer = "reported" =>
    /\ judged \in loaded
    /\ judged = leg \/ (judged = 1 /\ leg \notin loaded)

\* Every operation resolves, however slowly a page arrives: MAX_BODY ends what
\* the idle timeout of a request does not.
Settles == <>(answer # Pending)
=============================================================================
