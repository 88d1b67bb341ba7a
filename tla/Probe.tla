-------------------------------- MODULE Probe --------------------------------
(***************************************************************************)
(* One call of probe() in server/tls-probe.js: a ClientHello is sent, and  *)
(* what comes back is read until the server's first flight is over. The    *)
(* stream is cut twice, into records by the server and into segments by    *)
(* the network, and neither cut respects the handshake messages.           *)
(*                                                                         *)
(* The flight is a list of events, a handshake message or a record of      *)
(* another type, each two cells long; TCP delivers cells. An event handler *)
(* of the socket runs to its end, so while pump has something to read      *)
(* nothing else happens. What never holds more than one record and one     *)
(* segment cannot exceed MAX_RESPONSE: that check is left out.             *)
(***************************************************************************)
EXTENDS Naturals, Sequences

CONSTANT MaxEvents   \* bound: how long a flight is

ASSUME ProbeAssumption == MaxEvents \in Nat

\* hello12 stands for every version that goes on after its ServerHello,
\* hello13 for TLS 1.3 and a HelloRetryRequest; certificate, for what is only
\* noted; skipped, for a ChangeCipherSpec and a warning.
Messages == {"hello12", "hello13", "badHello", "certificate", "keyExchange", "done"}
Records == {"skipped", "fatal", "shortAlert", "alien", "oversize"}
Hellos == {"hello12", "hello13"}

VARIABLES
  collect,   \* "hello" stops at the ServerHello, "full" at ServerHelloDone
  flight,    \* what the server would send
  cuts,      \* the cells that end a record
  arrived,   \* cells delivered
  read,      \* events read of them
  socket,    \* "waiting" for its turn, "connecting", "open", "half" or "gone"
  settled,
  ok, chain, alert, error   \* result

server == <<collect, flight, cuts>>
result == <<ok, chain, alert, error>>
vars   == <<server, arrived, read, socket, settled, result>>

Flights == UNION {[1..n -> Messages \cup Records] : n \in 0..MaxEvents}

\* A record that is not of the handshake is a record of its own; of an
\* oversize one the header is enough.
LastCell(i) == IF flight[i] = "oversize" THEN 2 * i - 1 ELSE 2 * i
LegalCuts ==
  {c \in SUBSET (1..2 * Len(flight)) :
     \A i \in 1..Len(flight) :
       /\ i = Len(flight) \/ flight[i] \in Records => 2 * i \in c
       /\ i > 1 /\ flight[i] \in Records => 2 * i - 2 \in c
       /\ flight[i] \in Records => (2 * i - 1 \in c <=> flight[i] = "oversize")}

Init ==
  /\ collect \in {"hello", "full"}
  /\ flight \in Flights
  /\ cuts \in LegalCuts
  /\ arrived = 0 /\ read = 0
  /\ socket = "waiting" /\ settled = FALSE
  /\ ok = FALSE /\ chain = FALSE /\ alert = FALSE /\ error = "none"

-----------------------------------------------------------------------------
\* Mutant: the listeners stay on the socket.
FinishListening(reason) ==
  /\ settled' = TRUE
  /\ error' = IF reason # "none" /\ ~ok' /\ ~alert' THEN reason ELSE error
  /\ UNCHANGED socket

\* Mutant: the last thing that went wrong is the result.
FinishFailing(reason) ==
  /\ settled' = TRUE
  /\ socket' = "gone"
  /\ error' = IF reason # "none" THEN reason ELSE error

\* The first end counts: the listeners are removed and the socket destroyed.
Finish(reason) ==
  /\ settled' = TRUE
  /\ socket' = "gone"
  /\ error' = IF reason # "none" /\ ~ok' /\ ~alert' THEN reason ELSE error

\* Mutant: what a record leaves of a message is dropped with the record.
CompleteInRecord(i) ==
  /\ \E c \in cuts : LastCell(i) <= c /\ c <= arrived
  /\ flight[i] \in Messages => 2 * i - 1 \notin cuts

\* Bytes of an event count once the record that ends it is complete.
Complete(i) == \E c \in cuts : LastCell(i) <= c /\ c <= arrived

Pumping == socket # "gone" /\ read < Len(flight) /\ Complete(read + 1)

-----------------------------------------------------------------------------
(* pump and readMessages, one event at a time.                             *)

Take(kinds) ==
  /\ Pumping
  /\ flight[read + 1] \in kinds
  /\ read' = read + 1
  /\ UNCHANGED <<server, arrived>>

ReadHello ==
  /\ Take(Hellos)
  /\ ok' = TRUE
  /\ UNCHANGED <<chain, alert>>
  /\ IF flight[read + 1] = "hello13" \/ collect = "hello"
     THEN Finish("none")
     ELSE UNCHANGED <<socket, settled, error>>

ReadNoted ==
  /\ Take({"certificate", "skipped"})
  /\ chain' = (chain \/ flight[read + 1] = "certificate")
  /\ UNCHANGED <<socket, settled, ok, alert, error>>

\* Without a ServerHello there is no suite to read the parameters by.
ReadKeyExchange ==
  /\ Take({"keyExchange"})
  /\ UNCHANGED <<ok, chain, alert>>
  /\ IF ok THEN UNCHANGED <<socket, settled, error>> ELSE Finish("parse")

ReadDone ==
  /\ Take({"done"})
  /\ UNCHANGED <<ok, chain, alert>>
  /\ Finish("none")

ReadAlert ==
  /\ Take({"fatal", "shortAlert"})
  /\ alert' = (alert \/ flight[read + 1] = "fatal")
  /\ UNCHANGED <<ok, chain>>
  /\ Finish("none")

ReadOversize ==
  /\ Take({"oversize"})
  /\ UNCHANGED <<ok, chain, alert>>
  /\ Finish("bad-record-length")

\* These set the error themselves, whatever was heard before.
ReadNonsense ==
  /\ Take({"badHello", "alien"})
  /\ error' = IF flight[read + 1] = "alien" THEN "not-tls" ELSE "bad-server-hello"
  /\ settled' = TRUE /\ socket' = "gone"
  /\ UNCHANGED <<ok, chain, alert>>

-----------------------------------------------------------------------------
(* The events of the socket and the timer.                                 *)

Idle(states) == ~Pumping /\ socket \in states /\ UNCHANGED <<server, read>>
SameResult == UNCHANGED <<ok, chain, alert>>

TurnComes ==
  /\ Idle({"waiting"})
  /\ socket' = "connecting"
  /\ UNCHANGED <<arrived, settled, result>>

Connected ==
  /\ Idle({"connecting"})
  /\ SameResult /\ UNCHANGED arrived
  /\ \/ socket' = "open" /\ UNCHANGED <<settled, error>>
     \/ Finish("hello-build")

Data(n) ==
  /\ Idle({"open"})
  /\ arrived < n /\ n <= 2 * Len(flight)
  /\ arrived' = n
  /\ UNCHANGED <<socket, settled, result>>

\* The other side is done: the flight may be cut short. Node closes the rest.
Ended ==
  /\ Idle({"open"})
  /\ SameResult /\ UNCHANGED arrived
  /\ IF ok THEN socket' = "half" /\ UNCHANGED <<settled, error>>
           ELSE Finish("connection-closed-early")

Closed ==
  /\ Idle({"half"})
  /\ SameResult /\ UNCHANGED arrived
  /\ Finish("closed")

Errored ==
  /\ Idle({"connecting", "open", "half"})
  /\ SameResult /\ UNCHANGED arrived
  /\ Finish("reset")

\* Mutant: the clock starts with the connection.
TimedOutOpen ==
  /\ Idle({"open", "half"})
  /\ SameResult /\ UNCHANGED arrived
  /\ Finish("timeout")

TimedOut ==
  /\ Idle({"connecting", "open", "half"})
  /\ SameResult /\ UNCHANGED arrived
  /\ Finish("timeout")

-----------------------------------------------------------------------------
Pump == \/ ReadHello \/ ReadNoted \/ ReadKeyExchange \/ ReadDone
        \/ ReadAlert \/ ReadOversize \/ ReadNonsense

Next ==
  \/ Pump
  \/ TurnComes \/ Connected \/ Ended \/ Closed \/ Errored \/ TimedOut
  \/ \E n \in 1..2 * Len(flight) : Data(n)

Spec == Init /\ [][Next]_vars

\* pace gives every probe its turn, the timer fires, a handler returns.
\* The server need not answer.
FairSpec == Spec /\ WF_vars(TurnComes) /\ WF_vars(TimedOut) /\ WF_vars(Pump)

-----------------------------------------------------------------------------
Reasons == {"none", "hello-build", "timeout", "reset", "closed",
            "connection-closed-early", "parse", "bad-record-length",
            "bad-server-hello", "not-tls"}

TypeOK ==
  /\ collect \in {"hello", "full"}
  /\ flight \in Flights
  /\ cuts \in LegalCuts
  /\ arrived \in 0..2 * Len(flight)
  /\ read \in 0..Len(flight)
  /\ socket \in {"waiting", "connecting", "open", "half", "gone"}
  /\ settled = (socket = "gone")
  /\ {ok, chain, alert} \subseteq BOOLEAN
  /\ error \in Reasons

EndsFlight(i) ==
  \/ flight[i] \notin {"hello12", "certificate", "keyExchange", "skipped"}
  \/ flight[i] = "hello12" /\ collect = "hello"
  \/ flight[i] = "keyExchange" /\ \A j \in 1..i : flight[j] \notin Hellos

Heard(kinds) == \E i \in 1..read : flight[i] \in kinds

ResultIsHeard ==
  /\ ok <=> Heard(Hellos)
  /\ chain <=> Heard({"certificate"})
  /\ alert <=> Heard({"fatal"})
  /\ \A i \in 1..read : EndsFlight(i) => settled /\ i = read

AllRead ==
  settled \/ Pumping \/
    \A i \in 1..Len(flight), c \in cuts : 2 * i <= c /\ c <= arrived => i <= read

(***************************************************************************)
(* The result is that of the flight, however it was cut: nothing after the *)
(* event that ends it was looked at, nothing before it was missed, and     *)
(* between two handlers all that arrived in whole records has been read.   *)
(***************************************************************************)
ReadsAsWhole == ResultIsHeard /\ AllRead

(***************************************************************************)
(* A server that was heard is not reported as unreachable because of how   *)
(* the connection ended after that.                                        *)
(***************************************************************************)
HeardIsHeard == ok => error \in {"none", "not-tls", "bad-server-hello"}

(***************************************************************************)
(* The caller has the result in its hands: whatever the socket or the      *)
(* timer still delivers, it does not change any more.                      *)
(***************************************************************************)
AnswerIsFinal == [][settled => UNCHANGED <<settled, result>>]_vars

\* The promise is always settled, even by a server that says nothing.
Settles == <>settled
=============================================================================
