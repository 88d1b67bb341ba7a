----------------------------- MODULE CipherWalk -----------------------------
(***************************************************************************)
(* The cipher walk of one protocol version, server/enumerate.js:           *)
(* enumerateCiphers offers a chunk of the suites, removes whatever came    *)
(* back and asks again; detectCipherOrder then offers what was found in    *)
(* two opposite orders to see who chooses. Each round is one connection,   *)
(* and any of them may be lost.                                            *)
(*                                                                         *)
(* The server is external: it prefers some suites, and takes the first it  *)
(* likes of its own list or of the client's; a stuck one answers with the  *)
(* same suite to everything.                                               *)
(***************************************************************************)
EXTENDS Integers, FiniteSets, SequencesExt

CONSTANTS
  NumSuites,   \* suitesForVersion: the suites are numbered in its order
  Chunk,       \* CHUNK
  MaxRounds,   \* MAX_ROUNDS
  MaxLost      \* bound: connections lost

ASSUME WalkAssumption ==
  /\ {NumSuites, MaxRounds} \subseteq Nat \ {0}
  /\ Chunk \in Nat \ {0, 1}
  /\ MaxLost \in Nat

Suites == 1..NumSuites
Alien == NumSuites + 1   \* a suite that is never offered
NoHello == 0             \* the probe ended without a ServerHello

VARIABLES
  server,      \* how it chooses and what it prefers
  at,          \* "walk", "order" or "done"
  chunk,       \* which chunk is being walked
  remaining,   \* what of it is still offered, in the order of the suites
  round,
  accepted,    \* the suites found, in the order they were
  connections,
  asked,       \* the probes of detectCipherOrder without an outcome
  answer,      \* their outcome
  order,       \* the verdict
  lost,        \* connections lost so far
  broken       \* history: the chunks whose walk lost one

walk   == <<chunk, remaining, round, accepted, connections, broken>>
choice == <<asked, answer, order>>
vars   == <<server, at, walk, choice, lost>>

Preferences == {p \in UNION {[1..n -> Suites] : n \in 0..NumSuites} : IsInjective(p)}

Servers ==
  [chooses : {"server", "client"}, prefers : Preferences]
  \cup [chooses : {"stuck"}, prefers : {<<s>> : s \in Suites \cup {Alien}}]

NumChunks == (NumSuites + Chunk - 1) \div Chunk
LastOf(i) == IF i * Chunk < NumSuites THEN i * Chunk ELSE NumSuites

ChunkAt(i) == ((i - 1) * Chunk + 1)..LastOf(i)

\* The first of a list, which may have gaps, that is among some others.
First(list, others) ==
  LET I == {i \in DOMAIN list : list[i] \in ToSet(others)}
  IN IF I = {} THEN NoHello ELSE list[CHOOSE i \in I : \A j \in I : i <= j]

\* What the server picks of an offer.
Picks(offer) ==
  CASE server.chooses = "server" -> First(server.prefers, offer)
    [] server.chooses = "client" -> First(offer, server.prefers)
    [] OTHER -> server.prefers[1]

\* Each probe is answered, or lost.
Outcome(offer, got) ==
  \/ got = Picks(offer) /\ UNCHANGED lost
  \/ got = NoHello /\ lost < MaxLost /\ lost' = lost + 1

Init ==
  /\ server \in Servers
  /\ at = "walk"
  /\ chunk = 1 /\ remaining = ChunkAt(1) /\ round = 0
  /\ accepted = <<>> /\ connections = 0
  /\ asked = {} /\ answer = [forward |-> NoHello, backward |-> NoHello]
  /\ order = "none"
  /\ lost = 0 /\ broken = {}

-----------------------------------------------------------------------------
Seen(s) == Contains(accepted, s)

\* Mutant: the newest suite goes first.
RecordFirst(s) == accepted' = IF Seen(s) THEN accepted ELSE Cons(s, accepted)

Record(s) == accepted' = IF Seen(s) THEN accepted ELSE Append(accepted, s)

\* What follows the last chunk: the order of what was found.
LeaveWalk ==
  IF Len(accepted') < 2
  THEN at' = "done" /\ order' = "unknown" /\ UNCHANGED asked
  ELSE at' = "order" /\ asked' = {"forward", "backward"} /\ UNCHANGED order

\* Mutant: a break leaves the walk and not only the chunk.
NextChunkNever ==
  /\ LeaveWalk
  /\ UNCHANGED <<chunk, remaining, round>>

NextChunk ==
  IF chunk < NumChunks
  THEN /\ chunk' = chunk + 1
       /\ remaining' = ChunkAt(chunk + 1)
       /\ round' = 0
       /\ UNCHANGED <<at, asked, order>>
  ELSE LeaveWalk /\ UNCHANGED <<chunk, remaining, round>>

Walking(got) ==
  /\ at = "walk"
  /\ Outcome([s \in remaining |-> s], got)    \* each suite in its place
  /\ connections' = connections + 1
  /\ broken' = IF lost' = lost THEN broken ELSE broken \cup {chunk}
  /\ UNCHANGED <<server, answer>>

NothingPicked ==
  /\ Walking(NoHello)
  /\ UNCHANGED accepted
  /\ NextChunk

\* Mutant: what was not offered is recorded every time.
UnofferedAgain(s) ==
  /\ Walking(s)
  /\ s \notin remaining
  /\ accepted' = Append(accepted, s)
  /\ NextChunk

Unoffered(s) ==
  /\ Walking(s)
  /\ s \notin remaining
  /\ Record(s)
  /\ NextChunk

Picked(s) ==
  /\ Walking(s)
  /\ s \in remaining
  /\ Record(s)
  /\ LET left == remaining \ {s}
     IN IF round + 1 < MaxRounds /\ left # {}
        THEN /\ round' = round + 1
             /\ remaining' = left
             /\ UNCHANGED <<at, chunk, asked, order>>
        ELSE NextChunk

-----------------------------------------------------------------------------
(* detectCipherOrder: both probes are out at once.                         *)

Offer(way) ==
  LET forward == SubSeq(accepted, 1, IF Len(accepted) < Chunk THEN Len(accepted) ELSE Chunk)
  IN IF way = "forward" THEN forward ELSE Reverse(forward)

OrderAnswered(way, got) ==
  /\ way \in asked
  /\ Outcome(Offer(way), got)
  /\ asked' = asked \ {way}
  /\ answer' = [answer EXCEPT ![way] = got]
  /\ UNCHANGED <<server, at, walk, order>>

\* Mutant: an absent answer is compared like any other.
VerdictOfSilence(a, b) ==
  IF a = b THEN "server"
  ELSE IF a = Offer("forward")[1] /\ b = Offer("backward")[1] THEN "client" ELSE "unknown"

Verdict(a, b) ==
  IF a = NoHello \/ b = NoHello THEN "unknown"
  ELSE IF a = b THEN "server"
  ELSE IF a = Offer("forward")[1] /\ b = Offer("backward")[1] THEN "client" ELSE "unknown"

OrderDecided ==
  /\ at = "order" /\ asked = {}
  /\ at' = "done"
  /\ order' = Verdict(answer["forward"], answer["backward"])
  /\ UNCHANGED <<server, walk, asked, answer, lost>>

-----------------------------------------------------------------------------
Next ==
  \/ NothingPicked
  \/ \E s \in Suites \cup {Alien} : Unoffered(s) \/ Picked(s)
  \/ \E way \in asked, got \in {NoHello, Alien} \cup Suites : OrderAnswered(way, got)
  \/ OrderDecided

Spec == Init /\ [][Next]_vars

-----------------------------------------------------------------------------
Honest == server.chooses \in {"server", "client"}

\* The type invariant; no suite is listed twice, even by a server that
\* answers with the same one for ever.
TypeOK ==
  /\ server \in Servers
  /\ at \in {"walk", "order", "done"}
  /\ chunk \in 1..NumChunks
  /\ remaining \subseteq Suites
  /\ at = "walk" => remaining # {} /\ round \in 0..(MaxRounds - 1)
  /\ accepted \in Seq(Suites \cup {Alien}) /\ IsInjective(accepted)
  /\ connections \in Nat
  /\ asked \subseteq {"forward", "backward"}
  /\ answer \in [{"forward", "backward"} -> {NoHello, Alien} \cup Suites]
  /\ order \in {"none", "server", "client", "unknown"}
  /\ lost \in 0..MaxLost
  /\ broken \subseteq 1..NumChunks

(***************************************************************************)
(* The walk costs at most one connection per suite and MAX_ROUNDS per      *)
(* chunk, whatever the server does. Of an honest one it lists only what    *)
(* that server accepts, and of every chunk that lost no connection, all of *)
(* it or, if that is more, MAX_ROUNDS: however many connections other      *)
(* chunks lost, nothing is missing from this one (enumerate.js:97-118).    *)
(***************************************************************************)
Rounds(n) == IF n < MaxRounds THEN n ELSE MaxRounds
Size(i) == LastOf(i) - (i - 1) * Chunk
Held(list, i) == ToSet(list) \cap ChunkAt(i)
WalkIsComplete ==
  /\ connections <= (NumChunks - 1) * Rounds(Chunk) + Rounds(Size(NumChunks))
  /\ Honest => ToSet(accepted) \subseteq ToSet(server.prefers)
  /\ Honest => \A i \in (1..NumChunks) \ broken :
       at # "walk" \/ i < chunk =>
         Cardinality(Held(accepted, i)) = Rounds(Cardinality(Held(server.prefers, i)))

(***************************************************************************)
(* Within a chunk the suites are listed in the order of whoever chooses,   *)
(* and none that the server accepts is passed over for a later one, even   *)
(* when connections are lost (enumerate.js:97-118).                        *)
(***************************************************************************)
Sooner(s, t) ==
  IF server.chooses = "server"
    THEN \E p, q \in DOMAIN server.prefers : p < q /\ server.prefers[p] = s /\ server.prefers[q] = t
    ELSE s < t

Listed(s, t) == \E k, l \in DOMAIN accepted : k < l /\ accepted[k] = s /\ accepted[l] = t

OrderedInChunk ==
  Honest => \A i \in 1..NumChunks : \A s, t \in Held(server.prefers, i) :
              Sooner(s, t) /\ Seen(t) => Listed(s, t)

(***************************************************************************)
(* The verdict on who chooses is never wrong about an honest server: lost  *)
(* answers make it unknown, not something else.                            *)
(***************************************************************************)
VerdictIsRight ==
  at = "done" /\ Honest =>
    /\ order \in {server.chooses, "unknown"}
    /\ lost = 0 /\ Len(accepted) >= 2 => order = server.chooses
=============================================================================
