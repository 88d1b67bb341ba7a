-------------------------- MODULE Enumerate_proofs --------------------------
(***************************************************************************)
(* Proofs about server/enumerate.js: the cipher walk, for every number of  *)
(* suites, size of a chunk and limit of rounds, and the other checks, for  *)
(* every number of groups and limit of rounds. The two share no state.     *)
(***************************************************************************)
EXTENDS CipherWalk, Checks, FiniteSetTheorems, WellFoundedInduction, TLAPS

\* There is at least one chunk.
LEMMA ChunksType == NumChunks \in Nat /\ 1 <= NumChunks
<1>1. ASSUME NEW n \in Int, NEW b \in Nat, b > 0, b <= n
      PROVE  n \div b \in Nat /\ 1 <= n \div b
  BY <1>1
<1>2. NumSuites + Chunk - 1 \in Int /\ Chunk \in Nat /\ Chunk > 0 /\ Chunk <= NumSuites + Chunk - 1
  BY WalkAssumption
<1> QED
  BY <1>1, <1>2 DEF NumChunks

\* A chunk is a non-empty set of suites (enumerate.js:33-38).
LEMMA ChunkType ==
  ASSUME NEW i \in 1..NumChunks
  PROVE  ChunkAt(i) \subseteq Suites /\ ChunkAt(i) # {}
<1> DEFINE k == i - 1
           q == (NumSuites + Chunk - 1) \div Chunk
<1>1. NumSuites \in Nat /\ Chunk \in Nat /\ Chunk >= 2 /\ NumSuites >= 1
  BY WalkAssumption
<1>2. q \in Int /\ q * Chunk <= NumSuites + Chunk - 1
  <2> DEFINE n == NumSuites + Chunk - 1
  <2>1. n \in Int
    BY <1>1
  <2> HIDE DEF n
  <2>2. ASSUME NEW a \in Int, NEW b \in Nat, b > 0
        PROVE  a \div b \in Int /\ (a \div b) * b <= a
    BY <2>2
  <2>3. n \div Chunk \in Int /\ (n \div Chunk) * Chunk <= n
    BY <1>1, <2>1, <2>2
  <2> QED
    BY <2>3 DEF n
<1>3. k \in Nat /\ k + 1 <= q /\ i = k + 1
  BY <1>2 DEF NumChunks
<1> HIDE DEF k, q
<1>4. (k + 1) * Chunk <= q * Chunk
  BY <1>1, <1>2, <1>3
<1>5. (k + 1) * Chunk = k * Chunk + Chunk /\ k * Chunk \in Nat
  BY <1>1, <1>3
<1>6. k * Chunk + 1 <= NumSuites
  BY <1>1, <1>2, <1>4, <1>5
<1>7. ChunkAt(i) = (k * Chunk + 1)..LastOf(i)
  BY DEF ChunkAt, k
<1>8. LastOf(i) \in Nat /\ k * Chunk + 1 <= LastOf(i) /\ LastOf(i) <= NumSuites
  BY <1>1, <1>3, <1>5, <1>6 DEF LastOf
<1> QED
  BY <1>1, <1>5, <1>7, <1>8 DEF Suites

\* The first of a list that is among some others is one of these others, if
\* there is any, and the head where that is one.
LEMMA FirstOf ==
  ASSUME NEW list, DOMAIN list \subseteq Nat \ {0}, NEW others
  PROVE  /\ \/ First(list, others) = NoHello
            \/ First(list, others) \in ToSet(list) \cap ToSet(others)
         /\ (\E i \in DOMAIN list : list[i] \in ToSet(others)) =>
              First(list, others) \in ToSet(list) \cap ToSet(others)
         /\ 1 \in DOMAIN list /\ list[1] \in ToSet(others) => First(list, others) = list[1]
<1> DEFINE I == {i \in DOMAIN list : list[i] \in ToSet(others)}
           m == CHOOSE i \in I : \A j \in I : i <= j
<1>1. First(list, others) = IF I = {} THEN NoHello ELSE list[m]
  BY DEF First
<1>2. I \subseteq Nat \ {0}
  OBVIOUS
<1>3. ASSUME I # {} PROVE m \in I /\ \A j \in I : m <= j
  <2> DEFINE R == OpToRel(<, Nat)
  <2>1. IsWellFoundedOn(R, Nat)
    BY NatLessThanWellFounded
  <2>2. \A x, y \in Nat : x < y => <<x, y>> \in R
    BY DEF OpToRel
  <2> HIDE DEF I, R
  <2>3. PICK i \in I : \A j \in I : <<j, i>> \notin R
    BY <1>2, <1>3, <2>1, WFMin
  <2>4. ASSUME NEW j \in I PROVE i <= j
    <3>1. i \in Nat /\ j \in Nat /\ ~(j < i)
      BY <1>2, <2>2, <2>3, Zenon
    <3> QED
      BY <3>1
  <2> QED
    BY <2>4
<1>4. I # {} => list[m] \in ToSet(list) \cap ToSet(others)
  BY <1>3 DEF ToSet
<1>5. 1 \in DOMAIN list /\ list[1] \in ToSet(others) => I # {} /\ m = 1
  <2> SUFFICES ASSUME 1 \in DOMAIN list, list[1] \in ToSet(others)
               PROVE  I # {} /\ m = 1
    OBVIOUS
  <2>1. 1 \in I
    OBVIOUS
  <2> HIDE DEF I, m
  <2>2. m \in I /\ m <= 1
    BY <1>3, <2>1
  <2> QED
    BY <1>2, <2>1, <2>2
<1>6. (\E i \in DOMAIN list : list[i] \in ToSet(others)) => I # {}
  OBVIOUS
<1> HIDE DEF I, m
<1> QED
  BY <1>1, <1>4, <1>5, <1>6

Ways == {"forward", "backward"}

(***************************************************************************)
(* The inductive invariant: what was accepted of an honest server is what  *)
(* it likes, the order is only asked of two suites or more, and an answer  *)
(* is the server's own, or a connection was lost.                          *)
(***************************************************************************)
Liked == Honest => ToSet(accepted) \subseteq ToSet(server.prefers)

Comparable == at = "order" => Len(accepted) >= 2

OwnAnswers ==
  at = "order" =>
    \A way \in Ways \ asked :
      answer[way] = Picks(Offer(way)) \/ (answer[way] = NoHello /\ lost > 0)

IInv == TypeOK /\ Liked /\ Comparable /\ OwnAnswers /\ VerdictIsRight

-----------------------------------------------------------------------------
\* Recording a suite lists it once.
LEMMA RecordOnce ==
  ASSUME NEW S, accepted \in Seq(S), IsInjective(accepted), NEW s \in S, Record(s)
  PROVE  /\ accepted' \in Seq(S) /\ IsInjective(accepted')
         /\ ToSet(accepted') \subseteq ToSet(accepted) \cup {s}
<1>1. CASE Seen(s)
  BY <1>1 DEF Record
<1>2. CASE ~Seen(s)
  <2>1. accepted' = Append(accepted, s) /\ \A i \in 1..Len(accepted) : accepted[i] # s
    BY <1>2 DEF Record, Seen, Contains
  <2>2. /\ accepted' \in Seq(S) /\ Len(accepted') = Len(accepted) + 1
        /\ accepted'[Len(accepted) + 1] = s
        /\ \A i \in 1..Len(accepted) : accepted'[i] = accepted[i]
    BY <2>1
  <2>3. IsInjective(accepted')
    BY <2>1, <2>2 DEF IsInjective
  <2>4. ToSet(accepted') \subseteq ToSet(accepted) \cup {s}
    BY <2>2 DEF ToSet
  <2> QED
    BY <2>2, <2>3, <2>4
<1> QED
  BY <1>1, <1>2

\* Preferences are lists of suites, whoever chooses.
LEMMA ServerType ==
  ASSUME server \in Servers
  PROVE  server.prefers \in Seq(Suites \cup {Alien})
<1>1. CASE server \in [chooses : {"server", "client"}, prefers : Preferences]
  <2>1. PICK n \in 0..NumSuites : server.prefers \in [1..n -> Suites]
    BY <1>1 DEF Preferences
  <2> QED
    BY <2>1
<1>2. CASE server \in [chooses : {"stuck"}, prefers : {<<s>> : s \in Suites \cup {Alien}}]
  <2>1. PICK s \in Suites \cup {Alien} : server.prefers = <<s>>
    BY <1>2
  <2> QED
    BY <2>1
<1> QED
  BY <1>1, <1>2 DEF Servers

\* What an honest server picks is what it likes, whatever it is offered.
LEMMA PicksLiked ==
  ASSUME server \in Servers, Honest,
         NEW offer, DOMAIN offer \subseteq Nat \ {0}, Picks(offer) # NoHello
  PROVE  Picks(offer) \in ToSet(server.prefers)
<1>1. CASE server.chooses = "server"
  <2>1. Picks(offer) = First(server.prefers, offer)
    BY <1>1 DEF Picks
  <2>2. DOMAIN server.prefers \subseteq Nat \ {0}
    BY ServerType
  <2> QED
    BY <2>1, <2>2, FirstOf
<1>2. CASE server.chooses = "client"
  <2>1. Picks(offer) = First(offer, server.prefers)
    BY <1>2 DEF Picks
  <2> QED
    BY <2>1, FirstOf
<1> QED
  BY <1>1, <1>2 DEF Honest

\* What has come back to a probe: a suite that the server picks, or nothing.
LEMMA OutcomeLiked ==
  ASSUME TypeOK, Honest, NEW offer, DOMAIN offer \subseteq Nat \ {0},
         NEW got, got # NoHello, Outcome(offer, got)
  PROVE  got \in ToSet(server.prefers)
  BY PicksLiked DEF Outcome, TypeOK

\* The step to the next chunk, or out of the walk.
LEMMA NextChunkType ==
  ASSUME TypeOK, at = "walk", accepted' \in Seq(Suites \cup {Alien}), NextChunk
  PROVE  /\ at' \in {"walk", "order", "done"} /\ chunk' \in 1..NumChunks
         /\ remaining' \subseteq Suites
         /\ at' = "walk" => remaining' # {} /\ round' \in 0..(MaxRounds - 1)
         /\ asked' \subseteq Ways /\ order' \in {"none", "server", "client", "unknown"}
         /\ at' = "order" => Len(accepted') >= 2 /\ asked' = Ways
         /\ at' = "done" => Len(accepted') < 2 /\ order' = "unknown"
<1>1. CASE chunk < NumChunks
  <2>1. chunk' = chunk + 1 /\ remaining' = ChunkAt(chunk + 1) /\ round' = 0
        /\ UNCHANGED <<at, asked, order>>
    BY <1>1 DEF NextChunk
  <2>2. chunk + 1 \in 1..NumChunks
    BY <1>1, ChunksType DEF TypeOK
  <2>3. remaining' \subseteq Suites /\ remaining' # {}
    BY <2>1, <2>2, ChunkType
  <2>4. round' \in 0..(MaxRounds - 1)
    BY <2>1, WalkAssumption
  <2> QED
    BY <2>1, <2>2, <2>3, <2>4 DEF TypeOK, Ways
<1>2. CASE ~(chunk < NumChunks)
  <2>1. LeaveWalk /\ UNCHANGED <<chunk, remaining, round>>
    BY <1>2 DEF NextChunk
  <2>2. Len(accepted') \in Nat
    OBVIOUS
  <2>3. CASE Len(accepted') < 2
    BY <2>1, <2>3 DEF LeaveWalk, TypeOK, Ways
  <2>4. CASE Len(accepted') >= 2
    BY <2>1, <2>2, <2>4 DEF LeaveWalk, TypeOK, Ways
  <2> QED
    BY <2>2, <2>3, <2>4
<1> QED
  BY <1>1, <1>2

\* A probe of the walk counts, and is lost or answered.
LEMMA WalkingType ==
  ASSUME TypeOK, NEW got \in {NoHello, Alien} \cup Suites, Walking(got)
  PROVE  /\ at = "walk" /\ connections' \in Nat /\ lost' \in 0..MaxLost
         /\ broken' \subseteq 1..NumChunks
         /\ UNCHANGED <<server, answer>>
         /\ got # NoHello /\ Honest => got \in ToSet(server.prefers)
<1>1. DOMAIN [s \in remaining |-> s] \subseteq Nat \ {0}
  BY DEF TypeOK, Suites
<1>2. lost' \in 0..MaxLost
  BY WalkAssumption DEF Walking, Outcome, TypeOK
<1>3. got # NoHello /\ Honest => got \in ToSet(server.prefers)
  BY <1>1, OutcomeLiked DEF Walking
<1>4. broken' \subseteq 1..NumChunks
  BY DEF Walking, TypeOK
<1> QED
  BY <1>2, <1>3, <1>4 DEF Walking, TypeOK

\* A step of the walk keeps the invariant, whatever follows it.
LEMMA WalkKeeps ==
  ASSUME IInv, NEW got \in {NoHello, Alien} \cup Suites, Walking(got),
         accepted' \in Seq(Suites \cup {Alien}), IsInjective(accepted'),
         ToSet(accepted') \subseteq ToSet(accepted) \cup {got},
         got = NoHello => accepted' = accepted,
         \/ NextChunk
         \/ /\ round' \in 0..(MaxRounds - 1)
            /\ remaining' \subseteq Suites /\ remaining' # {}
            /\ UNCHANGED <<at, chunk, asked, order>>
  PROVE  IInv'
<1>1. /\ at = "walk" /\ connections' \in Nat /\ lost' \in 0..MaxLost
      /\ broken' \subseteq 1..NumChunks
      /\ UNCHANGED <<server, answer>>
      /\ got # NoHello /\ Honest => got \in ToSet(server.prefers)
  BY WalkingType DEF IInv
<1>2. /\ at' \in {"walk", "order", "done"} /\ chunk' \in 1..NumChunks
      /\ remaining' \subseteq Suites
      /\ at' = "walk" => remaining' # {} /\ round' \in 0..(MaxRounds - 1)
      /\ asked' \subseteq Ways /\ order' \in {"none", "server", "client", "unknown"}
      /\ at' = "order" => Len(accepted') >= 2 /\ asked' = Ways
      /\ at' = "done" => Len(accepted') < 2 /\ order' = "unknown"
  <2>1. CASE NextChunk
    BY <1>1, <2>1, NextChunkType DEF IInv
  <2>2. CASE ~NextChunk
    BY <1>1, <2>2 DEF IInv, TypeOK, Ways
  <2> QED
    BY <2>1, <2>2
<1>3. TypeOK'
  BY <1>1, <1>2 DEF IInv, TypeOK, Ways
<1>4. Liked'
  BY <1>1 DEF IInv, Liked, Honest
<1>5. Comparable' /\ OwnAnswers'
  BY <1>2 DEF Comparable, OwnAnswers
<1>6. VerdictIsRight'
  BY <1>2 DEF VerdictIsRight
<1> QED
  BY <1>3, <1>4, <1>5, <1>6 DEF IInv

-----------------------------------------------------------------------------
\* Both offers hold the same suites, two or more, in opposite orders.
LEMMA OfferType ==
  ASSUME TypeOK, Len(accepted) >= 2
  PROVE  LET f == Offer("forward")  b == Offer("backward")
         IN /\ f \in Seq(Suites \cup {Alien}) /\ b \in Seq(Suites \cup {Alien})
            /\ Len(f) >= 2 /\ Len(b) = Len(f) /\ IsInjective(f)
            /\ b[1] = f[Len(f)]
            /\ ToSet(f) \subseteq ToSet(accepted) /\ ToSet(b) = ToSet(f)
<1> DEFINE f == Offer("forward")  b == Offer("backward")
           n == IF Len(accepted) < Chunk THEN Len(accepted) ELSE Chunk
<1>1. accepted \in Seq(Suites \cup {Alien}) /\ IsInjective(accepted)
  BY DEF TypeOK
<1>2. n \in Nat /\ 2 <= n /\ n <= Len(accepted)
  BY <1>1, WalkAssumption
<1>3. f = SubSeq(accepted, 1, n) /\ b = Reverse(f)
  BY DEF Offer
<1> HIDE DEF n, f, b
<1>4. /\ f \in Seq(Suites \cup {Alien}) /\ Len(f) = n
      /\ \A i \in 1..n : f[i] = accepted[i]
  BY <1>1, <1>2, <1>3
<1>5. b = [i \in 1..n |-> f[n - i + 1]]
  BY <1>3, <1>4 DEF Reverse
<1>6. b \in Seq(Suites \cup {Alien}) /\ Len(b) = n
  BY <1>2, <1>4, <1>5
<1>7. IsInjective(f)
  BY <1>1, <1>2, <1>4 DEF IsInjective
<1>8. b[1] = f[n]
  BY <1>2, <1>5
<1>9. ToSet(f) \subseteq ToSet(accepted)
  BY <1>1, <1>2, <1>4 DEF ToSet
<1>10. ToSet(b) \subseteq ToSet(f)
  BY <1>2, <1>4, <1>5, <1>6 DEF ToSet
<1>11. ToSet(f) \subseteq ToSet(b)
  <2> SUFFICES ASSUME NEW i \in 1..n PROVE f[i] \in ToSet(b)
    BY <1>4 DEF ToSet
  <2>1. n - i + 1 \in 1..n /\ b[n - i + 1] = f[i]
    BY <1>2, <1>5
  <2> QED
    BY <2>1, <1>6 DEF ToSet
<1> QED
  BY <1>2, <1>4, <1>6, <1>7, <1>8, <1>9, <1>10, <1>11, Zenon DEF f, b

\* Of suites that it likes, a server picks the same of both offers, and a
\* server that leaves the choice picks the first of each.
LEMMA PicksTell ==
  ASSUME IInv, Honest, Len(accepted) >= 2
  PROVE  LET f == Offer("forward")  b == Offer("backward")
         IN /\ Picks(f) # NoHello /\ Picks(b) # NoHello
            /\ server.chooses = "server" => Picks(f) = Picks(b)
            /\ server.chooses = "client" => Picks(f) = f[1] /\ Picks(b) = b[1] /\ f[1] # b[1]
<1> DEFINE f == Offer("forward")  b == Offer("backward")  prefers == server.prefers
<1>1. /\ f \in Seq(Suites \cup {Alien}) /\ b \in Seq(Suites \cup {Alien})
      /\ Len(f) >= 2 /\ Len(b) = Len(f) /\ IsInjective(f) /\ b[1] = f[Len(f)]
      /\ ToSet(f) \subseteq ToSet(accepted) /\ ToSet(b) = ToSet(f)
  BY OfferType DEF IInv
<1>2. prefers \in Seq(Suites \cup {Alien})
  BY ServerType DEF IInv, TypeOK
<1>3. ToSet(f) \subseteq ToSet(prefers)
  BY <1>1 DEF IInv, Liked
<1> HIDE DEF f, b, prefers
<1>4. \A list \in Seq(Suites \cup {Alien}) : NoHello \notin ToSet(list)
  BY WalkAssumption DEF ToSet, NoHello, Suites, Alien
<1>5. f[1] \in ToSet(f) /\ b[1] \in ToSet(b) /\ 1 \in DOMAIN f /\ 1 \in DOMAIN b
  BY <1>1 DEF ToSet
<1>6. DOMAIN f \subseteq Nat \ {0} /\ DOMAIN b \subseteq Nat \ {0} /\ DOMAIN prefers \subseteq Nat \ {0}
  BY <1>1, <1>2
<1>7. CASE server.chooses = "server"
  <2>1. Picks(f) = First(prefers, f) /\ Picks(b) = First(prefers, b)
    BY <1>7 DEF Picks, prefers
  <2>2. First(prefers, f) = First(prefers, b)
    BY <1>1 DEF First
  <2>3. \E i \in DOMAIN prefers : prefers[i] \in ToSet(f)
    BY <1>3, <1>5 DEF ToSet
  <2>4. First(prefers, f) \in ToSet(prefers)
    BY <1>6, <2>3, FirstOf
  <2> QED
    BY <1>2, <1>4, <1>7, <2>1, <2>2, <2>4 DEF f, b
<1>8. CASE server.chooses = "client"
  <2>1. Picks(f) = First(f, prefers) /\ Picks(b) = First(b, prefers)
    BY <1>8 DEF Picks, prefers
  <2>2. First(f, prefers) = f[1] /\ First(b, prefers) = b[1]
    BY <1>1, <1>3, <1>5, <1>6, FirstOf
  <2>3. f[1] # b[1]
    BY <1>1 DEF IsInjective
  <2>4. f[1] # NoHello /\ b[1] # NoHello
    BY <1>1, <1>4, <1>5
  <2> QED
    BY <1>8, <2>1, <2>2, <2>3, <2>4 DEF f, b
<1> QED
  BY <1>7, <1>8 DEF Honest

-----------------------------------------------------------------------------
\* The order probes.
LEMMA AnswerKeeps ==
  ASSUME IInv, NEW way \in asked, NEW got \in {NoHello, Alien} \cup Suites, OrderAnswered(way, got)
  PROVE  IInv'
<1>1. /\ \/ got = Picks(Offer(way)) /\ lost' = lost
         \/ got = NoHello /\ lost' = lost + 1
      /\ asked' = asked \ {way} /\ answer' = [answer EXCEPT ![way] = got]
      /\ UNCHANGED <<server, at, walk, order>>
  BY DEF OrderAnswered, Outcome
<1>2. lost \in Nat /\ lost' \in 0..MaxLost /\ lost' >= lost
  BY WalkAssumption DEF IInv, TypeOK, OrderAnswered, Outcome
<1>3. TypeOK'
  <2>1. answer' \in [Ways -> {NoHello, Alien} \cup Suites] /\ asked' \subseteq Ways
    BY <1>1 DEF IInv, TypeOK, Ways
  <2> QED
    BY <1>1, <1>2, <2>1 DEF IInv, TypeOK, Ways, walk
<1>4. OwnAnswers'
  <2> SUFFICES ASSUME at = "order", NEW w \in Ways \ asked'
               PROVE  \/ answer'[w] = Picks(Offer(w)) \/ (answer'[w] = NoHello /\ lost' > 0)
    BY <1>1 DEF OwnAnswers, Picks, Offer, walk
  <2>1. CASE w = way
    <3>1. answer'[w] = got
      BY <1>1, <2>1 DEF IInv, TypeOK
    <3> QED
      BY <1>1, <1>2, <2>1, <3>1
  <2>2. CASE w # way
    <3>1. answer'[w] = answer[w] /\ w \in Ways \ asked
      BY <1>1, <2>2 DEF IInv, TypeOK, Ways
    <3> QED
      BY <1>2, <3>1 DEF IInv, OwnAnswers
  <2> QED
    BY <2>1, <2>2
<1>5. Liked' /\ Comparable'
  BY <1>1 DEF IInv, Liked, Comparable, Honest, walk
<1>6. VerdictIsRight'
  BY <1>1, <1>2 DEF IInv, VerdictIsRight, Honest, walk
<1> QED
  BY <1>3, <1>4, <1>5, <1>6 DEF IInv

\* The verdict.
LEMMA DecisionKeeps == ASSUME IInv, OrderDecided PROVE IInv'
<1> DEFINE a == answer["forward"]  b == answer["backward"]
<1>1. /\ at = "order" /\ at' = "done" /\ order' = Verdict(a, b) /\ asked = {}
      /\ UNCHANGED <<server, walk, asked, answer, lost>>
  BY DEF OrderDecided
<1>2. Verdict(a, b) \in {"server", "client", "unknown"}
  BY DEF Verdict
<1>3. TypeOK'
  BY <1>1, <1>2 DEF IInv, TypeOK, walk
<1>4. Liked' /\ Comparable' /\ OwnAnswers'
  BY <1>1 DEF IInv, Liked, Comparable, OwnAnswers, Honest, walk
<1>5. VerdictIsRight'
  <2> SUFFICES ASSUME Honest
               PROVE  /\ Verdict(a, b) \in {server.chooses, "unknown"}
                      /\ lost = 0 => Verdict(a, b) = server.chooses
    BY <1>1 DEF VerdictIsRight, Honest, walk
  <2> DEFINE f == Offer("forward")  r == Offer("backward")
  <2>1. Len(accepted) >= 2
    BY <1>1 DEF IInv, Comparable
  <2>2. /\ a = Picks(f) \/ (a = NoHello /\ lost > 0)
        /\ b = Picks(r) \/ (b = NoHello /\ lost > 0)
    BY <1>1 DEF IInv, OwnAnswers, Ways
  <2>3. /\ Picks(f) # NoHello /\ Picks(r) # NoHello
        /\ server.chooses = "server" => Picks(f) = Picks(r)
        /\ server.chooses = "client" => Picks(f) = f[1] /\ Picks(r) = r[1] /\ f[1] # r[1]
    BY <2>1, PicksTell
  <2>4. Verdict(a, b) = IF a = NoHello \/ b = NoHello THEN "unknown"
                        ELSE IF a = b THEN "server"
                        ELSE IF a = f[1] /\ b = r[1] THEN "client" ELSE "unknown"
    BY DEF Verdict
  <2> HIDE DEF a, b, f, r
  <2>5. CASE a = NoHello \/ b = NoHello
    <3>1. Verdict(a, b) = "unknown"
      BY <2>4, <2>5
    <3>2. lost > 0
      BY <2>2, <2>3, <2>5
    <3>3. lost # 0
      BY <3>2 DEF IInv, TypeOK
    <3> QED
      BY <3>1, <3>3
  <2>6. CASE a # NoHello /\ b # NoHello
    <3>1. a = Picks(f) /\ b = Picks(r)
      BY <2>2, <2>6
    <3> QED
      BY <2>3, <2>4, <2>6, <3>1 DEF Honest
  <2> QED
    BY <2>5, <2>6
<1> QED
  BY <1>3, <1>4, <1>5 DEF IInv

-----------------------------------------------------------------------------
LEMMA InitHolds == Init => IInv
<1> SUFFICES ASSUME Init PROVE IInv
  OBVIOUS
<1>1. chunk \in 1..NumChunks /\ remaining \subseteq Suites /\ remaining # {}
  BY ChunksType, ChunkType DEF Init
<1>2. round \in 0..(MaxRounds - 1) /\ lost \in 0..MaxLost
  BY WalkAssumption DEF Init
<1>3. accepted \in Seq(Suites \cup {Alien}) /\ IsInjective(accepted) /\ ToSet(accepted) = {}
  BY DEF Init, IsInjective, ToSet
<1>4. TypeOK
  BY <1>1, <1>2, <1>3 DEF Init, TypeOK
<1> QED
  BY <1>3, <1>4 DEF Init, IInv, Liked, Comparable, OwnAnswers, VerdictIsRight

\* Every step keeps the invariant.
LEMMA StepKeeps == IInv /\ [Next]_vars => IInv'
<1> SUFFICES ASSUME IInv, [Next]_vars PROVE IInv'
  OBVIOUS
<1>1. CASE NothingPicked
  <2>1. Walking(NoHello) /\ accepted' = accepted /\ NextChunk
    BY <1>1 DEF NothingPicked
  <2> QED
    BY <2>1, WalkKeeps DEF IInv, TypeOK, IsInjective, ToSet
<1>2. ASSUME NEW s \in Suites \cup {Alien}, Unoffered(s) \/ Picked(s) PROVE IInv'
  <2>1. Walking(s) /\ Record(s)
    BY <1>2 DEF Unoffered, Picked
  <2>2. /\ accepted' \in Seq(Suites \cup {Alien}) /\ IsInjective(accepted')
        /\ ToSet(accepted') \subseteq ToSet(accepted) \cup {s}
    BY <2>1, RecordOnce DEF IInv, TypeOK
  <2>3. s # NoHello
    BY WalkAssumption DEF Suites, Alien, NoHello
  <2>4. \/ NextChunk
        \/ /\ round' \in 0..(MaxRounds - 1)
           /\ remaining' \subseteq Suites /\ remaining' # {}
           /\ UNCHANGED <<at, chunk, asked, order>>
    <3>1. CASE Unoffered(s)
      BY <3>1 DEF Unoffered
    <3>2. CASE Picked(s)
      <4>1. round \in 0..(MaxRounds - 1) /\ remaining \subseteq Suites
        BY <2>1 DEF Walking, IInv, TypeOK
      <4> QED
        BY <3>2, <4>1, WalkAssumption DEF Picked
    <3> QED
      BY <1>2, <3>1, <3>2
  <2> QED
    BY <2>1, <2>2, <2>3, <2>4, WalkKeeps
<1>3. ASSUME NEW way \in asked, NEW got \in {NoHello, Alien} \cup Suites, OrderAnswered(way, got)
      PROVE  IInv'
  BY <1>3, AnswerKeeps
<1>4. CASE OrderDecided
  BY <1>4, DecisionKeeps
<1>5. CASE UNCHANGED vars
  <2>1. TypeOK'
    BY <1>5 DEF IInv, vars, walk, choice, TypeOK
  <2> QED
    BY <1>5, <2>1 DEF IInv, vars, walk, choice, Liked, Comparable, OwnAnswers,
                      VerdictIsRight, Honest, Picks, Offer
<1> QED
  BY <1>1, <1>2, <1>3, <1>4, <1>5 DEF Next

LEMMA Invariance == Spec => []IInv
  BY InitHolds, StepKeeps, PTL DEF Spec

(***************************************************************************)
(* The type invariant for every size of list, chunk and round: no suite is *)
(* listed twice, by whatever server (enumerate.js:113-116).                *)
(***************************************************************************)
THEOREM TypeCorrect == Spec => []TypeOK
<1>1. IInv => TypeOK
  BY DEF IInv
<1> QED
  BY <1>1, Invariance, PTL

(***************************************************************************)
(* The verdict on who chooses is never wrong about an honest server, and   *)
(* is given when no connection was lost (enumerate.js:129-141).            *)
(***************************************************************************)
THEOREM VerdictsAreRight == Spec => []VerdictIsRight
<1>1. IInv => VerdictIsRight
  BY DEF IInv
<1> QED
  BY <1>1, Invariance, PTL

-----------------------------------------------------------------------------
(***************************************************************************)
(* What the walk finds. Chunks follow each other; the first of a list is   *)
(* the least; and the walk is at its chunk what the offers it has left     *)
(* tell: everything offered before and answered is listed.                 *)
(***************************************************************************)

\* The size of a chunk; only the last may be smaller than the others.
LEMMA ChunkSize ==
  ASSUME NEW i \in 1..NumChunks
  PROVE  /\ IsFiniteSet(ChunkAt(i)) /\ Cardinality(ChunkAt(i)) = Size(i)
         /\ Size(i) \in Nat /\ Size(i) >= 1
         /\ LastOf(i) \in Nat /\ LastOf(i) <= i * Chunk
         /\ i < NumChunks => LastOf(i) = i * Chunk /\ Size(i) = Chunk
<1>1. NumSuites \in Nat /\ Chunk \in Nat /\ i \in Nat /\ NumChunks \in Nat
  BY WalkAssumption, ChunksType
<1>2. i * Chunk \in Nat /\ (i - 1) * Chunk \in Nat /\ i * Chunk = (i - 1) * Chunk + Chunk
  BY <1>1
<1>3. LastOf(i) \in Nat /\ LastOf(i) <= i * Chunk
  BY <1>1, <1>2 DEF LastOf
<1>4. ChunkAt(i) = ((i - 1) * Chunk + 1)..LastOf(i) /\ ChunkAt(i) # {}
  BY ChunkType DEF ChunkAt
<1>5. (i - 1) * Chunk + 1 <= LastOf(i)
  BY <1>2, <1>3, <1>4
<1>6. IsFiniteSet(ChunkAt(i)) /\ Cardinality(ChunkAt(i)) = LastOf(i) - ((i - 1) * Chunk + 1) + 1
  <2> DEFINE a == (i - 1) * Chunk + 1
  <2>1. a \in Int /\ LastOf(i) \in Int /\ a <= LastOf(i) /\ ChunkAt(i) = a..LastOf(i)
    BY <1>2, <1>3, <1>4, <1>5
  <2> HIDE DEF a
  <2>2. IsFiniteSet(a..LastOf(i)) /\ Cardinality(a..LastOf(i)) = LastOf(i) - a + 1
    BY <2>1, FS_Interval
  <2>3. IsFiniteSet(ChunkAt(i)) /\ Cardinality(ChunkAt(i)) = LastOf(i) - a + 1
    BY <2>1, <2>2
  <2> QED
    BY <2>3 DEF a
<1>7. i < NumChunks => i * Chunk < NumSuites
  <2> SUFFICES ASSUME i < NumChunks PROVE i * Chunk < NumSuites
    OBVIOUS
  <2> DEFINE j == i + 1
  <2>1. j \in 1..NumChunks /\ j - 1 = i
    BY <1>1
  <2> HIDE DEF j
  <2>2. ChunkAt(j) # {} /\ ChunkAt(j) \subseteq Suites /\ ChunkAt(j) = (i * Chunk + 1)..LastOf(j)
    BY <2>1, ChunkType DEF ChunkAt
  <2>3. PICK s \in ChunkAt(j) : s \in 1..NumSuites /\ i * Chunk + 1 <= s
    BY <2>2, <1>2 DEF Suites
  <2> QED
    BY <2>3, <1>1, <1>2
<1> QED
  BY <1>1, <1>2, <1>3, <1>5, <1>6, <1>7 DEF Size, LastOf

\* The suites of a chunk come before those of a later one.
LEMMA ChunksApart ==
  ASSUME NEW i \in 1..NumChunks, NEW j \in 1..NumChunks, i < j,
         NEW s \in ChunkAt(i), NEW t \in ChunkAt(j)
  PROVE  s < t /\ LastOf(i) < t
<1>1. Chunk \in Nat /\ i \in Nat /\ j \in Nat
  BY WalkAssumption, ChunksType
<1>2. i * Chunk \in Nat /\ (j - 1) * Chunk \in Nat /\ (i - 1) * Chunk \in Nat
  BY <1>1
<1>3. i * Chunk <= (j - 1) * Chunk
  <2> DEFINE k == j - 1 - i
  <2>1. k \in Nat /\ j - 1 = i + k
    BY <1>1
  <2> HIDE DEF k
  <2>2. (i + k) * Chunk = i * Chunk + k * Chunk /\ k * Chunk \in Nat
    BY <1>1, <2>1
  <2> QED
    BY <1>2, <2>1, <2>2
<1>4. LastOf(i) \in Nat /\ LastOf(i) <= i * Chunk /\ LastOf(j) \in Nat
  BY ChunkSize
<1>5. s \in Nat /\ s <= LastOf(i)
  BY <1>2, <1>4 DEF ChunkAt
<1>6. t \in Nat /\ (j - 1) * Chunk < t
  BY <1>2, <1>4 DEF ChunkAt
<1> QED
  BY <1>2, <1>3, <1>4, <1>5, <1>6

\* First is the least of the list that is among the others.
LEMMA FirstIsLeast ==
  ASSUME NEW list, DOMAIN list \subseteq Nat \ {0}, NEW others,
         \E i \in DOMAIN list : list[i] \in ToSet(others)
  PROVE  \E m \in DOMAIN list :
           /\ First(list, others) = list[m] /\ list[m] \in ToSet(others)
           /\ \A j \in DOMAIN list : list[j] \in ToSet(others) => m <= j
<1> DEFINE I == {i \in DOMAIN list : list[i] \in ToSet(others)}
           m == CHOOSE i \in I : \A j \in I : i <= j
           R == OpToRel(<, Nat)
<1>1. First(list, others) = list[m]
  BY DEF First
<1>2. I \subseteq Nat /\ I # {}
  OBVIOUS
<1>3. \A x, y \in Nat : x < y => <<x, y>> \in R
  BY DEF OpToRel
<1>4. IsWellFoundedOn(R, Nat)
  BY NatLessThanWellFounded
<1> HIDE DEF I, R
<1>5. PICK i \in I : \A j \in I : <<j, i>> \notin R
  BY <1>2, <1>4, WFMin
<1>6. ASSUME NEW j \in I PROVE i <= j
  <2>1. i \in Nat /\ j \in Nat /\ ~(j < i)
    BY <1>2, <1>3, <1>5, Zenon
  <2> QED
    BY <2>1
<1>7. m \in I /\ \A j \in I : m <= j
  BY <1>6
<1> QED
  BY <1>1, <1>7 DEF I

\* What an honest server picks of what is left of a chunk: the soonest of the
\* suites that it accepts, and nothing only when it accepts none of them.
LEMMA PicksSoonest ==
  ASSUME TypeOK, Honest
  PROVE  LET got == Picks([s \in remaining |-> s])
             mine == remaining \cap ToSet(server.prefers)
         IN /\ mine = {} => got = NoHello
            /\ mine # {} => got \in mine /\ \A t \in mine : ~Sooner(t, got)
<1> DEFINE offer == [s \in remaining |-> s]
           prefers == server.prefers
           mine == remaining \cap ToSet(prefers)
<1>1. ToSet(offer) = remaining /\ DOMAIN offer \subseteq Nat \ {0}
  <2>1. DOMAIN offer = remaining /\ \A s \in remaining : offer[s] = s
    OBVIOUS
  <2> HIDE DEF offer
  <2>2. ToSet(offer) = remaining
    BY <2>1, Zenon DEF ToSet
  <2> QED
    BY <2>1, <2>2 DEF TypeOK, Suites
<1>2. prefers \in Seq(Suites \cup {Alien})
  BY ServerType DEF TypeOK
<1>3. IsInjective(prefers)
  BY DEF Honest, TypeOK, Servers, Preferences
<1>4. CASE server.chooses = "server"
  <2>1. Picks(offer) = First(prefers, offer)
    BY <1>4 DEF Picks
  <2>2. CASE mine = {}
    <3>1. {i \in DOMAIN prefers : prefers[i] \in ToSet(offer)} = {}
      BY <1>1, <2>2 DEF ToSet
    <3> QED
      BY <2>1, <2>2, <3>1 DEF First
  <2>3. CASE mine # {}
    <3>1. \E i \in DOMAIN prefers : prefers[i] \in ToSet(offer)
      BY <1>1, <2>3 DEF ToSet
    <3>2. DOMAIN prefers \subseteq Nat \ {0}
      BY <1>2
    <3>3. PICK m \in DOMAIN prefers :
            /\ Picks(offer) = prefers[m] /\ prefers[m] \in remaining
            /\ \A j \in DOMAIN prefers : prefers[j] \in remaining => m <= j
      BY <1>1, <2>1, <3>1, <3>2, FirstIsLeast
    <3>4. ASSUME NEW t \in mine, Sooner(t, Picks(offer)) PROVE FALSE
      <4>1. PICK p, q \in DOMAIN prefers : p < q /\ prefers[p] = t /\ prefers[q] = prefers[m]
        BY <1>4, <3>3, <3>4 DEF Sooner
      <4>2. q = m /\ m <= p
        BY <1>3, <3>3, <4>1 DEF IsInjective
      <4> QED
        BY <3>2, <4>1, <4>2
    <3> QED
      BY <2>3, <3>3, <3>4 DEF ToSet
  <2> QED
    BY <2>2, <2>3
<1>5. CASE server.chooses = "client"
  <2>1. Picks(offer) = First(offer, prefers)
    BY <1>5 DEF Picks
  <2>2. CASE mine = {}
    <3>1. {i \in DOMAIN offer : offer[i] \in ToSet(prefers)} = {}
      BY <2>2
    <3> QED
      BY <2>1, <2>2, <3>1 DEF First
  <2>3. CASE mine # {}
    <3>1. PICK m \in remaining :
            /\ Picks(offer) = m /\ m \in ToSet(prefers)
            /\ \A j \in remaining : j \in ToSet(prefers) => m <= j
      BY <1>1, <2>1, <2>3, FirstIsLeast
    <3>2. ASSUME NEW t \in mine, Sooner(t, Picks(offer)) PROVE FALSE
      <4>1. t < m /\ m <= t /\ t \in Nat /\ m \in Nat
        BY <1>5, <3>1, <3>2 DEF Sooner, TypeOK, Suites
      <4> QED
        BY <4>1
    <3> QED
      BY <2>3, <3>1, <3>2
  <2> QED
    BY <2>2, <2>3
<1> QED
  BY <1>4, <1>5 DEF Honest

-----------------------------------------------------------------------------
(***************************************************************************)
(* The invariant of the walk, beside IInv: within a chunk each round takes *)
(* one suite off the offer, so rounds and connections are counted by what  *)
(* is left of it; what was offered to an honest server and is no longer is *)
(* listed; and every chunk left behind was walked to its end, or lost a    *)
(* connection.                                                             *)
(***************************************************************************)
Rest ==
  IF at = "walk" THEN remaining \subseteq ChunkAt(chunk) /\ round + Cardinality(remaining) = Size(chunk)
  ELSE chunk = NumChunks

Budget ==
  connections <= (chunk - 1) * Rounds(Chunk) + IF at = "walk" THEN round ELSE Rounds(Size(chunk))

StillOffered ==
  at = "walk" /\ Honest => /\ remaining = ChunkAt(chunk) \ ToSet(accepted)
                           /\ \A s \in ToSet(accepted) : s <= LastOf(chunk)

Walked(i) == Cardinality(Held(accepted, i)) = Rounds(Cardinality(Held(server.prefers, i)))

Complete ==
  Honest => \A i \in (1..NumChunks) \ broken : at # "walk" \/ i < chunk => Walked(i)

WInv == Rest /\ Budget /\ StillOffered /\ Complete /\ OrderedInChunk

LEMMA RangeOf == ASSUME NEW S, NEW list \in Seq(S) PROVE ToSet(list) \subseteq S
  BY DEF ToSet

\* After the last round of a chunk.
LEMMA ChunkOver ==
  ASSUME TypeOK, WInv, TypeOK', at = "walk", NextChunk, UNCHANGED server,
         connections' <= (chunk - 1) * Rounds(Chunk) + Rounds(Size(chunk)),
         Honest => \A s \in ToSet(accepted') : s <= LastOf(chunk),
         Honest => \A i \in (1..chunk) \ broken' : Walked(i)'
  PROVE  Rest' /\ Budget' /\ StillOffered' /\ Complete'
<1>1. chunk \in 1..NumChunks /\ NumChunks \in Nat
  BY ChunksType DEF TypeOK
<1>2. CASE chunk < NumChunks
  <2>1. /\ chunk' = chunk + 1 /\ remaining' = ChunkAt(chunk + 1) /\ round' = 0 /\ at' = "walk"
        /\ chunk + 1 \in 1..NumChunks
    BY <1>1, <1>2 DEF NextChunk
  <2>2. Cardinality(remaining') = Size(chunk') /\ Size(chunk') \in Nat
    BY <2>1, ChunkSize
  <2>3. Rest'
    BY <2>1, <2>2 DEF Rest
  <2>4. Size(chunk) = Chunk
    BY <1>1, <1>2, ChunkSize
  <2>5. Rounds(Chunk) \in Nat
    BY WalkAssumption DEF Rounds
  <2>6. (chunk' - 1) * Rounds(Chunk) = (chunk - 1) * Rounds(Chunk) + Rounds(Chunk)
    BY <1>1, <2>1, <2>5
  <2>7. Budget'
    BY <1>1, <2>1, <2>4, <2>5, <2>6 DEF Budget, TypeOK
  <2>8. ASSUME Honest
        PROVE  /\ remaining' = ChunkAt(chunk') \ ToSet(accepted')
               /\ \A s \in ToSet(accepted') : s <= LastOf(chunk')
    <3>1. \A s \in ToSet(accepted') : s \in Nat /\ s <= LastOf(chunk)
      <4>1. \A s \in ToSet(accepted') : s \in Nat
        BY RangeOf, WalkAssumption, SMTT(20) DEF TypeOK, Suites, Alien
      <4> QED
        BY <2>8, <4>1
    <3>2. PICK c \in ChunkAt(chunk) : TRUE
      BY <1>1, ChunkType
    <3>3. \A t \in ChunkAt(chunk') : LastOf(chunk) < t /\ t \in Nat
      BY <1>1, <2>1, <3>2, ChunksApart, ChunkType DEF Suites
    <3>4. LastOf(chunk) \in Nat /\ LastOf(chunk') \in Nat
      BY <1>1, <2>1, ChunkSize
    <3>5. PICK d \in ChunkAt(chunk') : d <= LastOf(chunk')
      <4>1. ChunkAt(chunk') # {}
        BY <2>1, ChunkType
      <4> QED
        BY <4>1 DEF ChunkAt
    <3>6. LastOf(chunk) <= LastOf(chunk')
      BY <3>3, <3>4, <3>5
    <3> QED
      BY <2>1, <3>1, <3>3, <3>4, <3>6
  <2>9. StillOffered'
    BY <2>8 DEF StillOffered, Honest
  <2>10. Complete'
    BY <1>1, <2>1 DEF Complete, Honest
  <2> QED
    BY <2>3, <2>7, <2>9, <2>10
<1>3. CASE ~(chunk < NumChunks)
  <2>1. chunk = NumChunks /\ chunk' = chunk /\ at' # "walk"
    BY <1>1, <1>3 DEF NextChunk, LeaveWalk
  <2> QED
    BY <2>1 DEF Rest, Budget, StillOffered, Complete, Honest
<1> QED
  BY <1>2, <1>3

\* A round and its connection are always paid for.
LEMMA RoundFits ==
  ASSUME TypeOK, Rest, Budget, at = "walk"
  PROVE  /\ round + 1 <= Rounds(Size(chunk)) /\ IsFiniteSet(remaining) /\ chunk \in 1..NumChunks
         /\ connections + 1 <= (chunk - 1) * Rounds(Chunk) + Rounds(Size(chunk))
<1>1. chunk \in 1..NumChunks /\ chunk \in Nat /\ round \in 0..(MaxRounds - 1) /\ remaining # {}
  BY ChunksType DEF TypeOK
<1>2. IsFiniteSet(ChunkAt(chunk)) /\ Size(chunk) \in Nat
  BY <1>1, ChunkSize
<1>3. IsFiniteSet(remaining)
  BY <1>2, FS_Subset DEF Rest
<1>4. Cardinality(remaining) \in Nat /\ Cardinality(remaining) # 0
  BY <1>1, <1>3, FS_EmptySet, FS_CardinalityType
<1>5. round + 1 <= Size(chunk)
  BY <1>1, <1>2, <1>4 DEF Rest
<1>6. MaxRounds \in Nat /\ Chunk \in Nat
  BY WalkAssumption
<1>7. round + 1 <= Rounds(Size(chunk)) /\ Rounds(Size(chunk)) \in Nat /\ Rounds(Chunk) \in Nat
  BY <1>1, <1>2, <1>5, <1>6 DEF Rounds
<1>8. (chunk - 1) * Rounds(Chunk) \in Nat
  BY <1>1, <1>7
<1>9. connections <= (chunk - 1) * Rounds(Chunk) + round /\ connections \in Nat
  BY DEF Budget, TypeOK
<1> QED
  BY <1>1, <1>3, <1>7, <1>8, <1>9

\* The suites of the chunk that are listed are as many as its rounds so far.
LEMMA HeldCount ==
  ASSUME TypeOK, Rest, StillOffered, at = "walk", Honest
  PROVE  Cardinality(Held(accepted, chunk)) = round
<1> DEFINE C == ChunkAt(chunk)  A == ToSet(accepted)
<1>1. IsFiniteSet(C) /\ Cardinality(C) = Size(chunk) /\ Size(chunk) \in Nat
  BY ChunkSize DEF TypeOK
<1>2. Cardinality(C \ A) = Cardinality(C) - Cardinality(C \cap A)
  BY <1>1, FS_Difference
<1>3. IsFiniteSet(C \cap A) /\ Cardinality(C \cap A) \in Nat
  BY <1>1, FS_Subset, FS_CardinalityType
<1>4. round + Cardinality(C \ A) = Size(chunk) /\ round \in Int
  <2>1. remaining = C \ A
    BY DEF StillOffered
  <2>2. round \in 0..(MaxRounds - 1)
    BY DEF TypeOK
  <2> QED
    BY <2>1, <2>2, WalkAssumption DEF Rest
<1>5. Held(accepted, chunk) = C \cap A
  BY DEF Held
<1> HIDE DEF C, A
<1> QED
  BY <1>1, <1>2, <1>3, <1>4, <1>5

\* A chunk of a list has no more suites than there are in the chunk.
LEMMA HeldFinite ==
  ASSUME NEW i \in 1..NumChunks, NEW list
  PROVE  IsFiniteSet(Held(list, i)) /\ Cardinality(Held(list, i)) \in Nat
  BY ChunkSize, FS_Subset, FS_CardinalityType DEF Held

\* A round without an answer.
LEMMA NothingKeeps == ASSUME IInv, WInv, TypeOK', NothingPicked PROVE WInv'
<1>1. /\ at = "walk" /\ connections' = connections + 1 /\ NextChunk
      /\ UNCHANGED <<server, accepted>>
      /\ Outcome([s \in remaining |-> s], NoHello)
  BY DEF NothingPicked, Walking
<1>2. /\ broken \subseteq broken'
      /\ chunk \notin broken' => NoHello = Picks([s \in remaining |-> s])
  BY WalkAssumption DEF NothingPicked, Walking, Outcome, IInv, TypeOK
<1>3. connections' <= (chunk - 1) * Rounds(Chunk) + Rounds(Size(chunk))
  BY <1>1, RoundFits DEF IInv, WInv
<1>4. ASSUME Honest PROVE \A i \in (1..chunk) \ broken' : Walked(i)'
  <2>1. \A i \in (1..chunk) \ broken' : i < chunk => Walked(i)
    <3>1. \A i \in (1..NumChunks) \ broken' : i < chunk => Walked(i)
      BY <1>2, <1>4 DEF WInv, Complete
    <3> QED
      BY <3>1, ChunksType DEF IInv, TypeOK
  <2>2. chunk \notin broken' => remaining \cap ToSet(server.prefers) = {}
    <3>1. \A x \in remaining : x # NoHello
      BY DEF IInv, TypeOK, Suites, NoHello
    <3> QED
      BY <1>2, <1>4, <3>1, PicksSoonest DEF IInv
  <2>3. chunk \notin broken' => Held(accepted, chunk) = Held(server.prefers, chunk)
    BY <1>1, <1>4, <2>2 DEF Held, WInv, StillOffered, IInv, Liked
  <2>4. Cardinality(Held(accepted, chunk)) = round /\ round < MaxRounds
    BY <1>1, <1>4, HeldCount, WalkAssumption DEF IInv, WInv, TypeOK
  <2>5. chunk \notin broken' => Walked(chunk)
    BY <2>3, <2>4 DEF Walked, Rounds
  <2>6. \A i \in (1..chunk) \ broken' : Walked(i)
    BY <2>1, <2>5 DEF IInv, TypeOK
  <2> QED
    BY <1>1, <2>6 DEF Walked
<1>5. Honest => \A s \in ToSet(accepted') : s <= LastOf(chunk)
  BY <1>1 DEF WInv, StillOffered
<1>6. Rest' /\ Budget' /\ StillOffered' /\ Complete'
  BY <1>1, <1>3, <1>4, <1>5, ChunkOver DEF IInv
<1>7. OrderedInChunk'
  BY <1>1 DEF WInv, OrderedInChunk, Honest, Sooner, Listed, Seen
<1> QED
  BY <1>6, <1>7 DEF WInv

\* Only a stuck server answers with what it was not offered.
LEMMA UnofferedKeeps ==
  ASSUME IInv, WInv, TypeOK', NEW s \in Suites \cup {Alien}, Unoffered(s)
  PROVE  WInv'
<1>1. /\ at = "walk" /\ connections' = connections + 1 /\ NextChunk /\ server' = server
      /\ Outcome([x \in remaining |-> x], s) /\ s \notin remaining
  BY DEF Unoffered, Walking
<1>2. s # NoHello
  BY WalkAssumption DEF Suites, Alien, NoHello
<1>3. ~Honest
  BY <1>1, <1>2, PicksSoonest DEF Outcome, IInv
<1>4. connections' <= (chunk - 1) * Rounds(Chunk) + Rounds(Size(chunk))
  BY <1>1, RoundFits DEF IInv, WInv
<1>5. Rest' /\ Budget' /\ StillOffered' /\ Complete'
  BY <1>1, <1>3, <1>4, ChunkOver DEF IInv
<1>6. OrderedInChunk'
  BY <1>1, <1>3 DEF OrderedInChunk, Honest
<1> QED
  BY <1>5, <1>6 DEF WInv

\* What appending to a list does to it.
LEMMA Appended ==
  ASSUME NEW S, NEW list \in Seq(S), NEW s \in S
  PROVE  /\ ToSet(Append(list, s)) = ToSet(list) \cup {s}
         /\ Len(Append(list, s)) = Len(list) + 1 /\ Append(list, s)[Len(list) + 1] = s
         /\ DOMAIN list \subseteq DOMAIN Append(list, s)
         /\ \A k \in DOMAIN list : Append(list, s)[k] = list[k] /\ k < Len(list) + 1
         /\ Len(list) + 1 \in DOMAIN Append(list, s)
<1> DEFINE l == Append(list, s)
<1>1. /\ l \in Seq(S) /\ Len(l) = Len(list) + 1 /\ l[Len(list) + 1] = s
      /\ \A k \in 1..Len(list) : l[k] = list[k]
  OBVIOUS
<1>2. DOMAIN list = 1..Len(list) /\ DOMAIN l = 1..(Len(list) + 1) /\ Len(list) \in Nat
  BY <1>1
<1> HIDE DEF l
<1>3. ToSet(l) \subseteq ToSet(list) \cup {s}
  BY <1>1, <1>2 DEF ToSet
<1>4. ToSet(list) \cup {s} \subseteq ToSet(l)
  BY <1>1, <1>2 DEF ToSet
<1> QED
  BY <1>1, <1>2, <1>3, <1>4 DEF l

\* A suite that comes back from the offer is the last of the list, and none
\* that the server prefers to it is left.
LEMMA PickedLast ==
  ASSUME TypeOK, StillOffered, at = "walk", Honest, NEW s \in Suites, Picked(s)
  PROVE  /\ s \notin ToSet(accepted) /\ s \in ToSet(server.prefers)
         /\ accepted' = Append(accepted, s)
         /\ \A t \in remaining \cap ToSet(server.prefers) : ~Sooner(t, s)
<1>1. Outcome([x \in remaining |-> x], s) /\ s \in remaining /\ Record(s)
  BY DEF Picked, Walking
<1>2. s # NoHello
  BY DEF Suites, NoHello
<1>3. s = Picks([x \in remaining |-> x])
  BY <1>1, <1>2 DEF Outcome
<1>4. s \in ToSet(server.prefers) /\ \A t \in remaining \cap ToSet(server.prefers) : ~Sooner(t, s)
  BY <1>2, <1>3, PicksSoonest
<1>5. s \notin ToSet(accepted)
  BY <1>1 DEF StillOffered
<1>6. ~Seen(s)
  BY <1>5 DEF Seen, Contains, ToSet, TypeOK
<1> QED
  BY <1>1, <1>4, <1>5, <1>6 DEF Record

\* A chunk that is over with an answer holds what it should.
LEMMA LastRound ==
  ASSUME IInv, WInv, IInv', at = "walk", Honest, UNCHANGED server,
         NEW s \in remaining, s \notin ToSet(accepted), ToSet(accepted') = ToSet(accepted) \cup {s},
         round + 1 >= MaxRounds \/ remaining \ {s} = {}
  PROVE  \A i \in 1..NumChunks : i = chunk => Walked(i)'
<1> DEFINE C == ChunkAt(chunk)  P == Held(server.prefers, chunk)
           A == Held(accepted, chunk)  B == ToSet(accepted') \cap ChunkAt(chunk)
<1>1. chunk \in 1..NumChunks /\ round \in 0..(MaxRounds - 1) /\ MaxRounds \in Nat
  BY WalkAssumption DEF IInv, TypeOK
<1>2. IsFiniteSet(A) /\ Cardinality(A) = round /\ IsFiniteSet(P) /\ Cardinality(P) \in Nat
  BY <1>1, HeldCount, HeldFinite DEF IInv, WInv
<1>3. s \in C /\ remaining = C \ ToSet(accepted)
  BY DEF WInv, Rest, StillOffered
<1>4. B = A \cup {s} /\ s \notin A
  BY <1>3 DEF Held
<1>5. Cardinality(B) = round + 1
  BY <1>2, <1>4, FS_AddElement
<1>6. B \subseteq P
  BY DEF IInv, Liked, Honest, Held
<1>7. Cardinality(B) = Rounds(Cardinality(P))
  <2>1. CASE round + 1 >= MaxRounds
    <3>1. Cardinality(B) <= Cardinality(P)
      BY <1>2, <1>6, FS_Subset
    <3> HIDE DEF B, P
    <3> QED
      BY <1>1, <1>2, <1>5, <2>1, <3>1 DEF Rounds
  <2>2. CASE remaining \ {s} = {}
    <3>1. P \subseteq B
      BY <1>3, <2>2 DEF Held
    <3>2. P = B
      BY <1>6, <3>1
    <3> HIDE DEF B, P
    <3> QED
      BY <1>1, <1>5, <3>2 DEF Rounds
  <2> QED
    BY <2>1, <2>2
<1> QED
  BY <1>7 DEF Walked, Held

\* The order of what is listed is kept when a suite is added to it.
LEMMA PickedInOrder ==
  ASSUME TypeOK, Rest, StillOffered, OrderedInChunk, at = "walk", UNCHANGED server,
         NEW s \in Suites, s \in remaining, Picked(s)
  PROVE  OrderedInChunk'
<1> SUFFICES ASSUME Honest, NEW i \in 1..NumChunks,
                    NEW x \in Held(server.prefers, i), NEW t \in Held(server.prefers, i),
                    Sooner(x, t), Contains(accepted', t)
             PROVE  \E k, l \in DOMAIN accepted' : k < l /\ accepted'[k] = x /\ accepted'[l] = t
  BY DEF OrderedInChunk, Honest, Sooner, Listed, Held, Seen
<1>1. /\ s \notin ToSet(accepted) /\ accepted' = Append(accepted, s)
      /\ \A y \in remaining \cap ToSet(server.prefers) : ~Sooner(y, s)
  BY PickedLast
<1>2. accepted \in Seq(Suites \cup {Alien})
  BY DEF TypeOK
<1> DEFINE n == Len(accepted) + 1
<1>3. /\ ToSet(accepted') = ToSet(accepted) \cup {s}
      /\ Len(accepted') = n /\ accepted'[n] = s /\ n \in DOMAIN accepted'
      /\ DOMAIN accepted \subseteq DOMAIN accepted'
      /\ \A k \in DOMAIN accepted : accepted'[k] = accepted[k] /\ k < n
  BY <1>1, <1>2, Appended
<1> HIDE DEF n
<1>4. t \in ToSet(accepted')
  <2>1. accepted' \in Seq(Suites \cup {Alien})
    BY <1>1, <1>2
  <2> QED
    BY <2>1 DEF Contains, ToSet
<1>5. CASE t \in ToSet(accepted)
  <2>1. Seen(t)
    BY <1>2, <1>5 DEF Seen, Contains, ToSet
  <2>2. Listed(x, t)
    BY <2>1 DEF OrderedInChunk
  <2> QED
    BY <1>3, <2>2 DEF Listed
<1>6. CASE t \notin ToSet(accepted)
  <2>1. t = s
    BY <1>3, <1>4, <1>6
  <2>2. i = chunk
    <3>1. s \in ChunkAt(i) /\ s \in ChunkAt(chunk) /\ chunk \in 1..NumChunks
      BY <2>1 DEF Held, Rest, TypeOK
    <3>2. ~(i < chunk) /\ ~(chunk < i)
      BY <3>1, ChunksApart DEF Suites
    <3> QED
      BY <3>1, <3>2, ChunksType
  <2>3. x \notin remaining
    BY <1>1, <2>1 DEF Held
  <2>4. x \in ToSet(accepted)
    BY <2>2, <2>3 DEF StillOffered, Held
  <2>5. PICK k \in DOMAIN accepted : accepted[k] = x
    BY <2>4 DEF ToSet
  <2> QED
    BY <1>3, <2>1, <2>5
<1> QED
  BY <1>5, <1>6

\* A round that an answer came back to.
LEMMA PickedKeeps ==
  ASSUME IInv, WInv, IInv', NEW s \in Suites \cup {Alien}, Picked(s)
  PROVE  WInv'
<1>1. /\ at = "walk" /\ connections' = connections + 1 /\ server' = server
      /\ Outcome([x \in remaining |-> x], s) /\ s \in remaining
      /\ s \in Suites /\ s # NoHello /\ lost' = lost /\ broken' = broken
  BY DEF Picked, Walking, Outcome, IInv, TypeOK, Suites, NoHello
<1>2. /\ chunk \in 1..NumChunks /\ IsFiniteSet(remaining) /\ round + 1 <= Rounds(Size(chunk))
      /\ connections' <= (chunk - 1) * Rounds(Chunk) + Rounds(Size(chunk))
  BY <1>1, RoundFits DEF IInv, WInv
<1>3. OrderedInChunk'
  BY <1>1, PickedInOrder DEF IInv, WInv
<1>4. s \in ChunkAt(chunk) /\ remaining \subseteq ChunkAt(chunk)
  BY <1>1 DEF WInv, Rest
<1>5. ASSUME Honest PROVE s \notin ToSet(accepted) /\ ToSet(accepted') = ToSet(accepted) \cup {s}
  <2>1. s \notin ToSet(accepted) /\ accepted' = Append(accepted, s)
    BY <1>1, <1>5, PickedLast DEF IInv, WInv
  <2>2. accepted \in Seq(Suites \cup {Alien})
    BY DEF IInv, TypeOK
  <2> QED
    BY <2>1, <2>2, Appended
<1>6. Honest => \A x \in ToSet(accepted') : x <= LastOf(chunk)
  <2>1. s <= LastOf(chunk)
    BY <1>4, ChunkSize, <1>2 DEF ChunkAt
  <2> QED
    BY <1>1, <1>5, <2>1 DEF WInv, StillOffered
<1>7. ASSUME Honest PROVE \A i \in (1..NumChunks) \ broken' : i < chunk => Walked(i)'
  <2> SUFFICES ASSUME NEW i \in (1..NumChunks) \ broken', i < chunk PROVE Walked(i)'
    OBVIOUS
  <2>1. Walked(i)
    BY <1>1, <1>7 DEF WInv, Complete
  <2>2. s \notin ChunkAt(i)
    BY <1>2, <1>4, <1>1, ChunksApart DEF Suites
  <2>3. ToSet(accepted') \cap ChunkAt(i) = ToSet(accepted) \cap ChunkAt(i)
    BY <1>5, <1>7, <2>2
  <2> QED
    BY <1>1, <2>1, <2>3 DEF Walked, Held
<1>8. CASE round + 1 < MaxRounds /\ remaining \ {s} # {}
  <2>1. /\ round' = round + 1 /\ remaining' = remaining \ {s} /\ at' = "walk" /\ chunk' = chunk
    BY <1>1, <1>8 DEF Picked
  <2>2. Cardinality(remaining') = Cardinality(remaining) - 1 /\ Cardinality(remaining) \in Nat
    BY <1>1, <1>2, <2>1, FS_RemoveElement, FS_CardinalityType
  <2>3. Rest'
    <3>1. round + Cardinality(remaining) = Size(chunk) /\ round \in Int
      BY <1>1, WalkAssumption DEF WInv, Rest, IInv, TypeOK
    <3>2. round' + Cardinality(remaining') = Size(chunk)
      BY <2>1, <2>2, <3>1
    <3> QED
      BY <1>4, <2>1, <3>2 DEF Rest
  <2>4. Budget'
    BY <1>1, <1>2, <2>1, WalkAssumption, SMTT(20) DEF Budget, WInv, IInv, TypeOK, Rounds
  <2>5. StillOffered'
    BY <1>1, <1>5, <1>6, <2>1 DEF StillOffered, WInv, Honest
  <2>6. Complete'
    BY <1>1, <1>7, <2>1 DEF Complete, Honest
  <2> QED
    BY <1>3, <2>3, <2>4, <2>5, <2>6 DEF WInv
<1>9. CASE round + 1 >= MaxRounds \/ remaining \ {s} = {}
  <2>1. NextChunk
    BY <1>1, <1>9, WalkAssumption DEF Picked, IInv, TypeOK
  <2>2. ASSUME Honest PROVE \A i \in (1..chunk) \ broken' : Walked(i)'
    <3>1. \A i \in 1..NumChunks : i = chunk => Walked(i)'
      BY <1>1, <1>5, <1>9, <2>2, LastRound
    <3> QED
      BY <1>2, <1>7, <2>2, <3>1, ChunksType
  <2>3. Rest' /\ Budget' /\ StillOffered' /\ Complete'
    BY <1>1, <1>2, <1>6, <2>1, <2>2, ChunkOver DEF IInv
  <2> QED
    BY <1>3, <2>3 DEF WInv
<1>10. round \in Nat /\ MaxRounds \in Nat
  BY <1>1, WalkAssumption DEF IInv, TypeOK
<1> QED
  BY <1>8, <1>9, <1>10

\* The order probes leave the walk as it is.
LEMMA OrderKeeps ==
  ASSUME WInv, at = "walk" <=> at' = "walk", UNCHANGED <<server, walk>>
  PROVE  WInv'
<1>1. Rest' /\ Budget' /\ StillOffered'
  BY DEF WInv, Rest, Budget, StillOffered, Honest, Rounds, Size, walk
<1>2. Complete'
  BY DEF WInv, Complete, Walked, Held, Honest, walk
<1>3. OrderedInChunk'
  BY DEF WInv, OrderedInChunk, Honest, Held, Sooner, Listed, Seen, walk
<1> QED
  BY <1>1, <1>2, <1>3 DEF WInv

LEMMA InitWalks == Init => WInv
<1> SUFFICES ASSUME Init PROVE WInv
  OBVIOUS
<1>1. /\ at = "walk" /\ chunk = 1 /\ remaining = ChunkAt(1) /\ round = 0
      /\ accepted = <<>> /\ connections = 0
  BY DEF Init
<1>2. chunk \in 1..NumChunks /\ ToSet(accepted) = {} /\ ~\E t : Seen(t)
  BY <1>1, ChunksType DEF ToSet, Seen, Contains
<1>3. Rest
  BY <1>1, <1>2, ChunkSize DEF Rest
<1>4. Budget
  BY <1>1, WalkAssumption DEF Budget, Rounds
<1>5. StillOffered /\ Complete /\ OrderedInChunk
  BY <1>1, <1>2 DEF StillOffered, Complete, OrderedInChunk
<1> QED
  BY <1>3, <1>4, <1>5 DEF WInv

\* Every step keeps the invariant of the walk.
LEMMA StepWalks == IInv /\ WInv /\ [Next]_vars => WInv'
<1> SUFFICES ASSUME IInv, WInv, [Next]_vars PROVE WInv'
  OBVIOUS
<1>1. IInv' /\ TypeOK' /\ TypeOK
  BY StepKeeps DEF IInv
<1>2. CASE NothingPicked
  BY <1>1, <1>2, NothingKeeps
<1>3. ASSUME NEW s \in Suites \cup {Alien}, Unoffered(s) \/ Picked(s) PROVE WInv'
  BY <1>1, <1>3, UnofferedKeeps, PickedKeeps
<1>4. ASSUME NEW way \in asked, NEW got \in {NoHello, Alien} \cup Suites, OrderAnswered(way, got)
      PROVE  WInv'
  <2>1. UNCHANGED <<server, at, walk>>
    BY <1>4 DEF OrderAnswered
  <2> QED
    BY <1>1, <2>1, OrderKeeps
<1>5. CASE OrderDecided
  <2>1. at = "order" /\ at' = "done" /\ UNCHANGED <<server, walk>>
    BY <1>5 DEF OrderDecided
  <2> QED
    BY <2>1, OrderKeeps
<1>6. CASE UNCHANGED vars
  <2>1. UNCHANGED <<server, walk>> /\ at' = at
    BY <1>6 DEF vars
  <2> QED
    BY <2>1, OrderKeeps
<1> QED
  BY <1>2, <1>3, <1>4, <1>5, <1>6 DEF Next

LEMMA WalkInvariance == Spec => [](IInv /\ WInv)
<1>1. Init => IInv /\ WInv
  BY InitHolds, InitWalks
<1>2. IInv /\ WInv /\ [Next]_vars => (IInv /\ WInv)'
  BY StepKeeps, StepWalks
<1> QED
  BY <1>1, <1>2, PTL DEF Spec

\* The budget of a chunk is within the budget of the whole walk.
LEMMA BudgetEnds ==
  ASSUME TypeOK, Rest, Budget
  PROVE  connections <= (NumChunks - 1) * Rounds(Chunk) + Rounds(Size(NumChunks))
<1> DEFINE r == Rounds(Chunk)
<1>1. chunk \in 1..NumChunks /\ NumChunks \in Nat /\ connections \in Nat
  BY ChunksType DEF TypeOK
<1>2. r \in Nat /\ \A n \in Nat : Rounds(n) \in Nat
  BY WalkAssumption DEF Rounds
<1>3. Size(chunk) \in Nat /\ Size(NumChunks) \in Nat /\ (chunk < NumChunks => Size(chunk) = Chunk)
  BY <1>1, ChunksType, ChunkSize
<1>4. connections <= (chunk - 1) * r + Rounds(Size(chunk))
  <2>1. CASE at = "walk"
    <3>1. round + 1 <= Rounds(Size(chunk)) /\ connections <= (chunk - 1) * r + round
      BY <2>1, RoundFits DEF Budget
    <3>2. round \in Int
      BY <2>1, WalkAssumption DEF TypeOK
    <3>3. (chunk - 1) * r \in Nat
      BY <1>1, <1>2
    <3> HIDE DEF r
    <3> QED
      BY <1>1, <1>2, <1>3, <3>1, <3>2, <3>3
  <2>2. CASE at # "walk"
    BY <2>2 DEF Budget
  <2> QED
    BY <2>1, <2>2
<1>5. CASE chunk = NumChunks
  BY <1>4, <1>5
<1>6. CASE chunk < NumChunks
  <2> DEFINE k == NumChunks - 1 - chunk
  <2>1. k \in Nat /\ NumChunks - 1 = chunk + k
    BY <1>1, <1>6
  <2>2. connections <= (chunk - 1) * r + r
    BY <1>3, <1>4, <1>6
  <2> HIDE DEF r, k
  <2>3. (chunk + k) * r = chunk * r + k * r /\ k * r \in Nat /\ (chunk - 1) * r + r = chunk * r
        /\ chunk * r \in Nat
    BY <1>1, <1>2, <2>1
  <2>4. connections <= (NumChunks - 1) * r + Rounds(Size(NumChunks))
    <3>1. (NumChunks - 1) * r = chunk * r + k * r
      BY <2>1, <2>3
    <3> QED
      BY <1>1, <1>2, <1>3, <2>2, <2>3, <3>1
  <2> QED
    BY <2>4 DEF r
<1> QED
  BY <1>1, <1>5, <1>6

(***************************************************************************)
(* For every list of suites, every server and every loss: the walk costs   *)
(* at most one connection per suite and MAX_ROUNDS per chunk, lists of an  *)
(* honest server only what it accepts, and misses nothing of a chunk that  *)
(* lost no connection but what it holds beyond its rounds, whatever the    *)
(* other chunks lost (enumerate.js:97-118).                                *)
(***************************************************************************)
THEOREM CipherWalksAreComplete == Spec => []WalkIsComplete
<1>1. IInv /\ WInv => WalkIsComplete
  <2> SUFFICES ASSUME IInv, WInv PROVE WalkIsComplete
    OBVIOUS
  <2>1. connections <= (NumChunks - 1) * Rounds(Chunk) + Rounds(Size(NumChunks))
    BY BudgetEnds DEF IInv, WInv
  <2>2. Honest => ToSet(accepted) \subseteq ToSet(server.prefers)
    BY DEF IInv, Liked
  <2>3. Honest => \A i \in (1..NumChunks) \ broken : at # "walk" \/ i < chunk => Walked(i)
    BY DEF WInv, Complete
  <2> QED
    BY <2>1, <2>2, <2>3 DEF WalkIsComplete, Walked
<1> QED
  BY <1>1, WalkInvariance, PTL

(***************************************************************************)
(* Within a chunk the list is in the order of whoever chooses, and no      *)
(* suite is passed over for a later one, however many connections are lost *)
(* (enumerate.js:97-118).                                                  *)
(***************************************************************************)
THEOREM WalksInOrder == Spec => []OrderedInChunk
<1>1. WInv => OrderedInChunk
  BY DEF WInv
<1> QED
  BY <1>1, WalkInvariance, PTL

-----------------------------------------------------------------------------
(***************************************************************************)
(* The other checks. The invariant: what is known of the versions found,   *)
(* of the steps a walk has behind it, of the groups walked and of a client *)
(* whose first hello was refused.                                          *)
(***************************************************************************)
LEMMA LeastOf ==
  ASSUME NEW S, S \subseteq Nat, S # {}
  PROVE  Min(S) \in S /\ \A y \in S : Min(S) <= y
<1> DEFINE R == OpToRel(<, Nat)
<1>1. IsWellFoundedOn(R, Nat)
  BY NatLessThanWellFounded
<1>2. \A x, y \in Nat : x < y => <<x, y>> \in R
  BY DEF OpToRel
<1> HIDE DEF R
<1>3. PICK x \in S : \A y \in S : <<y, x>> \notin R
  BY <1>1, WFMin
<1>4. ASSUME NEW y \in S PROVE x <= y
  <2>1. x \in Nat /\ y \in Nat /\ ~(y < x)
    BY <1>2, <1>3, Zenon
  <2> QED
    BY <2>1
<1> QED
  BY <1>4 DEF Min

\* The newest of some versions.
LEMMA NewestOf ==
  ASSUME NEW S, S \subseteq Versions
  PROVE  /\ S = {} => Newest(S) = Alert
         /\ S # {} => /\ Newest(S) = Max(S) /\ Newest(S) \in S /\ Newest(S) > Alert
                      /\ \A v \in S : v <= Newest(S)
<1>1. ASSUME S # {} PROVE \E x \in S : \A y \in S : x >= y
  <2> DEFINE Down == {5 - v : v \in S}
  <2>1. Down \subseteq Nat /\ Down # {}
    <3>1. \A v \in 1..5 : 5 - v \in Nat
      OBVIOUS
    <3>2. \A v \in S : 5 - v \in Nat
      BY <3>1 DEF Versions
    <3>3. PICK v \in S : TRUE
      BY <1>1
    <3>4. 5 - v \in Down
      BY <3>3
    <3> QED
      BY <3>2, <3>4, Zenon
  <2>2. \A y \in S : 5 - y \in Down
    OBVIOUS
  <2>3. \A d \in Down : \E y \in S : d = 5 - y
    OBVIOUS
  <2> HIDE DEF Down
  <2>4. Min(Down) \in Down /\ \A y \in Down : Min(Down) <= y
    BY <2>1, LeastOf
  <2>5. PICK x \in S : Min(Down) = 5 - x
    BY <2>3, <2>4
  <2>6. ASSUME NEW y \in S PROVE x >= y
    <3>1. 5 - x <= 5 - y
      BY <2>2, <2>4, <2>5
    <3>2. x \in Int /\ y \in Int
      BY DEF Versions
    <3> QED
      BY <3>1, <3>2
  <2> QED
    BY <2>6
<1>2. ASSUME S # {} PROVE Max(S) \in S /\ \A y \in S : Max(S) >= y
  BY <1>1, <1>2 DEF Max
<1>3. S # {} => Newest(S) = Max(S)
  BY DEF Newest
<1>4. ASSUME S # {}, NEW v \in S PROVE v <= Max(S) /\ Max(S) > Alert
  <2>1. Max(S) \in 1..5 /\ v \in 1..5 /\ Max(S) >= v
    BY <1>2, <1>4 DEF Versions
  <2> HIDE DEF Versions
  <2> QED
    BY <2>1 DEF Alert
<1>5. S = {} => Newest(S) = Alert
  BY DEF Newest
<1> QED
  BY <1>2, <1>3, <1>4, <1>5, Zenon

PeerInv == check \in Names /\ peer \in Peers(check)

LEMMA PeerType ==
  ASSUME PeerInv
  PROVE  /\ peer.versions \subseteq Versions /\ peer.versions # {} /\ peer.on \subseteq peer.versions
         /\ TLS13 \in peer.versions => peer.aware
         /\ check = "scsv" => peer.on \in {{}, peer.versions}
         /\ check = "groups" => \E S \in SUBSET Groups : peer.prefs \in SetToSeqs(S)
  BY DEF PeerInv, Peers

\* A server answers with a version if it speaks it.
LEMMA OnlySpoken ==
  ASSUME PeerInv, NEW v \in Versions
  PROVE  Supports(v) <=> v \in peer.versions
<1> DEFINE hello == ClientHello("version", v)
           below == {w \in peer.versions : w <= hello.legacy}
           both  == peer.versions \cap hello.supported
<1>1. /\ peer.versions \subseteq Versions
      /\ TLS13 \in peer.versions => peer.aware
  BY PeerType
<1>2. below \subseteq Versions /\ both \subseteq Versions
  BY <1>1
<1>3. hello.legacy = (IF v = TLS13 THEN TLS13 - 1 ELSE v) /\ hello.supported = (IF v = TLS13 THEN {TLS13} ELSE {})
  BY DEF ClientHello
<1>4. Negotiated(peer, hello) = IF peer.aware /\ hello.supported # {} THEN Newest(both) ELSE Newest(below)
  BY DEF Negotiated
<1>5. Supports(v) <=> Negotiated(peer, hello) = v
  BY DEF Supports
<1> HIDE DEF hello
<1>6. CASE v = TLS13
  <2>1. hello.legacy = 4 /\ hello.supported = {5} /\ v = 5
    BY <1>3, <1>6 DEF TLS13
  <2>2. Newest(below) # 5
    <3>1. 5 \notin below
      BY <2>1
    <3> HIDE DEF below
    <3> QED
      BY <1>2, <3>1, NewestOf DEF Alert
  <2>3. Newest(both) = 5 <=> 5 \in peer.versions
    <3>1. both = {5} \/ both = {}
      BY <2>1
    <3>2. 5 \in peer.versions <=> 5 \in both
      BY <2>1
    <3> HIDE DEF both
    <3> QED
      BY <1>2, <3>1, <3>2, NewestOf DEF Alert
  <2> HIDE DEF both, below
  <2> QED
    BY <1>1, <1>4, <1>5, <2>1, <2>2, <2>3 DEF TLS13
<1>7. CASE v # TLS13
  <2>1. hello.legacy = v /\ hello.supported = {}
    BY <1>3, <1>7
  <2>2. v \in below <=> v \in peer.versions
    BY <2>1 DEF Versions
  <2>3. \A w \in below : w <= v
    BY <2>1
  <2>4. v # Alert
    BY DEF Versions, Alert
  <2> HIDE DEF below
  <2>5. Newest(below) = v <=> v \in below
    <3>1. ASSUME v \in below PROVE Newest(below) = v
      <4>1. Newest(below) \in below /\ v <= Newest(below)
        BY <1>2, <3>1, NewestOf
      <4> DEFINE n == Newest(below)
      <4>2. \A w \in Versions : w \in Int
        BY DEF Versions
      <4>3. n \in Int /\ v \in Int /\ n <= v /\ v <= n
        BY <1>2, <2>3, <4>1, <4>2
      <4> HIDE DEF n
      <4>4. n = v
        BY <4>3
      <4> QED
        BY <4>4 DEF n
    <3>2. ASSUME Newest(below) = v PROVE v \in below
      BY <1>2, <2>4, <3>2, NewestOf
    <3> QED
      BY <3>1, <3>2
  <2> QED
    BY <1>4, <1>5, <2>1, <2>2, <2>5
<1> QED
  BY <1>6, <1>7

\* Every version is found, unless its connection was lost.
Detected == phase # "detect" /\ check # "caa" /\ drops = 0 => found = peer.versions

\* A walk has passed nothing.
Passed ==
  phase = "check" /\ check \in Walks /\ drops = 0 =>
    \A v \in peer.on : IF check = "dh" THEN v = TLS13 \/ v < place ELSE v >= place

\* Before the second hello of a client.
Refused == phase = "retry" => check = "client" /\ (drops = 0 => Connects(TLS13) = Alert)

Fresh == phase = "detect" => walked = <<>>

Ready == PeerInv /\ ChecksTypeOK /\ Detected /\ Passed /\ Refused /\ Fresh

ChecksInv == Ready /\ DefiniteIsTrue /\ WalksAreComplete /\ ClientAsReal

LEMMA ChecksStart == ChecksInit => ChecksInv
<1> SUFFICES ASSUME ChecksInit PROVE ChecksInv
  OBVIOUS
<1>1. PeerInv /\ phase = "detect" /\ verdict = "pending" /\ drops = 0 /\ walked = <<>> /\ found = {} /\ place = 0
  BY DEF ChecksInit, PeerInv
<1>2. ChecksTypeOK
  <2>1. walked \in Seq(Groups) /\ IsInjective(walked) /\ Len(walked) = 0
    BY <1>1 DEF IsInjective
  <2>2. 0 <= MaxGroupRounds /\ drops \in 0..MaxDrops
    BY <1>1, GroupsAssumption
  <2> QED
    BY <1>1, <2>1, <2>2 DEF ChecksTypeOK, PeerInv, Verdicts
<1>3. Detected /\ Passed /\ Refused /\ Fresh
  BY <1>1 DEF Detected, Passed, Refused, Fresh
<1>4. WalksAreComplete /\ ClientAsReal
  BY <1>1 DEF WalksAreComplete, ClientAsReal
<1>5. DefiniteIsTrue
  BY <1>1 DEF DefiniteIsTrue
<1> QED
  BY <1>1, <1>2, <1>3, <1>4, <1>5 DEF ChecksInv, Ready

LEMMA PeerStays == ASSUME PeerInv, UNCHANGED <<check, peer>> PROVE PeerInv'
  BY DEF PeerInv

LEMMA DetectKeeps == ASSUME Ready, Detect PROVE ChecksInv'
<1>1. /\ phase = "detect" /\ phase' = "check" /\ walked' = walked /\ walked = <<>>
      /\ UNCHANGED <<check, peer, verdict>> /\ verdict' = "pending"
      /\ place' = IF check = "caa" THEN 1 ELSE 6
  BY DEF Detect, Ready, Fresh, ChecksTypeOK
<1>2. PICK L \in SUBSET peer.versions :
        /\ IF NeedsNone THEN L = {} ELSE drops + Cardinality(L) <= MaxDrops
        /\ drops' = drops + Cardinality(L)
        /\ found' = {v \in Versions : Supports(v) /\ v \notin L}
  BY DEF Detect
<1>3. found' = peer.versions \ L
  <2>1. peer.versions \subseteq Versions
    BY PeerType DEF Ready
  <2>2. \A v \in Versions : Supports(v) <=> v \in peer.versions
    BY OnlySpoken DEF Ready
  <2> QED
    BY <1>2, <2>1, <2>2
<1>4. IsFiniteSet(L) /\ Cardinality(L) \in Nat /\ (Cardinality(L) = 0 => L = {})
  <2>1. IsFiniteSet(1..5)
    <3>1. 1 \in Int /\ 5 \in Int
      OBVIOUS
    <3> QED
      BY <3>1, FS_Interval, Zenon
  <2>2. L \subseteq 1..5
    BY <1>2, PeerType DEF Ready, Versions
  <2> QED
    BY <2>1, <2>2, FS_Subset, FS_CardinalityType, FS_EmptySet
<1>5. drops \in 0..MaxDrops
  BY DEF Ready, ChecksTypeOK
<1>6. drops' \in 0..MaxDrops /\ (drops' = 0 => L = {})
  <2>1. NeedsNone => Cardinality(L) = 0
    BY <1>2, FS_EmptySet
  <2> QED
    BY <1>2, <1>4, <1>5, <2>1, GroupsAssumption
<1>7. PeerInv'
  BY <1>1, PeerStays DEF Ready
<1>8. ChecksTypeOK'
  <2>1. place' \in 0..6
    BY <1>1
  <2>2. walked' \in Seq(Groups) /\ IsInjective(walked') /\ Len(walked') <= MaxGroupRounds
    BY <1>1 DEF Ready, ChecksTypeOK
  <2>3. found' \subseteq peer'.versions
    BY <1>1, <1>3
  <2> QED
    BY <1>1, <1>6, <1>7, <2>1, <2>2, <2>3 DEF ChecksTypeOK, PeerInv, Verdicts
<1>9. Detected'
  BY <1>1, <1>3, <1>6 DEF Detected
<1>10. Passed'
  <2>1. peer.on \subseteq 1..5
    BY PeerType DEF Ready, Versions
  <2>2. \A v \in peer.on : v \in Int /\ 1 <= v /\ v < 6
    BY <2>1
  <2>3. ASSUME NEW v \in peer.on PROVE IF check = "dh" THEN v < 6 ELSE v >= 1
    BY <2>2
  <2>4. check \in Walks => (check = "dh" /\ place' = 6) \/ (check = "caa" /\ place' = 1)
    BY <1>1 DEF Walks
  <2> QED
    BY <1>1, <2>3, <2>4 DEF Passed
<1>11. Refused' /\ Fresh'
  BY <1>1 DEF Refused, Fresh
<1>12. WalksAreComplete'
  <2>1. GroupsInOrder'
    BY <1>1 DEF GroupsInOrder, Ranked
  <2>2. FindsFirst'
    BY <1>1 DEF FindsFirst
  <2> QED
    BY <2>1, <2>2 DEF WalksAreComplete
<1>13. DefiniteIsTrue'
  BY <1>1 DEF DefiniteIsTrue
<1>14. ClientAsReal'
  BY <1>1 DEF ClientAsReal
<1> QED
  BY <1>7, <1>8, <1>9, <1>10, <1>11, <1>12, <1>13, <1>14 DEF ChecksInv, Ready

\* What a probe ends in.
Ends(w) == verdict' = w /\ phase' = "done" /\ UNCHANGED <<check, peer, found>>

LEMMA OnlyEnds ==
  ASSUME NEW w, Decide(w) PROVE Ends(w)
  BY DEF Decide, Ends

\* The type at the end of a check.
LEMMA EndType ==
  ASSUME Ready, NEW w \in {"true", "false", "null"}, Ends(w),
         drops' = drops \/ (drops < MaxDrops /\ drops' = drops + 1),
         place' \in 0..6, UNCHANGED walked, phase # "detect"
  PROVE  Ready' /\ phase' = "done" /\ verdict' = w /\ UNCHANGED <<check, peer, found>>
         /\ (drops' = 0 => drops = 0)
<1>1. verdict' = w /\ phase' = "done" /\ UNCHANGED <<check, peer, found>>
  BY DEF Ends
<1>2. drops' \in 0..MaxDrops /\ (drops' = 0 => drops = 0)
  BY GroupsAssumption DEF Ready, ChecksTypeOK
<1>3. ChecksTypeOK'
  BY <1>1, <1>2 DEF Ready, ChecksTypeOK, Verdicts
<1>4. PeerInv'
  BY <1>1, PeerStays DEF Ready
<1>5. Detected' /\ Passed' /\ Refused' /\ Fresh'
  BY <1>1, <1>2 DEF Ready, Detected, Passed, Refused, Fresh
<1> QED
  BY <1>1, <1>2, <1>3, <1>4, <1>5 DEF Ready

\* The versions of a server, by what is found and what is not.
LEMMA AllSpoken ==
  ASSUME PeerInv
  PROVE  {v \in Versions : Supports(v)} = peer.versions /\ {v \in peer.versions : Supports(v)} = peer.versions
<1>1. peer.versions \subseteq Versions
  BY PeerType
<1>2. \A v \in Versions : Supports(v) <=> v \in peer.versions
  BY OnlySpoken
<1> QED
  BY <1>1, <1>2

LEMMA GreatestOf ==
  ASSUME NEW S, S \subseteq Versions, S # {}
  PROVE  Max(S) \in S /\ \A v \in S : v <= Max(S)
  BY NewestOf

\* The version of a check, if there is one, was found.
LEMMA AskedFound ==
  ASSUME NEW c \in OneShot, found \subseteq Versions
  PROVE  /\ c = "scsv" /\ Asked(c) # Alert =>
              Asked(c) \in found /\ \E v \in found : Asked(c) < v
         /\ c \in {"compression", "reneg"} => Asked(c) = Newest(found \ {TLS13})
         /\ c = "heartbeat" => Asked(c) = Newest(found \ {SSL3, TLS13})
<1>1. /\ c = "scsv" => Asked(c) = IF Cardinality(found) < 2 THEN Alert ELSE Max(found \ {Max(found)})
      /\ c \in {"compression", "reneg"} => Asked(c) = Newest(found \ {TLS13})
      /\ c = "heartbeat" => Asked(c) = Newest(found \ {SSL3, TLS13})
  BY DEF Asked
<1>2. ASSUME c = "scsv", Asked(c) # Alert
      PROVE  Asked(c) \in found /\ \E v \in found : Asked(c) < v
  <2> DEFINE m    == Max(found)
             rest == found \ {m}
  <2>1. Asked(c) = Max(rest) /\ ~(Cardinality(found) < 2)
    BY <1>1, <1>2
  <2>2. found # {}
    <3>1. Cardinality({}) = 0
      BY FS_EmptySet
    <3> QED
      BY <2>1, <3>1
  <2>3. m \in found /\ \A v \in found : v <= m
    BY <2>2, GreatestOf
  <2>4. rest # {}
    <3>1. Cardinality({m}) = 1
      BY FS_Singleton
    <3>2. rest = {} => found = {m}
      BY <2>3
    <3> HIDE DEF m, rest
    <3> QED
      BY <2>1, <3>1, <3>2
  <2> HIDE DEF m
  <2>5. Max(rest) \in rest
    BY <2>4, GreatestOf
  <2>6. Max(rest) \in found /\ Max(rest) <= m /\ Max(rest) # m
    BY <2>3, <2>5
  <2> HIDE DEF rest
  <2>7. Max(rest) \in Int /\ m \in Int
    <3>1. \A x \in found : x \in Int
      BY DEF Versions
    <3> QED
      BY <2>3, <2>6, <3>1
  <2>8. Max(rest) < m
    BY <2>6, <2>7
  <2> QED
    BY <2>1, <2>3, <2>6, <2>8
<1> QED
  BY <1>1, <1>2

\* What the server says to a check.
LEMMA AnswerOf ==
  ASSUME PeerInv, NEW c \in OneShot, NEW v \in Versions
  PROVE  /\ c = "scsv" /\ peer.on # {} /\ v # TLS13 /\ v < Max(peer.versions) => Answer(c, v) = Fallback
         /\ c # "scsv" \/ peer.on = {} => Answer(c, v) \in 0..5
         /\ c = "nosni" /\ v \notin peer.on => Answer(c, v) = Alert
<1> DEFINE hello == ClientHello(c, v)
           below == {w \in peer.versions : w <= hello.legacy}
           both  == peer.versions \cap hello.supported
<1>1. /\ hello.fallback <=> c = "scsv"
      /\ hello.named <=> c # "nosni"
      /\ v # TLS13 => hello.legacy = v
  BY DEF ClientHello
<1>2. Negotiated(peer, hello) \in 0..5
  <2>1. below \subseteq Versions /\ both \subseteq Versions
    BY PeerType
  <2>2. Negotiated(peer, hello) = IF peer.aware /\ hello.supported # {} THEN Newest(both) ELSE Newest(below)
    BY DEF Negotiated
  <2> HIDE DEF below, both
  <2>3. ASSUME NEW S, S \subseteq Versions PROVE Newest(S) \in 0..5
    <3>1. Newest(S) = 0 \/ Newest(S) \in 1..5
      BY <2>3, NewestOf DEF Alert, Versions
    <3> QED
      BY <3>1
  <2> QED
    BY <2>1, <2>2, <2>3
<1> DEFINE warned  == hello.fallback /\ peer.on # {} /\ hello.legacy < Max(peer.versions)
           unnamed == ~hello.named /\ v \notin peer.on
<1>3. Answer(c, v) = CASE warned -> Fallback [] unnamed -> Alert [] OTHER -> Negotiated(peer, hello)
  BY DEF Answer
<1>4. /\ c = "scsv" /\ peer.on # {} /\ v # TLS13 /\ v < Max(peer.versions) => warned
      /\ c # "scsv" \/ peer.on = {} => ~warned
      /\ c = "nosni" /\ v \notin peer.on => unnamed /\ ~warned
      /\ warned => ~unnamed
  BY <1>1
<1> HIDE DEF warned, unnamed, hello
<1>5. warned => Answer(c, v) = Fallback
  BY <1>3, <1>4
<1>6. ~warned => Answer(c, v) = Alert \/ Answer(c, v) = Negotiated(peer, hello)
  BY <1>3
<1>7. ~warned /\ unnamed => Answer(c, v) = Alert
  BY <1>3
<1>8. Alert \in 0..5
  BY DEF Alert
<1> QED
  BY <1>2, <1>4, <1>5, <1>6, <1>7, <1>8

\* The verdict of one connection.
LEMMA JudgedOf ==
  ASSUME NEW c \in OneShot, NEW v, NEW r \in Int
  PROVE  /\ Judged(c, v, r) \in {"true", "false", "null"}
         /\ c = "scsv" => /\ Judged(c, v, r) = "true" => r = Fallback
                          /\ Judged(c, v, r) = "false" => r # Fallback /\ r # Lost
         /\ c = "nosni" /\ Judged(c, v, r) = "false" => r > Alert
         /\ c \notin {"scsv", "nosni"} /\ r # Fallback =>
              /\ Judged(c, v, r) = "true" => v \in peer.on
              /\ Judged(c, v, r) = "false" => v \notin peer.on
<1>1. c = "nosni" => Judged(c, v, r) = IF r > Alert THEN "false" ELSE "true"
  BY DEF Judged
<1>2. ASSUME c # "nosni"
      PROVE  /\ r = Fallback => Judged(c, v, r) = "true"
             /\ r # Fallback /\ r \in {Lost, Alert} => Judged(c, v, r) = "null"
             /\ r # Fallback /\ r \notin {Lost, Alert} =>
                  Judged(c, v, r) = IF c # "scsv" /\ v \in peer.on THEN "true" ELSE "false"
  BY <1>2 DEF Judged, Lost, Alert, Fallback
<1>3. CASE c = "nosni"
  BY <1>1, <1>3
<1>4. CASE c # "nosni"
  <2>1. CASE r = Fallback
    BY <1>2, <1>4, <2>1
  <2>2. CASE r # Fallback /\ r \in {Lost, Alert}
    BY <1>2, <1>4, <2>2
  <2>3. CASE r # Fallback /\ r \notin {Lost, Alert}
    BY <1>2, <1>4, <2>3
  <2> QED
    BY <2>1, <2>2, <2>3
<1> QED
  BY <1>3, <1>4

\* No version to ask at.
LEMMA UnaskedTrue ==
  ASSUME Ready, check \in OneShot, Asked(check) = Alert, Ends(Unasked(check))
  PROVE  DefiniteIsTrue'
<1>1. /\ verdict' = IF check \in {"compression", "heartbeat"} THEN "false" ELSE "null"
      /\ UNCHANGED <<check, peer, found>>
  BY DEF Ends, Unasked
<1>2. {v \in Versions : Supports(v)} = peer.versions /\ {v \in peer.versions : Supports(v)} = peer.versions
  BY AllSpoken DEF Ready
<1>3. peer.versions \subseteq Versions /\ found \subseteq peer.versions
  BY PeerType DEF Ready, ChecksTypeOK
<1> DEFINE X == IF check = "heartbeat" THEN {SSL3, TLS13} ELSE {TLS13}
           S == {v \in Versions : Supports(v)} \ X
<1>4. ASSUME check \in {"compression", "heartbeat"}
      PROVE  S = {} \/ Max(S) \in Undetected
  <2>1. Newest(found \ X) = Alert
    BY <1>3, <1>4, AskedFound
  <2>2. found \ X = {}
    <3> DEFINE T == found \ X
    <3>1. T \subseteq Versions
      BY <1>3
    <3>2. Newest(T) = 0
      BY <2>1 DEF Alert
    <3> HIDE DEF T, X
    <3> QED
      BY <3>1, <3>2, NewestOf DEF Alert, T
  <2>3. S = peer.versions \ X
    BY <1>2
  <2>4. S \subseteq Versions
    BY <1>3, <2>3
  <2> HIDE DEF S, X
  <2>5. S # {} => Max(S) \in S
    BY <2>4, GreatestOf
  <2> QED
    BY <1>2, <2>2, <2>3, <2>5 DEF Undetected
<1> HIDE DEF S
<1>5. verdict' = "false" => check \in {"compression", "heartbeat"}
  BY <1>1
<1>6. verdict' # "true"
  BY <1>1
<1>7. S' = S /\ Undetected' = Undetected
  BY <1>1 DEF S, Undetected, Supports
<1> QED
  BY <1>1, <1>4, <1>5, <1>6, <1>7 DEF DefiniteIsTrue, S

\* A verdict on what was asked.
LEMMA AskedTrue ==
  ASSUME Ready, check \in OneShot, Asked(check) # Alert, UNCHANGED <<check, peer, found>>,
         NEW r \in {Answer(check, Asked(check)), Lost}, verdict' = Judged(check, Asked(check), r)
  PROVE  DefiniteIsTrue'
<1> DEFINE v == Asked(check)
           X == IF check = "heartbeat" THEN {SSL3, TLS13} ELSE {TLS13}
           S == {u \in Versions : Supports(u)} \ X
<1>1. peer.versions \subseteq Versions /\ found \subseteq peer.versions
  BY PeerType DEF Ready, ChecksTypeOK
<1>2. v \in Versions /\ (check \in {"compression", "heartbeat", "reneg"} =>
                           v \in found \ X /\ \A u \in found \ X : u <= v)
  <2>1. found \subseteq Versions
    BY <1>1
  <2>2. CASE check = "scsv"
    BY <2>1, <2>2, AskedFound
  <2>3. CASE check \in {"compression", "heartbeat", "reneg"}
    <3> DEFINE T == found \ X
    <3>1. v = Newest(T) /\ T \subseteq Versions
      BY <2>1, <2>3, AskedFound
    <3> HIDE DEF X, T
    <3>2. T # {}
      BY <3>1, NewestOf
    <3>3. v \in T /\ \A u \in T : u <= v
      BY <3>1, <3>2, NewestOf
    <3> QED
      BY <2>1, <3>3 DEF T
  <2>4. CASE check = "nosni"
    <3>1. v = IF TLS13 \in found THEN TLS13 ELSE Newest(found \ {SSL3})
      BY <2>4 DEF Asked
    <3>2. found \ {SSL3} \subseteq Versions
      BY <2>1
    <3>3. TLS13 \in found => v \in found
      BY <3>1
    <3>4. TLS13 \notin found => v = Newest(found \ {SSL3})
      BY <3>1
    <3>5. TLS13 \notin found => v \in found \ {SSL3}
      <4>1. found \ {SSL3} = {} => Newest(found \ {SSL3}) = Alert
        BY <3>2, NewestOf
      <4>2. found \ {SSL3} # {} => Newest(found \ {SSL3}) \in found \ {SSL3}
        BY <3>2, NewestOf
      <4> QED
        BY <3>4, <4>1, <4>2
    <3> QED
      BY <2>1, <2>4, <3>3, <3>5
  <2> QED
    BY <2>2, <2>3, <2>4 DEF OneShot
<1>3. r \in Int /\ (check # "scsv" => r # Fallback) /\ (check = "scsv" /\ peer.on = {} => r # Fallback)
  <2>1. check # "scsv" \/ peer.on = {} => Answer(check, v) \in 0..5
    BY <1>2, AnswerOf DEF Ready
  <2>2. Answer(check, v) \in Int
    <3>1. CASE check = "scsv" /\ peer.on # {}
      <4>1. v # TLS13 /\ v < Max(peer.versions)
        <5>1. PICK u \in found : v < u
          BY <1>1, <3>1, AskedFound
        <5>2. u <= Max(peer.versions) /\ Max(peer.versions) \in peer.versions
          BY <1>1, GreatestOf
        <5>3. v \in Int /\ u \in 1..5 /\ Max(peer.versions) \in 1..5
          BY <1>1, <1>2, <5>2 DEF Versions
        <5> HIDE DEF v
        <5> QED
          BY <5>1, <5>2, <5>3 DEF TLS13
      <4> QED
        BY <1>2, <3>1, <4>1, AnswerOf DEF Ready, Fallback
    <3> QED
      BY <2>1, <3>1
  <2> QED
    BY <2>1, <2>2 DEF Lost, Fallback
<1>4. /\ check = "scsv" => /\ verdict' = "true" => r = Fallback
                           /\ verdict' = "false" => r # Fallback /\ r # Lost
      /\ check = "nosni" /\ verdict' = "false" => r > Alert
      /\ check \notin {"scsv", "nosni"} =>
           /\ verdict' = "true" => v \in peer.on
           /\ verdict' = "false" => v \notin peer.on
  BY <1>3, JudgedOf
<1>5. S = peer.versions \ X /\ Undetected = peer.versions \ found
  BY AllSpoken DEF Ready, Undetected
<1>6. S' = S /\ Undetected' = Undetected
  BY DEF Undetected, Supports
<1>7. CASE check = "scsv"
  <2>1. verdict' = "false" => peer.on = {}
    <3>1. SUFFICES ASSUME verdict' = "false", peer.on # {} PROVE FALSE
      OBVIOUS
    <3>2. r = Answer(check, v)
      BY <1>4, <1>7, <3>1
    <3>3. v # TLS13 /\ v < Max(peer.versions)
      <4>1. PICK u \in found : v < u
        BY <1>1, <1>7, AskedFound
      <4>2. u <= Max(peer.versions) /\ Max(peer.versions) \in peer.versions
        BY <1>1, GreatestOf
      <4>3. v \in Int /\ u \in 1..5 /\ Max(peer.versions) \in 1..5
        BY <1>1, <1>2, <4>2 DEF Versions
      <4> HIDE DEF v
      <4> QED
        BY <4>1, <4>2, <4>3 DEF TLS13
    <3> QED
      BY <1>2, <1>4, <1>7, <3>1, <3>2, <3>3, AnswerOf DEF Ready
  <2>2. verdict' = "true" => peer.on # {}
    BY <1>3, <1>4, <1>7
  <2> QED
    BY <1>7, <2>1, <2>2 DEF DefiniteIsTrue
<1>8. CASE check = "nosni"
  <2>1. ASSUME verdict' = "false" PROVE v \in peer.on
    <3>1. r > Alert
      BY <1>4, <1>8, <2>1
    <3>2. r = Answer(check, v) /\ r # Alert
      BY <1>3, <3>1 DEF Lost, Alert
    <3> QED
      BY <1>2, <1>8, <3>2, AnswerOf DEF Ready
  <2> QED
    BY <1>8, <2>1 DEF DefiniteIsTrue
<1>9. CASE check \notin {"scsv", "nosni"}
  <2>1. v \in found \ X /\ \A u \in found \ X : u <= v
    BY <1>2, <1>9 DEF OneShot
  <2>2. verdict' = "true" => peer.on # {}
    BY <1>4, <1>9
  <2>3. ASSUME verdict' = "false" PROVE S = {} \/ Max(S) \in Undetected \/ Max(S) \notin peer.on
    <3>1. S \subseteq Versions
      BY <1>1, <1>5
    <3> HIDE DEF S
    <3>2. SUFFICES ASSUME S # {}, Max(S) \notin Undetected PROVE Max(S) \notin peer.on
      OBVIOUS
    <3>3. Max(S) \in S /\ \A u \in S : u <= Max(S)
      BY <3>1, <3>2, GreatestOf
    <3>4. Max(S) \in found \ X /\ v \in S
      BY <1>1, <1>5, <2>1, <3>2, <3>3
    <3>5. Max(S) <= v /\ v <= Max(S)
      BY <2>1, <3>3, <3>4
    <3>6. Max(S) = v
      <4> DEFINE m == Max(S)
      <4>1. \A u \in Versions : u \in Int
        BY DEF Versions
      <4>2. m \in Int /\ v \in Int
        BY <1>2, <3>1, <3>3, <4>1
      <4> HIDE DEF v, m
      <4>3. m <= v /\ v <= m
        BY <3>5 DEF m
      <4>4. m = v
        BY <4>2, <4>3
      <4> QED
        BY <4>4 DEF m
    <3> QED
      BY <1>4, <1>9, <2>3, <3>6
  <2> HIDE DEF S, X, v
  <2> QED
    BY <1>6, <1>9, <2>2, <2>3 DEF DefiniteIsTrue, S, X
<1> QED
  BY <1>7, <1>8, <1>9

LEMMA AskKeeps == ASSUME Ready, Ask PROVE ChecksInv'
<1> DEFINE v == Asked(check)
           a == Answer(check, v)
<1>1. /\ phase = "check" /\ check \in OneShot
      /\ UNCHANGED <<place, walked>>
  BY DEF Ask
<1>2. \/ v = Alert /\ Decide(Unasked(check)) /\ UNCHANGED drops
      \/ v # Alert /\ drops' = drops /\ Decide(Judged(check, v, a))
      \/ v # Alert /\ drops < MaxDrops /\ drops' = drops + 1 /\ Decide(Judged(check, v, Lost))
  BY DEF Ask, Probed
<1>3. PICK w \in {"true", "false", "null"} : Ends(w) /\ DefiniteIsTrue'
  <2>1. CASE v = Alert
    <3>1. Ends(Unasked(check))
      BY <1>2, <2>1, OnlyEnds
    <3>2. DefiniteIsTrue'
      BY <1>1, <2>1, <3>1, UnaskedTrue
    <3>3. Unasked(check) \in {"true", "false", "null"}
      BY DEF Unasked
    <3> QED
      BY <3>1, <3>2, <3>3
  <2>2. CASE v # Alert
    <3>1. PICK r \in {a, Lost} : Decide(Judged(check, v, r))
      BY <1>2, <2>2
    <3>2. Ends(Judged(check, v, r))
      BY <3>1, OnlyEnds
    <3>3. UNCHANGED <<check, peer, found>> /\ verdict' = Judged(check, v, r)
      BY <3>2 DEF Ends
    <3>4. DefiniteIsTrue'
      BY <1>1, <2>2, <3>3, AskedTrue
    <3>5. Judged(check, v, r) \in {"true", "false", "null"}
      <4>1. CASE check = "nosni"
        BY <4>1 DEF Judged
      <4>2. CASE check # "nosni"
        BY <4>2 DEF Judged
      <4> QED
        BY <4>1, <4>2
    <3> QED
      BY <3>2, <3>4, <3>5
  <2> QED
    BY <2>1, <2>2
<1>4. Ready' /\ phase' = "done" /\ check' = check
  <2>1. drops' = drops \/ (drops < MaxDrops /\ drops' = drops + 1)
    BY <1>2
  <2>2. place' \in 0..6
    BY <1>1 DEF Ready, ChecksTypeOK
  <2> QED
    BY <1>1, <1>3, <2>1, <2>2, EndType
<1>5. WalksAreComplete' /\ ClientAsReal'
  <2>1. check' \notin Walks /\ check' \notin {"groups", "client", "oldclient"}
    BY <1>1, <1>4 DEF OneShot, Walks
  <2> QED
    BY <2>1 DEF WalksAreComplete, ClientAsReal
<1> QED
  BY <1>3, <1>4, <1>5 DEF ChecksInv

\* The least and the greatest of some versions, by what they are.
LEMMA Extremes ==
  ASSUME NEW S, S \subseteq Versions, NEW v \in S
  PROVE  /\ (\A u \in S : u <= v) => Max(S) = v
         /\ (\A u \in S : v <= u) => Min(S) = v
<1>1. \A u \in Versions : u \in Nat
  BY DEF Versions
<1>2. Max(S) \in S /\ \A u \in S : u <= Max(S)
  BY GreatestOf
<1>3. Min(S) \in S /\ \A u \in S : Min(S) <= u
  <2>1. S \subseteq Nat
    BY <1>1
  <2> QED
    BY <2>1, LeastOf
<1> DEFINE m == Max(S)
           l == Min(S)
<1>4. m \in Nat /\ l \in Nat /\ v \in Nat
  BY <1>1, <1>2, <1>3
<1>5. m \in S /\ l \in S /\ v <= m /\ l <= v
  BY <1>2, <1>3
<1> HIDE DEF m, l
<1>6. (\A u \in S : u <= v) => m = v
  BY <1>4, <1>5
<1>7. (\A u \in S : v <= u) => l = v
  BY <1>4, <1>5
<1> QED
  BY <1>6, <1>7 DEF m, l

\* The next step of a walk.
LEMMA StepIs ==
  ASSUME Ready, check \in Walks
  PROVE  /\ StepsOf \subseteq Versions
         /\ StepsOf = {} => Step = Alert
         /\ StepsOf # {} => /\ Step \in StepsOf /\ Step # Alert
                            /\ check = "dh" => \A v \in StepsOf : v <= Step
                            /\ check = "caa" => \A v \in StepsOf : Step <= v
<1>1. StepsOf \subseteq Versions
  <2>1. found \subseteq Versions
    BY PeerType DEF Ready, ChecksTypeOK
  <2> QED
    BY <2>1 DEF StepsOf
<1>2. StepsOf \subseteq Nat
  BY <1>1 DEF Versions
<1>3. Step = IF StepsOf = {} THEN Alert ELSE IF check = "dh" THEN Max(StepsOf) ELSE Min(StepsOf)
  BY DEF Step
<1>4. ASSUME StepsOf # {}, check = "dh"
      PROVE  Step \in StepsOf /\ \A v \in StepsOf : v <= Step
  BY <1>1, <1>3, <1>4, GreatestOf
<1>5. ASSUME StepsOf # {}, check = "caa"
      PROVE  Step \in StepsOf /\ \A v \in StepsOf : Step <= v
  BY <1>2, <1>3, <1>5, LeastOf
<1>6. \A v \in Versions : v # Alert
  BY DEF Versions, Alert
<1> QED
  BY <1>1, <1>3, <1>4, <1>5, <1>6 DEF Walks

\* Nothing left to ask: a walk that lost nothing has asked everywhere.
LEMMA WalkOver ==
  ASSUME Ready, phase = "check", check \in Walks, StepsOf = {}, drops = 0
  PROVE  peer.on \ (IF check = "dh" THEN {TLS13} ELSE {Max(peer.versions)}) = {}
<1>1. /\ \A v \in peer.on : IF check = "dh" THEN v = TLS13 \/ v < place ELSE v >= place
      /\ check = "dh" => found = peer.versions
  BY DEF Ready, Passed, Detected
<1>2. peer.on \subseteq peer.versions /\ peer.versions \subseteq Versions
  BY PeerType DEF Ready
<1>3. CASE check = "dh"
  <2>1. StepsOf = {v \in found \ {TLS13} : v < place}
    BY <1>3 DEF StepsOf
  <2> QED
    BY <1>1, <1>2, <1>3, <2>1
<1>4. CASE check = "caa"
  <2>1. StepsOf = {l \in Versions : l >= place /\ l < Max(peer.versions)}
    BY <1>4 DEF StepsOf
  <2>2. \A v \in peer.on : v <= Max(peer.versions) /\ v \in Versions
    BY <1>2, GreatestOf
  <2>3. Max(peer.versions) \in Versions \/ peer.on = {}
    BY <1>2, GreatestOf
  <2> DEFINE m == Max(peer.versions)
  <2>4. \A v \in peer.on : ~(v < m)
    BY <1>1, <1>4, <2>1, <2>2
  <2>5. \A v \in Versions : v \in Int
    BY DEF Versions
  <2> HIDE DEF m
  <2>6. ASSUME NEW v \in peer.on PROVE v = m
    <3>1. v \in Int /\ m \in Int /\ v <= m /\ ~(v < m)
      BY <2>2, <2>3, <2>4, <2>5 DEF m
    <3> QED
      BY <3>1
  <2> QED
    BY <1>4, <2>6 DEF m
<1> QED
  BY <1>3, <1>4 DEF Walks

\* The step that a walk which lost nothing finds something at is the first.
LEMMA WalkFinds ==
  ASSUME Ready, phase = "check", check \in Walks, StepsOf # {}, Step \in peer.on, drops = 0
  PROVE  LET S == peer.on \ (IF check = "dh" THEN {TLS13} ELSE {Max(peer.versions)})
         IN S # {} /\ Step = IF check = "dh" THEN Max(S) ELSE Min(S)
<1> DEFINE S == peer.on \ (IF check = "dh" THEN {TLS13} ELSE {Max(peer.versions)})
<1>1. /\ \A v \in peer.on : IF check = "dh" THEN v = TLS13 \/ v < place ELSE v >= place
      /\ check = "dh" => found = peer.versions
  BY DEF Ready, Passed, Detected
<1>2. peer.on \subseteq peer.versions /\ peer.versions \subseteq Versions
  BY PeerType DEF Ready
<1>3. S \subseteq Versions
  BY <1>2
<1>4. Step \in StepsOf
  BY StepIs
<1>5. CASE check = "dh"
  <2>1. StepsOf = {v \in found \ {TLS13} : v < place}
    BY <1>5 DEF StepsOf
  <2>2. S = peer.on \ {TLS13}
    BY <1>5
  <2>3. Step \in S
    BY <1>4, <2>1, <2>2
  <2>4. S \subseteq StepsOf
    BY <1>1, <1>2, <1>5, <2>1, <2>2
  <2> HIDE DEF S
  <2>5. \A u \in S : u <= Step
    BY <1>5, <2>4, StepIs
  <2>6. Max(S) = Step
    BY <1>3, <2>3, <2>5, Extremes
  <2> QED
    BY <1>5, <2>3, <2>6 DEF S
<1>6. CASE check = "caa"
  <2>1. StepsOf = {l \in Versions : l >= place /\ l < Max(peer.versions)}
    BY <1>6 DEF StepsOf
  <2> DEFINE m == Max(peer.versions)
  <2>2. S = peer.on \ {m}
    BY <1>6
  <2>3. m \in peer.versions /\ \A u \in peer.versions : u <= m
    BY <1>2, <1>4, GreatestOf
  <2>4. \A u \in Versions : u \in Int
    BY DEF Versions
  <2> HIDE DEF m
  <2>5. Step \in Versions /\ Step < m
    BY <1>4, <2>1 DEF m
  <2>6. Step # m
    BY <2>4, <2>5
  <2>7. Step \in S
    BY <2>2, <2>6
  <2>8. S \subseteq StepsOf
    <3>1. ASSUME NEW u \in S PROVE u >= place /\ u < m /\ u \in Versions
      <4>1. u \in peer.on /\ u # m /\ u \in Versions /\ u <= m
        BY <1>2, <2>2, <2>3
      <4>2. u \in Int /\ m \in Int
        BY <1>2, <2>3, <2>4, <4>1
      <4>3. u < m
        BY <4>1, <4>2
      <4> QED
        BY <1>1, <1>6, <4>1, <4>3
    <3> QED
      BY <2>1, <3>1 DEF m
  <2> HIDE DEF S
  <2>9. \A u \in S : Step <= u
    BY <1>6, <2>8, StepIs
  <2>10. Min(S) = Step
    BY <1>3, <2>7, <2>9, Extremes
  <2> QED
    BY <1>6, <2>7, <2>10 DEF S
<1> QED
  BY <1>5, <1>6 DEF Walks

LEMMA WalkKeepsOn ==
  ASSUME Ready, phase = "check", check \in Walks, StepsOf # {}, Step \notin peer.on \/ drops' > drops,
         place' = (IF check = "dh" THEN Step ELSE Step + 1),
         UNCHANGED <<check, peer, found, phase, verdict, walked>>,
         drops' = drops \/ (drops < MaxDrops /\ drops' = drops + 1)
  PROVE  ChecksInv'
<1>1. Step \in StepsOf /\ StepsOf \subseteq Versions
  BY StepIs
<1>2. drops \in 0..MaxDrops /\ drops' \in 0..MaxDrops /\ (drops' = 0 => drops' = drops)
  BY GroupsAssumption DEF Ready, ChecksTypeOK
<1>3. \A u \in Versions : u \in Int /\ u \in 0..6 /\ u + 1 \in 0..6
  BY DEF Versions
<1>4. ChecksTypeOK'
  <2>1. place' \in 0..6
    BY <1>1, <1>3
  <2> QED
    BY <1>2, <2>1 DEF Ready, ChecksTypeOK
<1>5. PeerInv'
  BY PeerStays DEF Ready
<1>6. Passed'
  <2>1. SUFFICES ASSUME drops' = 0, NEW v \in peer.on
                 PROVE  IF check = "dh" THEN v = TLS13 \/ v < place' ELSE v >= place'
    BY DEF Passed
  <2>2. IF check = "dh" THEN v = TLS13 \/ v < place ELSE v >= place
    BY <1>2, <2>1 DEF Ready, Passed
  <2>3. v # Step /\ v \in peer.versions /\ v \in Versions
    BY <1>2, <2>1, PeerType DEF Ready
  <2>4. v \in Int /\ Step \in Int
    BY <1>1, <1>3, <2>3
  <2>5. CASE check = "dh"
    <3>1. found = peer.versions
      BY <1>2, <2>1, <2>5 DEF Ready, Detected
    <3>2. v = TLS13 \/ v \in StepsOf
      BY <2>2, <2>3, <2>5, <3>1 DEF StepsOf
    <3>3. v = TLS13 \/ v <= Step
      BY <2>5, <3>2, StepIs
    <3>4. v = TLS13 \/ v < Step
      BY <2>3, <2>4, <3>3
    <3> QED
      BY <2>5, <3>4
  <2>6. CASE check = "caa"
    <3> DEFINE m == Max(peer.versions)
    <3>1. Step < m /\ m \in Versions
      <4>1. Step < m
        BY <1>1, <2>6 DEF StepsOf
      <4>2. m \in Versions
        BY <2>3, PeerType, GreatestOf DEF Ready
      <4> QED
        BY <4>1, <4>2
    <3>2. v < m => v \in StepsOf
      BY <2>2, <2>3, <2>6 DEF StepsOf
    <3>3. v < m => Step <= v
      BY <2>6, <3>2, StepIs
    <3>4. m \in Int
      BY <1>3, <3>1
    <3> HIDE DEF m
    <3>5. v >= Step + 1
      BY <2>3, <2>4, <3>1, <3>3, <3>4
    <3> QED
      BY <2>6, <3>5
  <2> QED
    BY <2>5, <2>6 DEF Walks
<1>7. Detected' /\ Refused' /\ Fresh'
  BY <1>2 DEF Ready, Detected, Refused, Fresh
<1>8. Ready' /\ phase' # "done" /\ check' # "groups"
  BY <1>4, <1>5, <1>6, <1>7 DEF Ready, Walks
<1>9. verdict' = "pending"
  BY <1>8 DEF Ready, ChecksTypeOK
<1>10. FindsFirst'
  BY <1>8, <1>9 DEF FindsFirst
<1>11. DefiniteIsTrue' /\ ClientAsReal'
  BY <1>8, <1>9 DEF DefiniteIsTrue, ClientAsReal
<1>12. WalksAreComplete'
  BY <1>8, <1>10 DEF WalksAreComplete
<1> QED
  BY <1>8, <1>11, <1>12 DEF ChecksInv

LEMMA WalkEnds ==
  ASSUME Ready', phase' = "done", check' \in Walks, FindsFirst'
  PROVE  ChecksInv'
<1>1. check' \notin OneShot /\ check' \notin {"groups", "client", "oldclient"}
  BY DEF OneShot, Walks
<1> QED
  BY <1>1 DEF ChecksInv, DefiniteIsTrue, ClientAsReal, WalksAreComplete

LEMMA WalkStepKeeps == ASSUME Ready, Walk PROVE ChecksInv'
<1>1. phase = "check" /\ check \in Walks /\ UNCHANGED walked
  BY DEF Walk
<1>2. \/ Step = Alert /\ Decide("null") /\ UNCHANGED <<drops, place>>
      \/ /\ Step # Alert /\ drops' = drops /\ Step > Alert /\ Step \in peer.on
         /\ Decide("true") /\ place' = Step
      \/ /\ Step # Alert
         /\ Step \notin peer.on \/ drops' > drops
         /\ drops' = drops \/ (drops < MaxDrops /\ drops' = drops + 1)
         /\ place' = (IF check = "dh" THEN Step ELSE Step + 1)
         /\ UNCHANGED <<check, peer, found, phase, verdict>>
  <2>1. CASE Step = Alert
    BY <2>1 DEF Walk
  <2>2. CASE Step # Alert
    <3>1. Step > Alert /\ drops \in Nat
      <4>1. StepsOf # {}
        BY <1>1, <2>2, StepIs
      <4>2. Step \in Versions
        BY <1>1, <4>1, StepIs
      <4>3. \A u \in Versions : u > Alert
        BY DEF Versions, Alert
      <4>4. drops \in Nat
        BY GroupsAssumption DEF Ready, ChecksTypeOK
      <4> QED
        BY <4>2, <4>3, <4>4
    <3>2. \/ /\ drops' = drops
             /\ IF Step > Alert /\ Step \in peer.on
                  THEN Decide("true") /\ place' = Step
                  ELSE /\ place' = IF check = "dh" THEN Step ELSE Step + 1
                       /\ UNCHANGED <<check, peer, found, phase, verdict>>
          \/ /\ drops < MaxDrops /\ drops' = drops + 1
             /\ IF Lost > Alert /\ Step \in peer.on
                  THEN Decide("true") /\ place' = Step
                  ELSE /\ place' = IF check = "dh" THEN Step ELSE Step + 1
                       /\ UNCHANGED <<check, peer, found, phase, verdict>>
      BY <2>2 DEF Walk, Probed
    <3>3. ~(Lost > Alert)
      BY DEF Lost, Alert
    <3>4. drops' = drops + 1 => drops' > drops
      BY <3>1
    <3> QED
      BY <2>2, <3>1, <3>2, <3>3, <3>4
  <2> QED
    BY <2>1, <2>2
<1>3. CASE Step = Alert /\ Decide("null") /\ UNCHANGED <<drops, place>>
  <2>1. StepsOf = {}
    BY <1>1, <1>3, StepIs
  <2>2. Ready' /\ phase' = "done" /\ verdict' = "null" /\ UNCHANGED <<check, peer, found>>
    <3>1. Ends("null") /\ place' \in 0..6
      BY <1>3, OnlyEnds DEF Ready, ChecksTypeOK
    <3> QED
      BY <1>1, <1>3, <3>1, EndType
  <2>3. FindsFirst'
    <3>1. drops' = 0 => peer.on \ (IF check = "dh" THEN {TLS13} ELSE {Max(peer.versions)}) = {}
      BY <1>1, <1>3, <2>1, WalkOver
    <3> QED
      BY <2>2, <3>1 DEF FindsFirst
  <2> QED
    BY <1>1, <2>2, <2>3, WalkEnds
<1>4. CASE /\ Step # Alert /\ drops' = drops /\ Step > Alert /\ Step \in peer.on
           /\ Decide("true") /\ place' = Step
  <2>1. StepsOf # {}
    BY <1>1, <1>4, StepIs
  <2>2. Ready' /\ phase' = "done" /\ verdict' = "true" /\ UNCHANGED <<check, peer, found>>
    <3>1. Ends("true")
      BY <1>4, OnlyEnds
    <3>2. place' \in 0..6
      <4>1. Step \in Versions
        BY <1>1, <2>1, StepIs
      <4> QED
        BY <1>4, <4>1 DEF Versions
    <3> QED
      BY <1>1, <1>4, <3>1, <3>2, EndType
  <2>3. FindsFirst'
    <3> DEFINE S == peer.on \ (IF check = "dh" THEN {TLS13} ELSE {Max(peer.versions)})
    <3>1. drops = 0 => S # {} /\ Step = IF check = "dh" THEN Max(S) ELSE Min(S)
      BY <1>1, <1>4, <2>1, WalkFinds
    <3>2. S' = S
      BY <2>2
    <3> HIDE DEF S
    <3>3. /\ verdict' = "true" => place' \in peer'.on
          /\ phase' = "done" /\ drops' = 0 =>
               IF S' = {} THEN verdict' = "null"
               ELSE verdict' = "true" /\ place' = IF check' = "dh" THEN Max(S') ELSE Min(S')
      BY <1>4, <2>2, <3>1, <3>2
    <3> QED
      BY <3>3 DEF FindsFirst, S
  <2> QED
    BY <1>1, <2>2, <2>3, WalkEnds
<1>5. CASE /\ Step # Alert
           /\ Step \notin peer.on \/ drops' > drops
           /\ drops' = drops \/ (drops < MaxDrops /\ drops' = drops + 1)
           /\ place' = (IF check = "dh" THEN Step ELSE Step + 1)
           /\ UNCHANGED <<check, peer, found, phase, verdict>>
  <2>1. StepsOf # {}
    BY <1>1, <1>5, StepIs
  <2> QED
    BY <1>1, <1>5, <2>1, WalkKeepsOn
<1> QED
  BY <1>2, <1>3, <1>4, <1>5

\* Everything that a server shares is offered until it is walked.
LEMMA SharedOffered ==
  ASSUME Ready, check = "groups"
  PROVE  /\ Shared \subseteq Nat
         /\ Offered \subseteq Groups \ ToSet(walked)
         /\ \A i \in Shared : peer.prefs[i] \in Offered \/ peer.prefs[i] \in ToSet(walked)
<1>1. PICK S \in SUBSET Groups : peer.prefs \in SetToSeqs(S)
  BY PeerType DEF Ready
<1>2. peer.prefs \in [1..Cardinality(S) -> S]
  BY <1>1 DEF SetToSeqs
<1>3. DOMAIN peer.prefs \subseteq Nat /\ \A i \in DOMAIN peer.prefs : peer.prefs[i] \in Groups
  <2>1. 1..Cardinality(S) \subseteq Nat
    OBVIOUS
  <2> QED
    BY <1>2, <2>1
<1>4. \A i \in Shared : i \in DOMAIN peer.prefs /\ Accepted(peer.prefs[i])
  BY DEF Shared
<1>5. \A g \in Groups : Accepted(g) => g \in Offered \/ g \in ToSet(walked)
  BY DEF Accepted, Offered
<1>6. Offered \subseteq Groups \ ToSet(walked)
  BY DEF Offered
<1> QED
  BY <1>3, <1>4, <1>5, <1>6

\* The group named, if it was offered, comes after exactly those walked.
LEMMA NamedNext ==
  ASSUME Ready, check = "groups", Ranked, Named \in Offered
  PROVE  \E i \in Shared : /\ Named = peer.prefs[i]
                           /\ ToSet(walked) = Preferred(i)
<1> DEFINE open == {i \in Shared : peer.stubborn \/ peer.prefs[i] \in Offered}
           m == Min(open)
<1>1. Named = IF open = {} THEN Alert ELSE peer.prefs[m]
  BY DEF Named
<1>2. Alert \notin Offered
  <2>1. Alert \notin Groups
    BY GroupsAssumption DEF Groups, Alert
  <2> QED
    BY <2>1, SharedOffered
<1>3. open # {}
  BY <1>1, <1>2
<1>4. open \subseteq Nat
  BY SharedOffered
<1> HIDE DEF open
<1>5. m \in open /\ \A i \in open : m <= i
  BY <1>3, <1>4, LeastOf
<1>6. m \in Shared /\ Named = peer.prefs[m] /\ m \in Nat
  BY <1>1, <1>3, <1>4, <1>5 DEF open
<1> HIDE DEF m
<1>7. ASSUME NEW j \in Shared, j < m PROVE peer.prefs[j] \in ToSet(walked)
  <2>1. j \in Nat
    BY SharedOffered
  <2>2. j \notin open
    BY <1>5, <1>6, <1>7, <2>1
  <2> QED
    BY <2>2, SharedOffered DEF open
<1>8. ASSUME NEW g \in ToSet(walked) PROVE \E j \in Shared : j < m /\ g = peer.prefs[j]
  <2>1. PICK n \in DOMAIN walked : g = walked[n]
    BY DEF ToSet
  <2>2. PICK k \in Shared :
          /\ walked[n] = peer.prefs[k]
          /\ {walked[x] : x \in 1..(n - 1)} = Preferred(k)
    BY <2>1 DEF Ranked
  <2>3. k # m
    BY <1>6, <1>8, <2>1, <2>2, SharedOffered
  <2>4. ~(m < k)
    <3>1. SUFFICES ASSUME m < k PROVE FALSE
      OBVIOUS
    <3>2. Named \in Preferred(k)
      BY <1>6, <3>1 DEF Preferred
    <3>3. PICK x \in 1..(n - 1) : Named = walked[x]
      BY <2>2, <3>2
    <3>4. x \in DOMAIN walked
      <4>1. walked \in Seq(Groups)
        BY DEF Ready, ChecksTypeOK
      <4>2. DOMAIN walked = 1..Len(walked) /\ Len(walked) \in Nat
        BY <4>1
      <4>3. n \in 1..Len(walked)
        BY <4>2
      <4> QED
        BY <3>3, <4>2, <4>3
    <3>5. Named \in ToSet(walked)
      BY <3>3, <3>4 DEF ToSet
    <3> QED
      BY <3>5, SharedOffered
  <2>5. k \in Nat
    BY SharedOffered
  <2>6. k < m
    BY <1>6, <2>3, <2>4, <2>5
  <2> QED
    BY <2>1, <2>2, <2>6
<1>9. ToSet(walked) = Preferred(m)
  BY <1>7, <1>8 DEF Preferred
<1> QED
  BY <1>6, <1>9

\* A walk that is over has all that is shared, if it could.
LEMMA NothingNamed ==
  ASSUME Ready, check = "groups", Ranked, ~peer.stubborn, Named \notin Offered
  PROVE  ToSet(walked) = {peer.prefs[i] : i \in Shared}
<1> DEFINE open == {i \in Shared : peer.stubborn \/ peer.prefs[i] \in Offered}
<1>1. Named = IF open = {} THEN Alert ELSE peer.prefs[Min(open)]
  BY DEF Named
<1>2. open \subseteq Nat
  BY SharedOffered
<1>3. \A i \in open : peer.prefs[i] \in Offered
  OBVIOUS
<1>4. open = {}
  <2> HIDE DEF open
  <2> QED
    BY <1>1, <1>2, <1>3, LeastOf
<1>5. \A i \in Shared : peer.prefs[i] \in ToSet(walked)
  BY <1>4, SharedOffered
<1>6. ASSUME NEW g \in ToSet(walked) PROVE \E i \in Shared : g = peer.prefs[i]
  BY <1>6 DEF ToSet, Ranked
<1> QED
  BY <1>5, <1>6

LEMMA PreferredStays ==
  ASSUME UNCHANGED <<peer, found>>
  PROVE  Shared' = Shared /\ \A i : Preferred(i)' = Preferred(i)
<1>1. GroupsAt' = GroupsAt
  BY DEF GroupsAt
<1>2. ASSUME NEW g PROVE Accepted(g)' <=> Accepted(g)
  BY <1>1 DEF Accepted
<1>3. Shared' = Shared
  BY <1>2 DEF Shared
<1>4. ASSUME NEW i PROVE Preferred(i)' = Preferred(i)
  BY <1>3 DEF Preferred
<1> QED
  BY <1>3, <1>4

LEMMA RankedStays ==
  ASSUME UNCHANGED <<peer, found, walked>>, Ranked
  PROVE  Ranked'
<1>1. Shared' = Shared /\ \A i : Preferred(i)' = Preferred(i)
  BY PreferredStays
<1>2. ASSUME NEW n \in DOMAIN walked'
      PROVE  \E i \in Shared' : walked'[n] = peer'.prefs[i] /\ {walked'[m] : m \in 1..(n - 1)} = Preferred(i)'
  <2>1. PICK i \in Shared : walked[n] = peer.prefs[i] /\ {walked[m] : m \in 1..(n - 1)} = Preferred(i)
    BY <1>2 DEF Ranked
  <2>2. {walked'[m] : m \in 1..(n - 1)} = {walked[m] : m \in 1..(n - 1)}
    OBVIOUS
  <2> QED
    BY <1>1, <2>1, <2>2
<1> QED
  BY <1>2 DEF Ranked

LEMMA GroupAdded ==
  ASSUME Ready, WalksAreComplete, phase = "check", check = "groups", RoundsLeft, Named \in Offered,
         walked' = Append(walked, Named), UNCHANGED <<check, peer, found, phase, verdict, place, drops>>
  PROVE  ChecksInv'
<1> DEFINE k == Len(walked)
<1>1. walked \in Seq(Groups) /\ Named \in Groups /\ Named \notin ToSet(walked)
  BY SharedOffered DEF Ready, ChecksTypeOK
<1>2. /\ ToSet(walked') = ToSet(walked) \cup {Named}
      /\ Len(walked') = k + 1 /\ walked'[k + 1] = Named
      /\ \A n \in DOMAIN walked : walked'[n] = walked[n]
  BY <1>1, Appended
<1>3. walked' \in Seq(Groups) /\ k \in Nat /\ DOMAIN walked = 1..k /\ DOMAIN walked' = 1..(k + 1)
  <2>1. walked' \in Seq(Groups)
    BY <1>1
  <2> QED
    BY <1>1, <1>2, <2>1
<1>4. ChecksTypeOK'
  <2>1. IsInjective(walked')
    <3>1. \A a, b \in DOMAIN walked : walked[a] = walked[b] => a = b
      BY DEF Ready, ChecksTypeOK, IsInjective
    <3>2. \A a \in DOMAIN walked : walked[a] # Named
      BY <1>1 DEF ToSet
    <3>3. \A a \in DOMAIN walked' : a \in DOMAIN walked \/ a = k + 1
      BY <1>3
    <3> HIDE DEF k
    <3>4. ASSUME NEW a \in DOMAIN walked', NEW b \in DOMAIN walked', walked'[a] = walked'[b]
          PROVE  a = b
      BY <1>2, <3>1, <3>2, <3>3, <3>4
    <3> QED
      BY <3>4 DEF IsInjective
  <2>2. Len(walked') <= MaxGroupRounds
    BY <1>2, <1>3, GroupsAssumption DEF RoundsLeft
  <2> QED
    BY <1>3, <2>1, <2>2 DEF Ready, ChecksTypeOK
<1>5. Ready'
  <2>1. PeerInv'
    BY PeerStays DEF Ready
  <2> QED
    BY <1>4, <2>1 DEF Ready, Detected, Passed, Refused, Fresh, Walks
<1>6. Ranked
  BY DEF WalksAreComplete, GroupsInOrder
<1>7. Shared' = Shared
  BY PreferredStays
<1>8. Ranked'
  <2>1. ASSUME NEW n \in DOMAIN walked'
        PROVE  \E i \in Shared :
                 /\ walked'[n] = peer.prefs[i]
                 /\ {walked'[m] : m \in 1..(n - 1)} = Preferred(i)
    <3>1. \A m \in 1..(n - 1) : m \in DOMAIN walked
      BY <1>3, <2>1
    <3>2. {walked'[m] : m \in 1..(n - 1)} = {walked[m] : m \in 1..(n - 1)}
      BY <1>2, <3>1
    <3>3. CASE n \in DOMAIN walked
      BY <1>2, <1>6, <3>2, <3>3 DEF Ranked
    <3>4. CASE n = k + 1
      <4>1. {walked[m] : m \in 1..(n - 1)} = ToSet(walked)
        BY <1>3, <3>4 DEF ToSet
      <4>2. PICK i \in Shared : /\ Named = peer.prefs[i]
                                /\ ToSet(walked) = Preferred(i)
        BY <1>6, NamedNext
      <4> QED
        BY <1>2, <3>2, <3>4, <4>1, <4>2
    <3>5. n \in DOMAIN walked \/ n = k + 1
      BY <1>3, <2>1
    <3> QED
      BY <3>3, <3>4, <3>5, Zenon
  <2> QED
    BY <1>7, <2>1, PreferredStays DEF Ranked
<1>9. GroupsInOrder'
  BY <1>8 DEF GroupsInOrder
<1>10. WalksAreComplete'
  BY <1>9 DEF WalksAreComplete, Walks
<1>11. DefiniteIsTrue' /\ ClientAsReal'
  BY <1>5 DEF DefiniteIsTrue, ClientAsReal, OneShot
<1> QED
  BY <1>5, <1>10, <1>11 DEF ChecksInv

LEMMA GroupsOver ==
  ASSUME Ready, WalksAreComplete, phase = "check", check = "groups", Ends("true"),
         UNCHANGED <<place, walked>>, drops' = drops \/ (drops < MaxDrops /\ drops' = drops + 1),
         \/ GroupsAt = Alert \/ Len(walked) = MaxGroupRounds \/ Named \notin Offered
         \/ drops' > drops
  PROVE  ChecksInv'
<1>1. Ready' /\ phase' = "done" /\ verdict' = "true" /\ UNCHANGED <<check, peer, found>>
      /\ (drops' = 0 => drops = 0)
  <2>1. place' \in 0..6
    BY DEF Ready, ChecksTypeOK
  <2> QED
    BY <2>1, EndType
<1>2. Ranked
  BY DEF WalksAreComplete, GroupsInOrder
<1>3. Shared' = Shared /\ GroupsAt' = GroupsAt /\ Ranked'
  <2>1. Shared' = Shared /\ GroupsAt' = GroupsAt
    BY <1>1, PreferredStays DEF GroupsAt
  <2> QED
    BY <1>1, <1>2, <2>1, RankedStays
<1>4. drops \in Nat
  BY GroupsAssumption DEF Ready, ChecksTypeOK
<1>5. ASSUME drops' = 0, GroupsAt # Alert, ~peer.stubborn
      PROVE  Len(walked) = MaxGroupRounds \/ ToSet(walked) = {peer.prefs[i] : i \in Shared}
  <2>1. ~(drops' > drops)
    BY <1>1, <1>4, <1>5
  <2>2. CASE Named \notin Offered
    BY <1>2, <1>5, <2>2, NothingNamed
  <2> QED
    BY <1>5, <2>1, <2>2
<1>6. GroupsInOrder'
  BY <1>1, <1>3, <1>5 DEF GroupsInOrder
<1>7. WalksAreComplete'
  BY <1>1, <1>6 DEF WalksAreComplete, Walks
<1>8. DefiniteIsTrue' /\ ClientAsReal'
  BY <1>1 DEF DefiniteIsTrue, ClientAsReal, OneShot
<1> QED
  BY <1>1, <1>7, <1>8 DEF ChecksInv

LEMMA GroupRoundKeeps == ASSUME Ready, WalksAreComplete, GroupRound PROVE ChecksInv'
<1> DEFINE going == GroupsAt # Alert /\ RoundsLeft /\ Offered # {}
<1>1. phase = "check" /\ check = "groups" /\ UNCHANGED place
  BY DEF GroupRound
<1>2. \/ ~going /\ Decide("true") /\ UNCHANGED <<walked, drops>>
      \/ /\ going /\ Named \in Offered /\ drops' = drops
         /\ walked' = Append(walked, Named) /\ UNCHANGED <<check, peer, found, phase, verdict>>
      \/ going /\ Named \notin Offered /\ drops' = drops /\ Decide("true") /\ UNCHANGED walked
      \/ going /\ drops < MaxDrops /\ drops' = drops + 1 /\ Decide("true") /\ UNCHANGED walked
  <2>1. Lost \notin Offered
    <3>1. Lost \notin Groups
      BY GroupsAssumption DEF Groups, Lost
    <3> QED
      BY <1>1, <3>1, SharedOffered
  <2> QED
    BY <2>1 DEF GroupRound, Probed
<1>3. CASE ~going /\ Decide("true") /\ UNCHANGED <<walked, drops>>
  <2>1. GroupsAt = Alert \/ Len(walked) = MaxGroupRounds \/ Named \notin Offered
    <3>1. Len(walked) <= MaxGroupRounds /\ Len(walked) \in Nat /\ MaxGroupRounds \in Nat
      BY GroupsAssumption DEF Ready, ChecksTypeOK
    <3>2. ~RoundsLeft => Len(walked) = MaxGroupRounds
      BY <3>1 DEF RoundsLeft
    <3> QED
      BY <1>3, <3>2
  <2> QED
    BY <1>1, <1>3, <2>1, OnlyEnds, GroupsOver
<1>4. CASE /\ going /\ Named \in Offered /\ drops' = drops
           /\ walked' = Append(walked, Named) /\ UNCHANGED <<check, peer, found, phase, verdict>>
  BY <1>1, <1>4, GroupAdded
<1>5. CASE going /\ Named \notin Offered /\ drops' = drops /\ Decide("true") /\ UNCHANGED walked
  BY <1>1, <1>5, OnlyEnds, GroupsOver
<1>6. CASE going /\ drops < MaxDrops /\ drops' = drops + 1 /\ Decide("true") /\ UNCHANGED walked
  <2>1. drops' > drops
    BY <1>6, GroupsAssumption DEF Ready, ChecksTypeOK
  <2> QED
    BY <1>1, <1>6, <2>1, OnlyEnds, GroupsOver
<1> QED
  BY <1>2, <1>3, <1>4, <1>5, <1>6

\* The newest version of a server up to some version.
UpTo(v) == {w \in peer.versions : w <= v}

\* What becomes of a hello of a client.
LEMMA ConnectsTo ==
  ASSUME PeerInv
  PROVE  /\ \A v \in {4, 5} : Of(v) = Alert \/ (Of(v) \in peer.on /\ Of(v) > Alert)
         /\ Connects(4) = Of(4)
         /\ Connects(5) # Alert => Connects(5) = Of(5)
         /\ Connects(5) = Alert => Of(5) \in {Alert, Of(4)}
<1> DEFINE w4 == Negotiated(peer, ClientHello("client", 4))
           w5 == Negotiated(peer, ClientHello("client", 5))
<1>1. /\ peer.versions \subseteq Versions /\ peer.on \subseteq peer.versions
      /\ 5 \in peer.versions => peer.aware
  BY PeerType DEF TLS13
<1>2. /\ Connects(4) = IF w4 \in peer.on THEN w4 ELSE Alert
      /\ Connects(5) = IF w5 \in peer.on THEN w5 ELSE Alert
  BY DEF Connects
<1>3. \A v : Of(v) = IF Newest(UpTo(v)) \in peer.on THEN Newest(UpTo(v)) ELSE Alert
  BY DEF Of, UpTo
<1>4. w4 = Newest(UpTo(4))
  <2>1. ClientHello("client", 4).legacy = 4 /\ ClientHello("client", 4).supported = {}
    BY DEF ClientHello, TLS13
  <2> QED
    BY <2>1 DEF Negotiated, UpTo
<1>5. w5 = IF peer.aware THEN Newest(peer.versions \cap {5}) ELSE Newest(UpTo(4))
  <2>1. ClientHello("client", 5).legacy = 4 /\ ClientHello("client", 5).supported = {5}
    BY DEF ClientHello, TLS13
  <2> QED
    BY <2>1 DEF Negotiated, UpTo
<1> HIDE DEF w4, w5
<1>6. \A v : Of(v) = Alert \/ (Of(v) \in peer.on /\ Of(v) > Alert)
  <2>1. \A u \in Versions : u > Alert
    BY DEF Versions, Alert
  <2> QED
    BY <1>1, <1>3, <2>1
<1>7. UpTo(5) = peer.versions /\ UpTo(4) = peer.versions \ {5}
  <2>1. \A u \in Versions : u <= 5 /\ (u # 5 => u <= 4)
    BY DEF Versions
  <2>2. ~(5 <= 4)
    OBVIOUS
  <2> QED
    BY <1>1, <2>1, <2>2 DEF UpTo
<1>8. Connects(4) = Of(4)
  BY <1>2, <1>3, <1>4
<1>9. CASE 5 \in peer.versions
  <2>1. w5 = 5
    <3>1. peer.versions \cap {5} = {5}
      BY <1>9
    <3>2. {5} \subseteq Versions
      BY <1>1, <1>9
    <3>3. Newest({5}) \in {5}
      BY <3>2, NewestOf
    <3> QED
      BY <1>1, <1>5, <1>9, <3>1, <3>3
  <2>2. Newest(UpTo(5)) = 5
    <3>1. Newest(peer.versions) \in peer.versions /\ 5 <= Newest(peer.versions)
      BY <1>1, <1>9, NewestOf
    <3>2. Newest(peer.versions) \in 1..5
      BY <1>1, <3>1 DEF Versions
    <3> QED
      BY <1>7, <3>1, <3>2
  <2>3. Connects(5) = Of(5)
    BY <1>2, <1>3, <2>1, <2>2
  <2> QED
    BY <1>6, <1>8, <2>3
<1>10. CASE 5 \notin peer.versions
  <2>1. UpTo(5) = UpTo(4)
    BY <1>7, <1>10
  <2>2. Of(5) = Of(4)
    BY <1>3, <2>1
  <2>3. w5 = Alert \/ w5 = Newest(UpTo(4))
    <3>1. peer.versions \cap {5} = {} /\ Newest({}) = Alert
      BY <1>10 DEF Newest
    <3> QED
      BY <1>5, <3>1
  <2>4. Connects(5) = Alert \/ Connects(5) = Of(4)
    BY <1>2, <1>3, <2>3
  <2> QED
    BY <1>6, <1>8, <2>2, <2>4
<1> QED
  BY <1>9, <1>10

\* What a client may get, but for nothing, are two versions at the most.
LEMMA FewVersions ==
  ASSUME NEW a, NEW b
  PROVE  LET n == Cardinality({a, b} \ {Alert})
         IN /\ n \in Nat /\ n <= 2
            /\ a = b \/ a = Alert \/ b = Alert => n <= 1
            /\ a = Alert /\ b = Alert => n = 0
<1> DEFINE S == {a, b} \ {Alert}
<1>1. IsFiniteSet({a}) /\ Cardinality({a}) = 1 /\ IsFiniteSet({b}) /\ Cardinality({b}) = 1
  BY FS_Singleton
<1>2. IsFiniteSet({a, b}) /\ Cardinality({a, b}) <= 2
  <2>1. {a, b} = {a} \cup {b}
    OBVIOUS
  <2>2. b \in {a} => {a} \cup {b} = {a}
    OBVIOUS
  <2>3. IsFiniteSet({a} \cup {b})
        /\ Cardinality({a} \cup {b}) = IF b \in {a} THEN Cardinality({a}) ELSE Cardinality({a}) + 1
    BY <1>1, FS_AddElement
  <2> QED
    BY <1>1, <2>1, <2>3
<1>3. IsFiniteSet(S) /\ Cardinality(S) \in Nat /\ Cardinality(S) <= 2
  <2>1. Cardinality(S) <= Cardinality({a, b}) /\ IsFiniteSet(S)
    BY <1>2, FS_Subset
  <2>2. Cardinality(S) \in Nat /\ Cardinality({a, b}) \in Nat
    BY <1>2, <2>1, FS_CardinalityType
  <2> HIDE DEF S
  <2> QED
    BY <1>2, <2>1, <2>2
<1>4. ASSUME a = b \/ a = Alert \/ b = Alert PROVE Cardinality(S) <= 1
  <2>1. S \subseteq {a} \/ S \subseteq {b}
    BY <1>4
  <2>2. Cardinality(S) <= Cardinality({a}) \/ Cardinality(S) <= Cardinality({b})
    BY <1>1, <2>1, FS_Subset
  <2> HIDE DEF S
  <2> QED
    BY <1>1, <1>3, <2>2
<1>5. ASSUME a = Alert, b = Alert PROVE Cardinality(S) = 0
  <2>1. S = {}
    BY <1>5
  <2> QED
    BY <2>1, FS_EmptySet
<1> QED
  BY <1>3, <1>4, <1>5

\* The end of a client.
LEMMA ClientEnds ==
  ASSUME Ready, phase # "detect", check \in {"client", "oldclient"}, UNCHANGED walked, NEW r, Simulated(r),
         drops' = drops \/ (drops < MaxDrops /\ drops' = drops + 1),
         r > Alert => /\ r \in peer.on /\ r \in {Of(ClientVersion), Of(4)}
                      /\ r # Of(ClientVersion) => Of(ClientVersion) = Alert \/ drops' > 0,
         ~(r > Alert) => Cardinality({Of(ClientVersion), Of(4)} \ {Alert}) <= drops'
  PROVE  ChecksInv'
<1> DEFINE w == IF r > Alert THEN "true" ELSE "false"
<1>1. Ends(w) /\ place' = IF r > Alert THEN r ELSE Alert
  BY OnlyEnds DEF Simulated
<1>2. peer.on \subseteq Versions
  BY PeerType DEF Ready
<1>3. place' \in 0..6
  <2>1. \A u \in Versions : u \in 0..6
    BY DEF Versions
  <2>2. Alert \in 0..6
    BY DEF Alert
  <2> QED
    BY <1>1, <1>2, <2>1, <2>2
<1>4. Ready' /\ phase' = "done" /\ verdict' = w /\ UNCHANGED <<check, peer, found>>
  BY <1>1, <1>3, EndType
<1>5. \A v : Of(v)' = Of(v)
  BY <1>4 DEF Of
<1>6. ClientVersion' = ClientVersion /\ TLS13 - 1 = 4
  BY <1>4 DEF ClientVersion, TLS13
<1>7. \A u \in Versions : u # Alert
  BY DEF Versions, Alert
<1>8. CASE r > Alert
  <2>1. verdict' = "true" /\ place' = r /\ place' # Alert
    BY <1>1, <1>2, <1>4, <1>7, <1>8
  <2> QED
    <3>1. ClientAsReal'
      BY <1>5, <1>6, <1>8, <2>1 DEF ClientAsReal
    <3>2. DefiniteIsTrue' /\ WalksAreComplete'
      BY <1>4 DEF DefiniteIsTrue, WalksAreComplete, OneShot, Walks
    <3> QED
      BY <1>4, <3>1, <3>2 DEF ChecksInv
<1>9. CASE ~(r > Alert)
  <2>1. verdict' = "false"
    BY <1>4, <1>9
  <2>2. ClientAsReal'
    BY <1>5, <1>6, <1>9, <2>1 DEF ClientAsReal
  <2>3. DefiniteIsTrue' /\ WalksAreComplete'
    BY <1>4 DEF DefiniteIsTrue, WalksAreComplete, OneShot, Walks
  <2> QED
    BY <1>4, <2>2, <2>3 DEF ChecksInv
<1> QED
  BY <1>8, <1>9

LEMMA ClientKeeps == ASSUME Ready, Client PROVE ChecksInv'
<1> DEFINE c == Connects(ClientVersion)
<1>1. /\ check \in {"client", "oldclient"} /\ phase = "check" /\ UNCHANGED walked
      /\ PeerInv /\ drops \in 0..MaxDrops
  BY DEF Client, Ready, ChecksTypeOK
<1>2. PICK r \in {c, Lost} : /\ HelloAnswered(r)
                             /\ \/ r = c /\ drops' = drops
                                \/ r = Lost /\ drops < MaxDrops /\ drops' = drops + 1
  BY DEF Client, Probed
<1>3. ClientVersion \in {4, 5} /\ (ClientVersion = TLS13 => check = "client" /\ ClientVersion = 5)
      /\ (ClientVersion # TLS13 => ClientVersion = 4)
  BY <1>1 DEF ClientVersion, TLS13
<1>4. drops' \in 0..MaxDrops /\ (r # c => drops' >= 1)
  BY <1>1, <1>2, GroupsAssumption
<1>5. ~(Lost > Alert) /\ ~(Alert > Alert)
  BY DEF Lost, Alert
<1>6. c = Alert \/ (c \in peer.on /\ c > Alert)
  BY <1>1, <1>3, ConnectsTo
<1>7. CASE r <= Alert /\ ClientVersion = TLS13
  <2>1. phase' = "retry" /\ UNCHANGED <<check, peer, found, verdict, place>>
    BY <1>2, <1>7 DEF HelloAnswered
  <2>2. drops' = 0 => drops = 0
    BY <1>1, <1>2, GroupsAssumption
  <2>3. ChecksTypeOK'
    BY <1>1, <1>4, <2>1 DEF Ready, ChecksTypeOK
  <2>4. PeerInv'
    BY <2>1, PeerStays DEF Ready
  <2>5. Refused'
    <3>1. c = Alert \/ r # c
      <4>1. \A u \in Versions : ~(u <= Alert)
        BY DEF Versions, Alert
      <4>2. peer.on \subseteq Versions
        BY <1>1, PeerType
      <4> QED
        BY <1>6, <1>7, <4>1, <4>2
    <3>2. drops' = 0 => c = Alert
      BY <1>4, <3>1
    <3>3. Connects(TLS13)' = Connects(TLS13)
      BY <2>1 DEF Connects
    <3> QED
      BY <1>3, <1>7, <2>1, <3>2, <3>3 DEF Refused
  <2>6. Detected' /\ Passed' /\ Fresh'
    BY <1>1, <2>1, <2>2 DEF Ready, Detected, Passed, Fresh
  <2>7. Ready'
    BY <2>3, <2>4, <2>5, <2>6 DEF Ready
  <2>8. DefiniteIsTrue' /\ ClientAsReal' /\ WalksAreComplete'
    BY <1>1, <2>1 DEF DefiniteIsTrue, ClientAsReal, WalksAreComplete, OneShot, Walks
  <2> QED
    BY <2>7, <2>8 DEF ChecksInv
<1>8. CASE ~(r <= Alert /\ ClientVersion = TLS13)
  <2>1. Simulated(r)
    BY <1>2, <1>8 DEF HelloAnswered
  <2>2. r > Alert => c = r /\ c # Alert
    BY <1>2, <1>5
  <2>3. ClientVersion = 4 => c = Of(ClientVersion)
    BY <1>1, ConnectsTo
  <2>4. ClientVersion = 5 => c = Alert \/ c = Of(ClientVersion)
    BY <1>1, ConnectsTo
  <2>5. r > Alert => r \in peer.on /\ r = Of(ClientVersion)
    BY <1>3, <1>6, <2>2, <2>3, <2>4
  <2>6. ~(r > Alert) => ClientVersion = 4
    <3>1. Lost <= Alert /\ Alert <= Alert
      BY DEF Lost, Alert
    <3> QED
      BY <1>2, <1>3, <1>6, <1>8, <3>1
  <2>7. ASSUME ~(r > Alert) PROVE Cardinality({Of(ClientVersion), Of(4)} \ {Alert}) <= drops'
    <3>1. c = Of(4) /\ ClientVersion = 4
      BY <2>3, <2>6, <2>7
    <3> DEFINE n == Cardinality({Of(ClientVersion), Of(4)} \ {Alert})
    <3>2. n \in Nat /\ n <= 1 /\ (Of(4) = Alert => n = 0)
      BY <3>1, FewVersions
    <3>3. r = c => c = Alert
      BY <1>6, <2>7
    <3> HIDE DEF n, c
    <3>4. drops' \in Nat /\ (r # c => drops' >= 1)
      BY <1>4, GroupsAssumption
    <3>5. n <= drops'
      BY <3>1, <3>2, <3>3, <3>4
    <3> QED
      BY <3>5 DEF n
  <2>8. drops' = drops \/ (drops < MaxDrops /\ drops' = drops + 1)
    BY <1>2
  <2> HIDE DEF c
  <2> QED
    BY <1>1, <2>1, <2>5, <2>7, <2>8, ClientEnds
<1> QED
  BY <1>7, <1>8

LEMMA RetryKeeps == ASSUME Ready, ClientRetry PROVE ChecksInv'
<1>1. /\ phase = "retry" /\ check = "client" /\ UNCHANGED walked
      /\ PeerInv /\ drops \in 0..MaxDrops /\ (drops = 0 => Connects(5) = Alert)
  BY DEF ClientRetry, Ready, ChecksTypeOK, Refused, TLS13
<1>2. ClientVersion = 5
  BY <1>1 DEF ClientVersion, TLS13
<1>3. PICK r \in {Connects(4), Lost} : /\ Simulated(r)
                                       /\ \/ r = Connects(4) /\ drops' = drops
                                          \/ r = Lost /\ drops < MaxDrops /\ drops' = drops + 1
  BY DEF ClientRetry, Probed, TLS13
<1>4. /\ drops \in Nat /\ drops' \in Nat /\ drops' >= drops
      /\ r # Of(4) => drops' = drops + 1
  <2>1. Connects(4) = Of(4)
    BY <1>1, ConnectsTo
  <2> QED
    BY <1>1, <1>3, <2>1, GroupsAssumption
<1>5. /\ Of(4) = Alert \/ (Of(4) \in peer.on /\ Of(4) > Alert)
      /\ Connects(5) = Alert => Of(5) \in {Alert, Of(4)}
      /\ ~(Lost > Alert) /\ ~(Alert > Alert) /\ r \in {Of(4), Lost}
  BY <1>1, <1>3, ConnectsTo DEF Lost, Alert
<1>6. ASSUME r > Alert
      PROVE  /\ r \in peer.on /\ r \in {Of(ClientVersion), Of(4)}
             /\ r # Of(ClientVersion) => Of(ClientVersion) = Alert \/ drops' > 0
  <2>1. r = Of(4) /\ r \in peer.on
    BY <1>5, <1>6
  <2>2. drops' = 0 => Of(5) \in {Alert, Of(4)}
    BY <1>1, <1>4, <1>5
  <2> QED
    BY <1>2, <1>4, <2>1, <2>2
<1>7. ASSUME ~(r > Alert) PROVE Cardinality({Of(ClientVersion), Of(4)} \ {Alert}) <= drops'
  <2> DEFINE n == Cardinality({Of(5), Of(4)} \ {Alert})
  <2>1. /\ n \in Nat /\ n <= 2
        /\ Of(5) = Of(4) \/ Of(5) = Alert \/ Of(4) = Alert => n <= 1
        /\ Of(5) = Alert /\ Of(4) = Alert => n = 0
    BY FewVersions
  <2>2. r = Of(4) => Of(4) = Alert
    BY <1>5, <1>7
  <2>3. drops = 0 => Of(5) \in {Alert, Of(4)}
    BY <1>1, <1>5
  <2> HIDE DEF n
  <2>4. n <= drops'
    <3>1. CASE r = Of(4)
      BY <1>4, <2>1, <2>2, <2>3, <3>1
    <3>2. CASE r # Of(4)
      <4>1. drops = 0 => n <= 1
        BY <2>1, <2>3
      <4> QED
        BY <1>4, <2>1, <3>2, <4>1
    <3> QED
      BY <3>1, <3>2
  <2> QED
    BY <1>2, <2>4 DEF n
<1>8. drops' = drops \/ (drops < MaxDrops /\ drops' = drops + 1)
  BY <1>3
<1> QED
  BY <1>1, <1>3, <1>6, <1>7, <1>8, ClientEnds

LEMMA ChecksStep == ChecksInv /\ [ChecksNext]_checkVars => ChecksInv'
<1> SUFFICES ASSUME ChecksInv, [ChecksNext]_checkVars PROVE ChecksInv'
  OBVIOUS
<1>1. Ready /\ WalksAreComplete
  BY DEF ChecksInv
<1>2. CASE UNCHANGED checkVars
  <2>1. UNCHANGED <<check, peer, found, place, walked, drops, phase, verdict>>
    BY <1>2 DEF checkVars
  <2>2. PeerInv' /\ ChecksTypeOK'
    BY <1>1, <2>1 DEF Ready, PeerInv, ChecksTypeOK
  <2>3. Detected' /\ Passed' /\ Fresh'
    BY <1>1, <2>1 DEF Ready, Detected, Passed, Fresh
  <2>4. Refused'
    <3>1. Connects(TLS13)' = Connects(TLS13)
      BY <2>1 DEF Connects
    <3> QED
      BY <1>1, <2>1, <3>1 DEF Ready, Refused
  <2>5. GroupsAt' = GroupsAt
    BY <2>1 DEF GroupsAt
  <2>6. Shared' = Shared /\ (Ranked => Ranked')
    BY <2>1, PreferredStays, RankedStays
  <2>7. GroupsInOrder => GroupsInOrder'
    BY <2>1, <2>5, <2>6 DEF GroupsInOrder
  <2>8. WalksAreComplete'
    BY <1>1, <2>1, <2>7 DEF WalksAreComplete, FindsFirst
  <2>9. ClientAsReal'
    BY <2>1 DEF ChecksInv, ClientAsReal, ClientVersion, Of
  <2>10. DefiniteIsTrue'
    <3>1. \A v : Supports(v)' <=> Supports(v)
      BY <2>1 DEF Supports
    <3>2. Undetected' = Undetected /\ {v \in Versions : Supports(v)}' = {v \in Versions : Supports(v)}
      BY <2>1, <3>1 DEF Undetected
    <3> QED
      BY <2>1, <3>2 DEF ChecksInv, DefiniteIsTrue
  <2> QED
    BY <2>2, <2>3, <2>4, <2>8, <2>9, <2>10 DEF ChecksInv, Ready
<1>3. CASE Detect
  BY <1>1, <1>3, DetectKeeps
<1>4. CASE Ask
  BY <1>1, <1>4, AskKeeps
<1>5. CASE Walk
  BY <1>1, <1>5, WalkStepKeeps
<1>6. CASE GroupRound
  BY <1>1, <1>6, GroupRoundKeeps
<1>7. CASE Client
  BY <1>1, <1>7, ClientKeeps
<1>8. CASE ClientRetry
  BY <1>1, <1>8, RetryKeeps
<1> QED
  BY <1>2, <1>3, <1>4, <1>5, <1>6, <1>7, <1>8 DEF ChecksNext

LEMMA ChecksInvariance == ChecksSpec => []ChecksInv
  BY ChecksStart, ChecksStep, PTL DEF ChecksSpec

(***************************************************************************)
(* The types of the checks, for any number of groups and of rounds: what   *)
(* is found is spoken, no group is listed twice and none beyond the rounds,*)
(* and a check is done exactly when it has a verdict.                      *)
(***************************************************************************)
THEOREM ChecksTypeCorrect == ChecksSpec => []ChecksTypeOK
<1>1. ChecksInv => ChecksTypeOK
  BY DEF ChecksInv, Ready
<1> QED
  BY <1>1, ChecksInvariance, PTL

(***************************************************************************)
(* A verdict of a check is a statement on the server, whichever versions   *)
(* it speaks and whichever connections are lost: no lost connection is     *)
(* taken for a yes or a no, but for sniRequired (enumerate.js:233-318).    *)
(***************************************************************************)
THEOREM VerdictsAreTrue == ChecksSpec => []DefiniteIsTrue
<1>1. ChecksInv => DefiniteIsTrue
  BY DEF ChecksInv
<1> QED
  BY <1>1, ChecksInvariance, PTL

(***************************************************************************)
(* Every walk of versions, labels or groups finds what it looks for, where *)
(* it looks first, and never passes it while no connection is lost; groups *)
(* are listed in the order of the server, for any number of groups and any *)
(* limit on rounds (enumerate.js:153-222, dns-probe.js:22-30).             *)
(***************************************************************************)
THEOREM WalksFindAll == ChecksSpec => []WalksAreComplete
<1>1. ChecksInv => WalksAreComplete
  BY DEF ChecksInv
<1> QED
  BY <1>1, ChecksInvariance, PTL

(***************************************************************************)
(* A simulated client is said to connect with what its own hello would get,*)
(* or where that is refused or a connection was lost, with what a retry at *)
(* TLS 1.2 gets; and is said not to connect only after a loss for each of  *)
(* the two that the server would have served, whatever versions the server *)
(* speaks and whichever of them it shares nothing at                       *)
(* (enumerate.js:363-389).                                                 *)
(***************************************************************************)
THEOREM ClientsAsReal == ChecksSpec => []ClientAsReal
<1>1. ChecksInv => ClientAsReal
  BY DEF ChecksInv
<1> QED
  BY <1>1, ChecksInvariance, PTL
=============================================================================
