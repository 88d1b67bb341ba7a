---------------------------- MODULE Probe_proofs ----------------------------
(***************************************************************************)
(* Theorems about what the probes read: one probe, for flights of any      *)
(* length, cut in any way, and then the readers, for documents that grow   *)
(* by any number of steps. The two share no state.                         *)
(***************************************************************************)
EXTENDS Probe, Readers, SequenceTheorems, FiniteSetTheorems, WellFoundedInduction, TLAPS

Kinds == Messages \cup Records

(***************************************************************************)
(* The inductive invariant. The result is what was heard so far, an event  *)
(* that ends the flight is the last one read, and no error is noted before *)
(* the end.                                                                *)
(***************************************************************************)
IInv ==
  /\ TypeOK
  /\ ResultIsHeard
  /\ HeardIsHeard
  /\ ~settled => error = "none"

-----------------------------------------------------------------------------
\* A flight is a sequence of events.
LEMMA FlightType ==
  ASSUME TypeOK
  PROVE  /\ Len(flight) \in Nat
         /\ \A i \in 1..Len(flight) : flight[i] \in Kinds
  <1>1. PICK n \in 0..MaxEvents : flight \in [1..n -> Kinds]
    BY DEF TypeOK, Flights, Kinds
  <1>2. n \in Nat
    BY ProbeAssumption
  <1>3. flight \in Seq(Kinds) /\ Len(flight) = n
    BY <1>1, <1>2
  <1> QED
    BY <1>1, <1>2, <1>3

\* Nothing is settled, and nothing read, before the probe has its turn.
LEMMA InitEstablishes == Init => IInv
  <1> SUFFICES ASSUME Init PROVE IInv
    OBVIOUS
  <1>1. PICK n \in 0..MaxEvents : flight \in [1..n -> Kinds]
    BY DEF Init, Flights, Kinds
  <1>2. n \in Nat /\ flight \in Seq(Kinds) /\ Len(flight) = n
    BY <1>1, ProbeAssumption
  <1>3. TypeOK
    <2>1. arrived \in 0..2 * Len(flight) /\ read \in 0..Len(flight)
      BY <1>2 DEF Init
    <2>2. settled = (socket = "gone") /\ {ok, chain, alert} \subseteq BOOLEAN
      BY DEF Init
    <2> QED
      BY <2>1, <2>2 DEF Init, TypeOK, Reasons
  <1>4. ResultIsHeard
    BY DEF Init, ResultIsHeard, Heard
  <1> QED
    BY <1>3, <1>4 DEF IInv, Init, HeardIsHeard

(***************************************************************************)
(* What reading the next event e does to what has been heard: e is added,  *)
(* and none of the events before it ended the flight.                      *)
(***************************************************************************)
LEMMA TakeEffect ==
  ASSUME IInv, NEW S, Take(S)
  PROVE  /\ ~settled /\ error = "none"
         /\ read + 1 \in 1..Len(flight) /\ read' = read + 1
         /\ flight[read + 1] \in S \cap Kinds
         /\ UNCHANGED <<collect, flight, cuts, arrived>>
         /\ \A K : Heard(K)' <=> Heard(K) \/ flight[read + 1] \in K
         /\ \A i \in 1..read : ~EndsFlight(i)
         /\ \A i : EndsFlight(i)' <=> EndsFlight(i)
         /\ 1..read' = (1..read) \cup {read + 1}
  <1>1. Len(flight) \in Nat /\ read \in 0..Len(flight) /\ ~settled
    BY FlightType DEF IInv, TypeOK, Take, Pumping
  <1>2. /\ read + 1 \in 1..Len(flight) /\ read' = read + 1
        /\ flight[read + 1] \in S
        /\ UNCHANGED <<collect, flight, cuts, arrived>>
    BY <1>1 DEF Take, Pumping, server
  <1>3. flight[read + 1] \in Kinds
    BY <1>2, FlightType DEF IInv
  <1>4. 1..read' = (1..read) \cup {read + 1}
    BY <1>1, <1>2
  <1>5. \A K : Heard(K)' <=> Heard(K) \/ flight[read + 1] \in K
    BY <1>2, <1>4 DEF Heard
  <1>6. \A i : EndsFlight(i)' <=> EndsFlight(i)
    BY <1>2 DEF EndsFlight
  <1>7. \A i \in 1..read : ~EndsFlight(i)
    BY <1>1 DEF IInv, ResultIsHeard
  <1> QED
    BY <1>1, <1>2, <1>3, <1>4, <1>5, <1>6, <1>7 DEF IInv

\* Between reads of the flight the type of what was not touched stands.
LEMMA TypeOfRest ==
  ASSUME TypeOK, UNCHANGED <<collect, flight, cuts>>
  PROVE  /\ collect' \in {"hello", "full"} /\ flight' \in Flights /\ cuts' \in LegalCuts'
         /\ Len(flight') = Len(flight)
  BY DEF TypeOK, LegalCuts, LastCell

(***************************************************************************)
(* Reading an event. Each action notes what its events mean, and settles   *)
(* exactly on those that end the flight.                                   *)
(***************************************************************************)
LEMMA PumpKeeps == ASSUME IInv, Pump PROVE IInv'
  <1> DEFINE e == flight[read + 1]
  <1>1. PICK S \in {Hellos, {"certificate", "skipped"}, {"keyExchange"}, {"done"},
                   {"fatal", "shortAlert"}, {"oversize"}, {"badHello", "alien"}} : Take(S)
    BY DEF Pump, ReadHello, ReadNoted, ReadKeyExchange, ReadDone, ReadAlert,
           ReadOversize, ReadNonsense
  <1>2. /\ ~settled /\ error = "none" /\ e \in Kinds
        /\ read + 1 \in 1..Len(flight) /\ read' = read + 1
        /\ UNCHANGED <<collect, flight, cuts, arrived>>
        /\ \A K : Heard(K)' <=> Heard(K) \/ e \in K
        /\ \A i \in 1..read : ~EndsFlight(i)
        /\ \A i : EndsFlight(i)' <=> EndsFlight(i)
        /\ 1..read' = (1..read) \cup {read + 1}
    BY <1>1, TakeEffect
  <1>3. EndsFlight(read + 1) <=>
          \/ e \notin {"hello12", "certificate", "keyExchange", "skipped"}
          \/ e = "hello12" /\ collect = "hello"
          \/ e = "keyExchange" /\ ~ok
    <2>1. Len(flight) \in Nat /\ read \in Nat
      BY FlightType DEF IInv, TypeOK
    <2>2. ok <=> \E i \in 1..read : flight[i] \in Hellos
      BY DEF IInv, ResultIsHeard, Heard
    <2>3. 1..(read + 1) = (1..read) \cup {read + 1}
      BY <2>1
    <2> QED
      BY <2>2, <2>3 DEF EndsFlight, Hellos
  <1>4. /\ ok' <=> ok \/ e \in Hellos
        /\ chain' <=> chain \/ e \in {"certificate"}
        /\ alert' <=> alert \/ e \in {"fatal"}
        /\ settled' <=> EndsFlight(read + 1)
        /\ settled' = (socket' = "gone")
        /\ {ok', chain', alert'} \subseteq BOOLEAN
        /\ socket' \in {"waiting", "connecting", "open", "half", "gone"}
        /\ error' \in Reasons
        /\ ~settled' => error' = "none"
        /\ ok' => error' \in {"none", "not-tls", "bad-server-hello"}
    <2>1. /\ {ok, chain, alert} \subseteq BOOLEAN /\ collect \in {"hello", "full"}
          /\ settled \in BOOLEAN /\ settled = (socket = "gone")
          /\ socket \in {"waiting", "connecting", "open", "half", "gone"}
      BY DEF IInv, TypeOK
    <2> USE <1>2, <1>3, <2>1 DEF Take, Hellos, Finish, Reasons
    <2>2. CASE ReadHello
      BY <2>2 DEF ReadHello
    <2>3. CASE ReadNoted
      BY <2>3 DEF ReadNoted
    <2>4. CASE ReadKeyExchange
      BY <2>4 DEF ReadKeyExchange
    <2>5. CASE ReadDone
      BY <2>5 DEF ReadDone
    <2>6. CASE ReadAlert
      BY <2>6 DEF ReadAlert
    <2>7. CASE ReadOversize
      BY <2>7 DEF ReadOversize
    <2>8. CASE ReadNonsense
      BY <2>8 DEF ReadNonsense
    <2> QED
      BY <2>2, <2>3, <2>4, <2>5, <2>6, <2>7, <2>8 DEF Pump
  <1>5. TypeOK'
    BY <1>2, <1>4, TypeOfRest DEF IInv, TypeOK
  <1>6. ResultIsHeard'
    BY <1>2, <1>4 DEF IInv, ResultIsHeard
  <1> QED
    BY <1>4, <1>5, <1>6 DEF IInv, HeardIsHeard

(***************************************************************************)
(* The socket and the timer. They read nothing and learn nothing; a reason *)
(* they settle with is only noted when nothing was heard.                  *)
(***************************************************************************)
SocketStep == TurnComes \/ Connected \/ Ended \/ Closed \/ Errored \/ TimedOut
              \/ \E n \in 1..2 * Len(flight) : Data(n)

LEMMA SocketKeeps == ASSUME IInv, SocketStep PROVE IInv' /\ ~settled
  <1>1. /\ UNCHANGED <<collect, flight, cuts, read, ok, chain, alert>>
        /\ ~settled
    BY DEF SocketStep, TurnComes, Connected, Ended, Closed, Errored, TimedOut, Data,
           Idle, SameResult, result, server, IInv, TypeOK
  <1>2. /\ settled' = (socket' = "gone")
        /\ socket' \in {"waiting", "connecting", "open", "half", "gone"}
        /\ error' \in Reasons
        /\ ~settled' => error' = "none"
        /\ ok' => error' \in {"none", "not-tls", "bad-server-hello"}
    <2>1. /\ settled = (socket = "gone") /\ error = "none"
          /\ socket \in {"waiting", "connecting", "open", "half", "gone"}
      BY <1>1 DEF IInv, TypeOK
    <2> USE <1>1, <2>1 DEF Idle, Finish, Reasons
    <2>2. CASE TurnComes \/ \E n \in 1..2 * Len(flight) : Data(n)
      BY <2>2 DEF TurnComes, Data, result
    <2>3. CASE Connected
      BY <2>3 DEF Connected
    <2>4. CASE Ended
      BY <2>4 DEF Ended
    <2>5. CASE Closed \/ Errored \/ TimedOut
      BY <2>5 DEF Closed, Errored, TimedOut
    <2> QED
      BY <2>2, <2>3, <2>4, <2>5 DEF SocketStep
  <1>3. arrived' \in 0..2 * Len(flight)
    BY FlightType DEF SocketStep, TurnComes, Connected, Ended, Closed, Errored,
                      TimedOut, Data, IInv, TypeOK
  <1>4. TypeOK'
    BY <1>1, <1>2, <1>3, TypeOfRest DEF IInv, TypeOK
  <1>5. ResultIsHeard'
    BY <1>1 DEF IInv, ResultIsHeard, Heard, EndsFlight
  <1> QED
    BY <1>1, <1>2, <1>4, <1>5 DEF IInv, HeardIsHeard

\* A step that changes nothing keeps everything.
LEMMA StutterKeeps == ASSUME IInv, UNCHANGED vars PROVE IInv'
  BY DEF vars, server, result, IInv, TypeOK, LegalCuts, LastCell, ResultIsHeard, Heard,
         EndsFlight, HeardIsHeard

(***************************************************************************)
(* The invariant the theorems below are read off.                          *)
(***************************************************************************)
THEOREM Invariance == Spec => []IInv
  <1>1. Init => IInv
    BY InitEstablishes
  <1>2. IInv /\ [Next]_vars => IInv'
    BY PumpKeeps, SocketKeeps, StutterKeeps DEF Next, SocketStep
  <1> QED
    BY <1>1, <1>2, PTL DEF Spec

(***************************************************************************)
(* Type correctness of a probe: a result is one of its records, and the    *)
(* socket is gone exactly when the promise is settled.                     *)
(***************************************************************************)
THEOREM TypeCorrect == Spec => []TypeOK
  <1>1. IInv => TypeOK
    BY DEF IInv
  <1> QED
    BY <1>1, Invariance, PTL

(***************************************************************************)
(* What the socket handlers leave behind: nothing that arrived in whole    *)
(* records is unread, because an event in a later record than an unread    *)
(* one cannot be complete before it.                                       *)
(***************************************************************************)
LEMMA NothingUnread == TypeOK => AllRead
  <1> SUFFICES ASSUME TypeOK, ~settled, ~Pumping,
                      NEW i \in 1..Len(flight), NEW c \in cuts,
                      2 * i <= c, c <= arrived, ~(i <= read)
               PROVE  FALSE
    BY DEF AllRead
  <1>1. Len(flight) \in Nat /\ read \in 0..Len(flight) /\ socket # "gone"
        /\ c \in 1..2 * Len(flight) /\ arrived \in Nat
    <2>1. cuts \subseteq 1..2 * Len(flight)
      BY DEF TypeOK, LegalCuts
    <2>2. Len(flight) \in Nat
      BY FlightType
    <2>3. socket # "gone"
      BY DEF TypeOK
    <2>4. read \in 0..Len(flight) /\ arrived \in 0..2 * Len(flight)
      BY DEF TypeOK
    <2> QED
      BY <2>1, <2>2, <2>3, <2>4
  <1>2. read + 1 \in 1..Len(flight) /\ read + 1 <= i
    BY <1>1
  <1>3. LastCell(read + 1) <= c
    BY <1>1, <1>2 DEF LastCell
  <1> QED
    BY <1>1, <1>2, <1>3 DEF Pumping, Complete

(***************************************************************************)
(* Neither the records nor the segments a flight travels in show in the    *)
(* result of the probe.                                                    *)
(***************************************************************************)
THEOREM FlightsReadAsWhole == Spec => []ReadsAsWhole
  <1>1. IInv => ReadsAsWhole
    BY NothingUnread DEF IInv, ReadsAsWhole
  <1> QED
    BY <1>1, Invariance, PTL

(***************************************************************************)
(* A ServerHello that was read outweighs every failure of the connection   *)
(* that follows it.                                                        *)
(***************************************************************************)
THEOREM HeardStaysHeard == Spec => []HeardIsHeard
  <1>1. IInv => HeardIsHeard
    BY DEF IInv
  <1> QED
    BY <1>1, Invariance, PTL

(***************************************************************************)
(* The result of a settled probe is never written again, by an event of    *)
(* the socket or by the rest of what was received.                         *)
(***************************************************************************)
THEOREM ResultsAreFinal == Spec => AnswerIsFinal
  <1>1. IInv /\ [Next]_vars => (settled => UNCHANGED <<settled, result>>)
    <2> SUFFICES ASSUME IInv, [Next]_vars, settled PROVE UNCHANGED <<settled, result>>
      OBVIOUS
    <2>1. ~Pump
      BY DEF Pump, ReadHello, ReadNoted, ReadKeyExchange, ReadDone, ReadAlert,
             ReadOversize, ReadNonsense, Take, Pumping, IInv, TypeOK
    <2>2. ~SocketStep
      BY SocketKeeps
    <2> QED
      BY <2>1, <2>2 DEF Next, SocketStep, vars, result
  <1>2. IInv /\ [Next]_vars => [settled => UNCHANGED <<settled, result>>]_vars
    BY <1>1
  <1> QED
    BY <1>2, Invariance, PTL DEF Spec, AnswerIsFinal

-----------------------------------------------------------------------------
(***************************************************************************)
(* Recursion: what a function is that is defined by its value before.      *)
(***************************************************************************)
LEMMA Counted ==
  ASSUME NEW S, 0 \in S, \A n \in Nat : n \in S => n + 1 \in S
  PROVE  Nat \subseteq S
<1> SUFFICES ASSUME Nat \ S # {} PROVE FALSE
  OBVIOUS
<1> DEFINE R == OpToRel(<, Nat)
<1>1. IsWellFoundedOn(R, Nat)
  BY NatLessThanWellFounded
<1>2. \A x, y \in Nat : x < y => <<x, y>> \in R
  BY DEF OpToRel
<1> HIDE DEF R
<1>3. PICK x \in Nat \ S : \A y \in Nat \ S : <<y, x>> \notin R
  <2>1. Nat \ S \subseteq Nat
    OBVIOUS
  <2> QED
    BY <1>1, <2>1, WFMin, Zenon
<1>4. x # 0 /\ x - 1 \in Nat /\ x - 1 < x
  OBVIOUS
<1>5. x - 1 \notin Nat \ S
  BY <1>2, <1>3, <1>4
<1> QED
  BY <1>4, <1>5

\* From a first value, each next one by the function of its number.
Goes(f, step, first) == f = [k \in Nat |-> IF k = 0 THEN first ELSE step[k][f[k - 1]]]

LEMMA Recursion ==
  ASSUME NEW step, NEW first
  PROVE  \E f : Goes(f, step, first)
<1> DEFINE Part(g, n) == g = [k \in 0..n |-> IF k = 0 THEN first ELSE step[k][g[k - 1]]]
           F == [k \in Nat |-> (CHOOSE g : Part(g, k))[k]]
<1>1. \A n \in Nat : \E g : Part(g, n)
  <2> DEFINE S == {n \in Nat : \E g : Part(g, n)}
  <2>1. 0 \in S
    <3> DEFINE g == [k \in 0..0 |-> first]
    <3>1. Part(g, 0)
      OBVIOUS
    <3> QED
      BY <3>1
  <2>2. ASSUME NEW n \in Nat, n \in S PROVE n + 1 \in S
    <3>1. PICK g : Part(g, n)
      BY <2>2
    <3> DEFINE h == [k \in 0..(n + 1) |-> IF k = 0 THEN first ELSE step[k][g[k - 1]]]
    <3>2. ASSUME NEW k \in 0..n PROVE h[k] = g[k]
      BY <3>1
    <3>3. ASSUME NEW k \in 0..(n + 1) PROVE h[k] = IF k = 0 THEN first ELSE step[k][h[k - 1]]
      <4>1. CASE k = 0
        BY <4>1
      <4>2. CASE k # 0
        <5>1. k - 1 \in 0..n
          BY <4>2
        <5> QED
          BY <3>2, <4>2, <5>1
      <4> QED
        BY <4>1, <4>2
    <3>4. Part(h, n + 1)
      BY <3>3
    <3> HIDE DEF Part
    <3> QED
      BY <3>4
  <2>3. Nat \subseteq S
    BY <2>1, <2>2, Counted
  <2> QED
    BY <2>3
<1>2. ASSUME NEW m \in Nat, NEW n \in Nat, m <= n, NEW g, NEW h, Part(g, m), Part(h, n)
      PROVE  \A k \in 0..m : g[k] = h[k]
  <2> DEFINE S == {k \in Nat : k <= m => g[k] = h[k]}
  <2>1. 0 \in S
    BY <1>2
  <2>2. ASSUME NEW k \in Nat, k \in S PROVE k + 1 \in S
    BY <1>2, <2>2
  <2>3. Nat \subseteq S
    BY <2>1, <2>2, Counted
  <2> QED
    BY <2>3
<1>3. F = [k \in Nat |-> IF k = 0 THEN first ELSE step[k][F[k - 1]]]
  <2> DEFINE G(k) == CHOOSE g : Part(g, k)
  <2>1. \A k \in Nat : Part(G(k), k)
    BY <1>1
  <2> HIDE DEF Part
  <2>2. ASSUME NEW k \in Nat PROVE F[k] = IF k = 0 THEN first ELSE step[k][F[k - 1]]
    <3> DEFINE g == G(k)
    <3>1. Part(g, k)
      BY <2>1
    <3> HIDE DEF g
    <3>2. g[k] = IF k = 0 THEN first ELSE step[k][g[k - 1]]
      BY <3>1 DEF Part
    <3>3. ASSUME k # 0 PROVE g[k - 1] = G(k - 1)[k - 1]
      <4>1. k - 1 \in Nat /\ k - 1 <= k /\ k - 1 \in 0..(k - 1)
        BY <3>3
      <4> DEFINE h == G(k - 1)
      <4>2. Part(h, k - 1)
        BY <2>1, <4>1
      <4> HIDE DEF h
      <4>3. \A j \in 0..(k - 1) : h[j] = g[j]
        BY <1>2, <3>1, <4>1, <4>2
      <4>4. h[k - 1] = g[k - 1]
        BY <4>1, <4>3
      <4> QED
        BY <4>4 DEF h
    <3>4. F[k] = g[k] /\ (k # 0 => F[k - 1] = G(k - 1)[k - 1])
      BY DEF g
    <3> QED
      BY <3>2, <3>3, <3>4
  <2>3. F = [k \in Nat |-> F[k]]
    OBVIOUS
  <2> HIDE DEF F
  <2> QED
    BY <2>2, <2>3
<1> HIDE DEF F
<1>4. Goes(F, step, first)
  BY <1>3 DEF Goes
<1> QED
  BY <1>4

\* The first m of them, numbered from 1.
First(b, m) == [k \in 1..m |-> b[k - 1]]

\* A loop that goes through the offsets b[0], b[1] to b[m] stops at those.
Follows(next, b, m) ==
  /\ \A k \in 0..(m - 1) : b[k] \in DOMAIN next /\ next[b[k]] = b[k + 1]
  /\ b[m] \notin DOMAIN next

LEMMA StopsAre ==
  ASSUME NEW buf, NEW next, NEW b, NEW m \in Nat, Len(buf) \in Nat, m <= Len(buf),
         Follows(next, b, m)
  PROVE  Stops(buf, next, b[0]) = First(b, m)
<1> USE DEF Follows
<1> DEFINE at[k \in Nat] == IF k = 0 THEN b[0] ELSE next[at[k - 1]]
           n == CHOOSE n \in 0..Len(buf) : /\ at[n] \notin DOMAIN next
                                           /\ \A k \in 0..(n - 1) : at[k] \in DOMAIN next
<1>1. at = [k \in Nat |-> IF k = 0 THEN b[0] ELSE next[at[k - 1]]]
  <2> DEFINE step == [k \in Nat |-> next]
  <2> HIDE DEF step
  <2>1. PICK f : Goes(f, step, b[0])
    BY Recursion, Zenon
  <2>2. ASSUME NEW k \in Nat PROVE f[k] = IF k = 0 THEN b[0] ELSE next[f[k - 1]]
    <3>1. f[k] = IF k = 0 THEN b[0] ELSE step[k][f[k - 1]]
      BY <2>1, Zenon DEF Goes
    <3>2. step[k] = next
      BY DEF step
    <3> QED
      BY <3>1, <3>2, Zenon
  <2>3. f = [k \in Nat |-> f[k]]
    BY <2>1, Zenon DEF Goes
  <2>4. f = [k \in Nat |-> IF k = 0 THEN b[0] ELSE next[f[k - 1]]]
    BY <2>2, <2>3
  <2> QED
    BY <2>4
<1> HIDE DEF at
<1>2. \A k \in 0..m : at[k] = b[k]
  <2> DEFINE S == {k \in Nat : k <= m => at[k] = b[k]}
  <2>1. 0 \in S
    BY <1>1
  <2>2. ASSUME NEW k \in Nat, k \in S PROVE k + 1 \in S
    <3>1. k + 1 # 0 /\ (k + 1) - 1 = k /\ k + 1 \in Nat
      OBVIOUS
    <3>2. at[k + 1] = IF k + 1 = 0 THEN b[0] ELSE next[at[(k + 1) - 1]]
      BY <1>1, <3>1, Zenon
    <3>3. at[k + 1] = next[at[k]]
      BY <3>1, <3>2, Zenon
    <3>4. ASSUME k + 1 <= m PROVE at[k + 1] = b[k + 1]
      <4>1. k \in 0..(m - 1) /\ k <= m
        BY <3>4
      <4> QED
        BY <2>2, <3>3, <4>1
    <3> QED
      BY <3>1, <3>4
  <2>3. Nat \subseteq S
    BY <2>1, <2>2, Counted
  <2> QED
    BY <2>3
<1>3. /\ m \in 0..Len(buf) /\ at[m] \notin DOMAIN next
      /\ \A k \in 0..(m - 1) : at[k] \in DOMAIN next
  BY <1>2
<1>4. n \in 0..Len(buf) /\ at[n] \notin DOMAIN next /\ \A k \in 0..(n - 1) : at[k] \in DOMAIN next
  BY <1>3
<1> HIDE DEF n
<1>5. n = m
  BY <1>3, <1>4
<1>6. [k \in 1..n |-> at[k - 1]] = [k \in 1..m |-> b[k - 1]]
  BY <1>2, <1>5
<1> QED
  BY <1>6 DEF Stops, at, n, First

-----------------------------------------------------------------------------
\* A document stays of its kind.
KindInv == "kind" \in DOMAIN doc

LEMMA KindInit == ReadersInit => KindInv
BY DEF ReadersInit, KindInv

LEMMA KindNext == ASSUME KindInv, ReadersNext PROVE KindInv' /\ doc'.kind = doc.kind
<1>1. ASSUME NEW kind, NEW x, Grow(kind, [doc EXCEPT !.open = x])
      PROVE  KindInv' /\ doc'.kind = doc.kind
  BY <1>1 DEF Grow, KindInv
<1>2. ASSUME NEW open, NEW piece, NEW levels, Put(open, piece, levels)
      PROVE  KindInv' /\ doc'.kind = doc.kind
  BY <1>1, <1>2, Zenon DEF Put
<1>3. ASSUME NEW kind, NEW x, NEW y, Grow(kind, [doc EXCEPT !.extensions = x, !.list = y])
      PROVE  KindInv' /\ doc'.kind = doc.kind
  BY <1>3 DEF Grow, KindInv
<1>4. ASSUME NEW kind, NEW x, NEW y, Grow(kind, [doc EXCEPT !.count = x, !.list = y])
      PROVE  KindInv' /\ doc'.kind = doc.kind
  BY <1>4 DEF Grow, KindInv
<1>5. ASSUME NEW kind, NEW x, NEW y, Grow(kind, [doc EXCEPT !.certs = x, !.list = y])
      PROVE  KindInv' /\ doc'.kind = doc.kind
  BY <1>5 DEF Grow, KindInv
<1>6. ASSUME NEW kind, NEW x, Grow(kind, [doc EXCEPT !.text = x])
      PROVE  KindInv' /\ doc'.kind = doc.kind
  BY <1>6 DEF Grow, KindInv
<1>7. CASE GrowTree
  BY <1>1, <1>2, <1>7, Zenon DEF GrowTree
<1>8. CASE AddExtension
  BY <1>3, <1>8, Zenon DEF AddExtension
<1>9. CASE AddEntry
  <2>1. ASSUME NEW n, LET list == doc.list \o P2(Bytes(n))
                      IN Grow("scts", [doc EXCEPT !.count = @ + 1, !.list = list])
        PROVE  KindInv' /\ doc'.kind = doc.kind
    BY <1>4, <2>1, Zenon
  <2>2. ASSUME NEW n, LET list == doc.list \o EntryOf(doc.tls13, Bytes(n))
                      IN Grow("certificates", [doc EXCEPT !.certs = Append(@, Bytes(n)), !.list = list])
        PROVE  KindInv' /\ doc'.kind = doc.kind
    BY <1>5, <2>2, Zenon
  <2> QED
    BY <1>9, <2>1, <2>2 DEF AddEntry
<1>10. CASE AddPiece
  BY <1>6, <1>10, Zenon DEF AddPiece
<1> QED
  BY <1>7, <1>8, <1>9, <1>10, Zenon DEF ReadersNext

-----------------------------------------------------------------------------
(***************************************************************************)
(* Octets within a buffer, and the numbers that are written with them.     *)
(***************************************************************************)
Octets == Seq(Nat)

\* b begins at offset i of buf, as far as buf goes; and all of it does.
Shows(b, buf, i) == \A k \in 1..Len(b) : i + k <= Len(buf) => buf[i + k] = b[k]
Sits(b, buf, i)  == i + Len(b) <= Len(buf) /\ Shows(b, buf, i)

LEMMA ConcatIs ==
  ASSUME NEW S, NEW c \in Seq(S), NEW d \in Seq(S)
  PROVE  /\ c \o d \in Seq(S)
         /\ Len(c \o d) = Len(c) + Len(d)
         /\ \A k \in 1..Len(c) : (c \o d)[k] = c[k]
         /\ \A k \in 1..Len(d) : (c \o d)[Len(c) + k] = d[k]
OBVIOUS

LEMMA OctetIs ==
  ASSUME NEW b \in Octets, NEW k \in 1..Len(b)
  PROVE  b[k] \in Nat
BY DEF Octets

LEMMA ShowsParts ==
  ASSUME NEW c \in Octets, NEW d \in Octets, NEW buf \in Octets, NEW i \in Nat, Shows(c \o d, buf, i)
  PROVE  Shows(c, buf, i) /\ Shows(d, buf, i + Len(c))
<1> DEFINE b == c \o d
<1>1. /\ Len(b) = Len(c) + Len(d) /\ Len(c) \in Nat /\ Len(d) \in Nat /\ Len(buf) \in Nat
      /\ \A k \in 1..Len(c) : b[k] = c[k]
      /\ \A k \in 1..Len(d) : b[Len(c) + k] = d[k]
  BY ConcatIs DEF Octets
<1>2. \A k \in 1..Len(b) : i + k <= Len(buf) => buf[i + k] = b[k]
  BY Zenon DEF Shows
<1> HIDE DEF b
<1>3. ASSUME NEW k \in 1..Len(c), i + k <= Len(buf) PROVE buf[i + k] = c[k]
  BY <1>1, <1>2, <1>3
<1>4. ASSUME NEW k \in 1..Len(d), (i + Len(c)) + k <= Len(buf) PROVE buf[(i + Len(c)) + k] = d[k]
  <2>1. Len(c) + k \in 1..Len(b) /\ i + (Len(c) + k) <= Len(buf) /\ i + (Len(c) + k) = (i + Len(c)) + k
    BY <1>1, <1>4
  <2>2. buf[i + (Len(c) + k)] = b[Len(c) + k]
    BY <1>2, <2>1, Zenon
  <2> QED
    BY <1>1, <2>1, <2>2, Zenon
<1> QED
  BY <1>3, <1>4 DEF Shows

LEMMA SitsParts ==
  ASSUME NEW c \in Octets, NEW d \in Octets, NEW buf \in Octets, NEW i \in Nat, Sits(c \o d, buf, i)
  PROVE  Sits(c, buf, i) /\ Sits(d, buf, i + Len(c))
<1>1. Shows(c, buf, i) /\ Shows(d, buf, i + Len(c))
  BY ShowsParts, Zenon DEF Sits
<1>2. Len(c \o d) = Len(c) + Len(d) /\ Len(c) \in Nat /\ Len(d) \in Nat /\ Len(buf) \in Nat
  BY ConcatIs DEF Octets
<1>3. i + Len(c \o d) <= Len(buf)
  BY Zenon DEF Sits
<1> QED
  BY <1>1, <1>2, <1>3 DEF Sits

LEMMA SitsWhole ==
  ASSUME NEW b \in Octets
  PROVE  Sits(b, b, 0)
BY DEF Sits, Shows, Octets

LEMMA CutShows ==
  ASSUME NEW b \in Octets, NEW n \in 0..Len(b)
  PROVE  Cut(b, n) \in Octets /\ Len(Cut(b, n)) = n /\ Shows(b, Cut(b, n), 0)
BY DEF Cut, Shows, Octets

LEMMA SitsAre ==
  ASSUME NEW b \in Octets, NEW buf \in Octets, NEW i \in Nat, Sits(b, buf, i)
  PROVE  SubSeq(buf, i + 1, i + Len(b)) = b
BY SMTT(30) DEF Sits, Shows, Octets

\* What is read at offset j of something that sits at i.
LEMMA SitsAt ==
  ASSUME NEW b \in Octets, NEW buf \in Octets, NEW i \in Nat, Shows(b, buf, i),
         NEW j \in 0..(Len(b) - 1), i + j < Len(buf)
  PROVE  U8(buf, i + j) = b[j + 1] /\ b[j + 1] \in Nat
<1>1. j + 1 \in 1..Len(b) /\ i + (j + 1) <= Len(buf) /\ (i + j) + 1 = i + (j + 1) /\ Len(b) \in Nat
  BY DEF Octets
<1>2. buf[i + (j + 1)] = b[j + 1]
  BY <1>1, Zenon DEF Shows
<1> QED
  BY <1>1, <1>2 DEF U8, Octets

LEMMA Divided ==
  ASSUME NEW n \in Nat, NEW q, NEW r, q = n \div 256, r = n % 256
  PROVE  q \in Nat /\ r \in Nat /\ 256 * q + r = n
BY SMT

LEMMA DividedTwice ==
  ASSUME NEW n \in Nat, NEW q, NEW r, q = n \div 65536, r = n % 65536
  PROVE  q \in Nat /\ r \in Nat /\ 65536 * q + r = n
BY SMT

LEMMA N2Is ==
  ASSUME NEW n \in Nat
  PROVE  /\ N2(n) \in Octets /\ Len(N2(n)) = 2
         /\ 256 * N2(n)[1] + N2(n)[2] = n
<1> DEFINE q == n \div 256
           r == n % 256
<1>1. q \in Nat /\ r \in Nat /\ 256 * q + r = n
  BY Divided
<1>2. N2(n) = <<q, r>>
  BY DEF N2
<1> HIDE DEF q, r
<1> QED
  BY <1>1, <1>2, SMT DEF Octets

LEMMA N3Is ==
  ASSUME NEW n \in Nat
  PROVE  /\ N3(n) \in Octets /\ Len(N3(n)) = 3
         /\ 65536 * N3(n)[1] + (256 * N3(n)[2] + N3(n)[3]) = n
<1> DEFINE q   == n \div 65536
           low == n % 65536
           two == N2(low)
<1>1. q \in Nat /\ low \in Nat /\ 65536 * q + low = n
  BY DividedTwice, SMT
<1>2. N3(n) = <<q>> \o two
  BY SMT DEF N3
<1> HIDE DEF low, q
<1>3. two \in Octets /\ Len(two) = 2 /\ 256 * two[1] + two[2] = low
  BY <1>1, N2Is
<1> HIDE DEF two
<1> DEFINE three == <<q>> \o two
<1>4. three \in Octets /\ Len(three) = 3 /\ three[1] = q /\ three[2] = two[1] /\ three[3] = two[2]
  <2> DEFINE one == <<q>>
  <2>1. one \in Octets /\ Len(one) = 1 /\ one[1] = q
    BY <1>1 DEF Octets
  <2> HIDE DEF one
  <2>2. /\ one \o two \in Octets /\ Len(one \o two) = Len(one) + Len(two)
        /\ \A k \in 1..Len(one) : (one \o two)[k] = one[k]
        /\ \A k \in 1..Len(two) : (one \o two)[Len(one) + k] = two[k]
    <3>1. one \in Seq(Nat) /\ two \in Seq(Nat)
      BY <1>3, <2>1 DEF Octets
    <3> QED
      BY <3>1, ConcatIs DEF Octets
  <2> DEFINE sum == one \o two
  <2> HIDE DEF sum
  <2>3. sum \in Octets /\ Len(sum) = 3 /\ sum[1] = q /\ sum[2] = two[1] /\ sum[3] = two[2]
    BY <1>3, <2>1, <2>2 DEF sum
  <2> QED
    BY <2>3, Zenon DEF sum, one
<1> HIDE DEF three
<1>5. three[1] \in Nat /\ three[2] \in Nat /\ three[3] \in Nat
  <2>1. 1 \in 1..Len(three) /\ 2 \in 1..Len(three) /\ 3 \in 1..Len(three)
    BY <1>4
  <2> QED
    BY <1>4, <2>1, OctetIs, Zenon
<1>6. 65536 * three[1] + (256 * three[2] + three[3]) = n
  BY <1>1, <1>3, <1>4, <1>5, SMT
<1> QED
  BY <1>2, <1>4, <1>6, SMT DEF three

LEMMA U16Sits ==
  ASSUME NEW n \in Nat, NEW buf \in Octets, NEW i \in Nat, Sits(N2(n), buf, i)
  PROVE  U16(buf, i) = n
<1> DEFINE b == N2(n)
<1>1. b \in Octets /\ Len(b) = 2 /\ 256 * b[1] + b[2] = n
  BY N2Is
<1>2. Shows(b, buf, i) /\ i + 2 <= Len(buf) /\ Len(buf) \in Nat
  BY <1>1 DEF Sits, Octets
<1> HIDE DEF b
<1>3. /\ 0 \in 0..(Len(b) - 1) /\ i + 0 < Len(buf)
      /\ 1 \in 0..(Len(b) - 1) /\ i + 1 < Len(buf)
  BY <1>1, <1>2
<1>4. U8(buf, i + 0) = b[0 + 1] /\ U8(buf, i + 1) = b[1 + 1]
  BY <1>1, <1>2, <1>3, SitsAt, ZenonT(30)
<1>5. U8(buf, i) = b[1] /\ U8(buf, i + 1) = b[2]
  BY <1>4
<1> QED
  BY <1>1, <1>5, SMT DEF U16

LEMMA U24Sits ==
  ASSUME NEW n \in Nat, NEW buf \in Octets, NEW i \in Nat, Sits(N3(n), buf, i)
  PROVE  U24(buf, i) = n
<1> DEFINE b == N3(n)
<1>1. b \in Octets /\ Len(b) = 3 /\ 65536 * b[1] + (256 * b[2] + b[3]) = n
  BY N3Is, SMT
<1> HIDE DEF b
<1>2. Shows(b, buf, i) /\ i + 3 <= Len(buf) /\ Len(buf) \in Nat
  BY <1>1, SMT DEF Sits, Octets, b
<1>3. /\ 0 \in 0..(Len(b) - 1) /\ i + 0 < Len(buf)
      /\ 1 \in 0..(Len(b) - 1) /\ i + 1 < Len(buf)
      /\ 2 \in 0..(Len(b) - 1) /\ i + 2 < Len(buf)
  BY <1>1, <1>2, SMT
<1>4. U8(buf, i + 0) = b[0 + 1] /\ U8(buf, i + 1) = b[1 + 1] /\ U8(buf, i + 2) = b[2 + 1]
  <2>1. b \in Octets
    BY <1>1
  <2> QED
    BY <1>2, <1>3, <2>1, SitsAt, Zenon
<1>5. U8(buf, i) = b[1] /\ U8(buf, i + 1) = b[2] /\ U8(buf, (i + 1) + 1) = b[3]
  BY <1>4
<1> QED
  BY <1>1, <1>5, SMT DEF U24, U16

-----------------------------------------------------------------------------
(***************************************************************************)
(* A row: octets made of items one behind the other, the k-th from c[k-1]  *)
(* to c[k].                                                                *)
(***************************************************************************)
Row(b, items, c) ==
  /\ b \in Octets /\ items \in Seq(Octets) /\ c \in [0..Len(items) -> Nat]
  /\ c[0] = 0 /\ c[Len(items)] = Len(b)
  /\ \A k \in 1..Len(items) : c[k] = c[k - 1] + Len(items[k]) /\ Sits(items[k], b, c[k - 1])

IsRow(b, items) == \E c : Row(b, items, c)

LEMMA RowEmpty == IsRow(<<>>, <<>>)
<1> DEFINE c == [k \in 0..0 |-> 0]
<1>1. Row(<<>>, <<>>, c)
  BY DEF Row, Octets
<1> QED
  BY <1>1 DEF IsRow

LEMMA SitsWithin ==
  ASSUME NEW b \in Octets, NEW buf \in Octets, NEW i \in Nat, Shows(b, buf, i),
         NEW x \in Octets, NEW j \in Nat, Sits(x, b, j)
  PROVE  Shows(x, buf, i + j)
<1>1. j + Len(x) <= Len(b) /\ Len(x) \in Nat /\ Len(b) \in Nat /\ Len(buf) \in Nat
  BY DEF Sits, Octets
<1>2. \A k \in 1..Len(x) : j + k <= Len(b) => b[j + k] = x[k]
  BY Zenon DEF Sits, Shows
<1>3. ASSUME NEW k \in 1..Len(x), (i + j) + k <= Len(buf) PROVE buf[(i + j) + k] = x[k]
  <2>1. j + k \in 1..Len(b) /\ i + (j + k) <= Len(buf) /\ i + (j + k) = (i + j) + k /\ j + k <= Len(b)
    BY <1>1, <1>3
  <2>2. buf[i + (j + k)] = b[j + k]
    BY <2>1, Zenon DEF Shows
  <2> QED
    BY <1>2, <2>1, <2>2, Zenon
<1> QED
  BY <1>3, Zenon DEF Shows

LEMMA RowGrows ==
  ASSUME NEW b, NEW items, IsRow(b, items), NEW x \in Octets
  PROVE  IsRow(b \o x, Append(items, x))
<1>1. PICK c : Row(b, items, c)
  BY DEF IsRow
<1> DEFINE n    == Len(items)
           more == Append(items, x)
           sum  == b \o x
           d    == [k \in 0..(n + 1) |-> IF k = n + 1 THEN Len(sum) ELSE c[k]]
<1>2. b \in Octets /\ items \in Seq(Octets) /\ c \in [0..n -> Nat] /\ n \in Nat /\ c[0] = 0 /\ c[n] = Len(b)
  BY <1>1 DEF Row
<1>3. /\ more \in Seq(Octets) /\ Len(more) = n + 1 /\ more[n + 1] = x
      /\ \A k \in 1..n : more[k] = items[k]
  BY <1>2, AppendProperties
<1>4. sum \in Octets /\ Len(sum) = Len(b) + Len(x) /\ Len(sum) \in Nat /\ Len(b) \in Nat /\ Len(x) \in Nat
  <2>1. b \in Seq(Nat) /\ x \in Seq(Nat)
    BY <1>2 DEF Octets
  <2> QED
    BY <2>1, ConcatIs DEF Octets
<1>5. Sits(b, sum, 0) /\ Sits(x, sum, Len(b))
  <2>1. Sits(b, sum, 0) /\ Sits(x, sum, 0 + Len(b))
    BY <1>2, <1>4, SitsWhole, SitsParts, Zenon
  <2> QED
    BY <1>4, <2>1
<1> HIDE DEF sum, more, n
<1>6. /\ d \in [0..Len(more) -> Nat] /\ d[0] = 0 /\ d[n + 1] = Len(sum)
      /\ \A k \in 0..n : d[k] = c[k]
  BY <1>2, <1>3, <1>4
<1> HIDE DEF d
<1>7. ASSUME NEW k \in 1..Len(more) PROVE d[k] = d[k - 1] + Len(more[k]) /\ Sits(more[k], sum, d[k - 1])
  <2>1. CASE k = n + 1
    <3>1. k - 1 = n /\ n \in 0..n
      BY <1>2, <2>1
    <3>2. d[k - 1] = Len(b) /\ more[k] = x /\ d[k] = Len(sum)
      BY <1>2, <1>3, <1>6, <2>1, <3>1, Zenon
    <3> QED
      BY <1>4, <1>5, <3>2
  <2>2. CASE k # n + 1
    <3>1. k \in 1..n /\ k \in 0..n /\ k - 1 \in 0..n
      BY <1>2, <1>3, <2>2
    <3>2. d[k] = c[k] /\ d[k - 1] = c[k - 1] /\ more[k] = items[k]
      BY <1>3, <1>6, <3>1, Zenon
    <3>3. c[k] = c[k - 1] + Len(items[k]) /\ Sits(items[k], b, c[k - 1])
      BY <1>1, <3>1, Zenon DEF Row, n
    <3>4. items[k] \in Octets /\ c[k - 1] \in Nat
      BY <1>2, <3>1 DEF n
    <3>5. Shows(items[k], sum, 0 + c[k - 1])
      BY <1>2, <1>4, <1>5, <3>3, <3>4, SitsWithin DEF Sits
    <3>6. c[k - 1] + Len(items[k]) <= Len(b) /\ Len(items[k]) \in Nat
      BY <3>3, <3>4 DEF Sits, Octets
    <3>7. Sits(items[k], sum, c[k - 1])
      BY <1>4, <3>4, <3>5, <3>6 DEF Sits
    <3> QED
      BY <3>2, <3>3, <3>7, Zenon
  <2> QED
    BY <2>1, <2>2, Zenon
<1>8. d[Len(more)] = Len(sum)
  BY <1>3, <1>6, Zenon
<1>9. Row(sum, more, d)
  BY <1>3, <1>4, <1>6, <1>7, <1>8, Zenon DEF Row
<1> QED
  BY <1>9, Zenon DEF IsRow, sum, more

LEMMA RowOrder ==
  ASSUME NEW b, NEW items, NEW c, Row(b, items, c)
  PROVE  /\ \A j, k \in 0..Len(items) : j <= k => c[j] <= c[k]
         /\ (\A k \in 1..Len(items) : items[k] # <<>>) => \A k \in 0..Len(items) : k <= c[k]
<1> DEFINE n == Len(items)
<1>1. n \in Nat /\ c \in [0..n -> Nat] /\ \A k \in 1..n : c[k] = c[k - 1] + Len(items[k]) /\ items[k] \in Octets
  BY DEF Row
<1> HIDE DEF n
<1>2. ASSUME NEW k \in 1..n PROVE c[k - 1] <= c[k] /\ (items[k] # <<>> => c[k - 1] < c[k])
  <2>1. items[k] \in Seq(Nat)
    BY <1>1 DEF Octets
  <2>2. Len(items[k]) \in Nat /\ (items[k] # <<>> => Len(items[k]) # 0)
    BY <2>1, EmptySeq
  <2>3. k \in 0..n /\ k - 1 \in 0..n
    BY <1>1
  <2>4. c[k] \in Nat /\ c[k - 1] \in Nat /\ c[k] = c[k - 1] + Len(items[k])
    BY <1>1, <2>3
  <2> QED
    BY <2>2, <2>4
<1>3. ASSUME NEW j \in 0..n PROVE \A k \in 0..n : j <= k => c[j] <= c[k]
  <2> DEFINE S == {k \in Nat : k \in 0..n /\ j <= k => c[j] <= c[k]}
  <2>1. 0 \in S
    BY <1>1
  <2>2. ASSUME NEW k \in Nat, k \in S PROVE k + 1 \in S
    <3>1. CASE k + 1 \in 0..n /\ j <= k
      <4>1. k \in 0..n /\ k + 1 \in 1..n /\ (k + 1) - 1 = k
        BY <1>1, <3>1
      <4>2. c[k] <= c[k + 1]
        BY <1>2, <4>1
      <4>3. c[j] \in Nat /\ c[k] \in Nat /\ c[k + 1] \in Nat /\ c[j] <= c[k]
        BY <1>1, <2>2, <3>1, <4>1
      <4> QED
        BY <4>2, <4>3
    <3>2. CASE ~(k + 1 \in 0..n /\ j <= k)
      <4>1. CASE k + 1 \in 0..n /\ j <= k + 1
        <5>1. j = k + 1
          BY <1>1, <3>2, <4>1
        <5> QED
          BY <1>1, <5>1
      <4>2. CASE ~(k + 1 \in 0..n /\ j <= k + 1)
        BY <4>2
      <4> QED
        BY <4>1, <4>2
    <3> QED
      BY <3>1, <3>2
  <2>3. Nat \subseteq S
    BY <2>1, <2>2, Counted
  <2> QED
    BY <1>1, <2>3
<1>4. ASSUME \A k \in 1..n : items[k] # <<>> PROVE \A k \in 0..n : k <= c[k]
  <2> DEFINE S == {k \in Nat : k \in 0..n => k <= c[k]}
  <2>1. 0 \in S
    BY <1>1
  <2>2. ASSUME NEW k \in Nat, k \in S PROVE k + 1 \in S
    <3>1. CASE k + 1 \in 0..n
      <4>1. k \in 0..n /\ k + 1 \in 1..n /\ (k + 1) - 1 = k
        BY <1>1, <3>1
      <4>2. c[k] < c[k + 1]
        BY <1>2, <1>4, <4>1
      <4>3. c[k] \in Nat /\ c[k + 1] \in Nat /\ k <= c[k]
        BY <1>1, <2>2, <3>1, <4>1
      <4> QED
        BY <4>2, <4>3
    <3> QED
      BY <3>1
  <2>3. Nat \subseteq S
    BY <2>1, <2>2, Counted
  <2> QED
    BY <1>1, <2>3
<1> QED
  BY <1>3, <1>4, Zenon DEF n

Function(f) == f = [k \in DOMAIN f |-> f[k]]

LEMMA AppendIsIn ==
  ASSUME NEW S, NEW n \in Nat, NEW old \in Seq(S), Len(old) = n, NEW item \in S,
         NEW new, Function(new), DOMAIN new = 1..(n + 1),
         \A k \in 1..n : new[k] = old[k], new[n + 1] = item
  PROVE  Append(old, item) = new
<1> DEFINE s == Append(old, item)
<1>1. /\ s \in Seq(S) /\ Len(s) = n + 1 /\ s[n + 1] = item
      /\ \A k \in 1..n : s[k] = old[k]
  BY AppendProperties
<1> HIDE DEF s
<1>2. s = [k \in 1..(n + 1) |-> s[k]] /\ new = [k \in 1..(n + 1) |-> new[k]]
  BY <1>1 DEF Function
<1>3. ASSUME NEW k \in 1..(n + 1) PROVE s[k] = new[k]
  <2>1. CASE k = n + 1
    BY <1>1, <2>1
  <2>2. CASE k # n + 1
    <3>1. k \in 1..n
      BY <2>2
    <3> QED
      BY <1>1, <3>1
  <2> QED
    BY <2>1, <2>2
<1>4. s = new
  BY <1>2, <1>3
<1> QED
  BY <1>4 DEF s

\* A loop over the items of a row that begins at offset i stops at each.
Walks(next, items, c, i) ==
  \A k \in 1..Len(items) : items[k] # <<>> /\ i + c[k - 1] \in DOMAIN next /\ next[i + c[k - 1]] = i + c[k]

Begins(items, c, i) == [k \in 1..Len(items) |-> i + c[k - 1]]

LEMMA RowStops ==
  ASSUME NEW b, NEW items, NEW c, Row(b, items, c), NEW buf \in Octets, NEW i \in Nat,
         i + Len(b) <= Len(buf), NEW next, Walks(next, items, c, i), i + Len(b) \notin DOMAIN next
  PROVE  Stops(buf, next, i) = Begins(items, c, i)
<1> DEFINE m == Len(items)
           a == [k \in 0..m |-> i + c[k]]
<1>1. m \in Nat /\ c \in [0..m -> Nat] /\ c[0] = 0 /\ c[m] = Len(b) /\ Len(b) \in Nat /\ Len(buf) \in Nat
  BY DEF Row, Octets
<1>2. m <= c[m]
  <2>1. \A k \in 1..Len(items) : items[k] # <<>>
    BY Zenon DEF Walks
  <2> QED
    BY <1>1, <2>1, RowOrder
<1>3. m <= Len(buf)
  BY <1>1, <1>2
<1> HIDE DEF m
<1>4. ASSUME NEW k \in 0..(m - 1) PROVE a[k] \in DOMAIN next /\ next[a[k]] = a[k + 1]
  <2>1. k + 1 \in 1..m /\ k \in 0..m /\ k + 1 \in 0..m /\ (k + 1) - 1 = k
    BY <1>1
  <2>2. i + c[k] \in DOMAIN next /\ next[i + c[k]] = i + c[k + 1]
    BY <2>1, Zenon DEF m, Walks
  <2>3. a[k] = i + c[k] /\ a[k + 1] = i + c[k + 1]
    BY <2>1
  <2> QED
    BY <2>2, <2>3, Zenon
<1>5. a[m] = i + Len(b) /\ a[0] = i
  BY <1>1
<1> HIDE DEF a
<1>6. Stops(buf, next, a[0]) = First(a, m)
  <2>1. a[m] \notin DOMAIN next
    BY <1>5
  <2>2. \A k \in 0..(m - 1) : a[k] \in DOMAIN next /\ next[a[k]] = a[k + 1]
    BY <1>4
  <2>3. m \in Nat /\ Len(buf) \in Nat /\ m <= Len(buf)
    BY <1>1, <1>3
  <2>4. Follows(next, a, m)
    BY <2>1, <2>2 DEF Follows
  <2> QED
    BY <2>3, <2>4, StopsAre
<1>7. ASSUME NEW k \in 1..m PROVE a[k - 1] = i + c[k - 1]
  BY <1>1 DEF a
<1>8. First(a, m) = [k \in 1..m |-> i + c[k - 1]]
  BY <1>7 DEF First
<1> QED
  BY <1>5, <1>6, <1>8, Zenon DEF m, Begins

LEMMA AppendIs ==
  ASSUME NEW n \in Nat, NEW old \in Seq(Octets), Len(old) = n, NEW item \in Octets,
         NEW new, Function(new), DOMAIN new = 1..(n + 1),
         \A k \in 1..n : new[k] = old[k], new[n + 1] = item
  PROVE  Append(old, item) = new
BY AppendIsIn

-----------------------------------------------------------------------------
(***************************************************************************)
(* Key exchanges.                                                          *)
(***************************************************************************)
LEMMA BytesAre ==
  ASSUME NEW n \in Nat
  PROVE  Bytes(n) \in Octets /\ Len(Bytes(n)) = n /\ \A k \in 1..n : Bytes(n)[k] = 5
BY DEF Bytes, Octets

LEMMA OneOctet ==
  ASSUME NEW x \in Nat
  PROVE  <<x>> \in Octets /\ Len(<<x>>) = 1
BY DEF Octets

LEMMA OctetsJoin ==
  ASSUME NEW c \in Octets, NEW d \in Octets
  PROVE  c \o d \in Octets /\ Len(c \o d) = Len(c) + Len(d) /\ Len(c) \in Nat /\ Len(d) \in Nat
<1>1. c \in Seq(Nat) /\ d \in Seq(Nat)
  BY DEF Octets
<1> QED
  BY <1>1, ConcatIs DEF Octets

LEMMA U8Sits ==
  ASSUME NEW x \in Nat, NEW buf \in Octets, NEW i \in Nat, Sits(<<x>>, buf, i)
  PROVE  U8(buf, i) = x /\ i < Len(buf)
<1>1. Len(<<x>>) = 1 /\ <<x>>[1] = x /\ Len(buf) \in Nat
  BY DEF Octets
<1>2. i + 1 <= Len(buf) /\ buf[i + 1] = <<x>>[1]
  BY <1>1 DEF Sits, Shows
<1> QED
  BY <1>1, <1>2 DEF U8

LEMMA PrefixedAre ==
  ASSUME NEW b \in Octets
  PROVE  /\ P1(b) \in Octets /\ Len(P1(b)) = 1 + Len(b)
         /\ P2(b) \in Octets /\ Len(P2(b)) = 2 + Len(b)
         /\ P3(b) \in Octets /\ Len(P3(b)) = 3 + Len(b)
         /\ Len(b) \in Nat
<1>1. Len(b) \in Nat
  BY DEF Octets
<1>2. N2(Len(b)) \in Octets /\ Len(N2(Len(b))) = 2
  BY <1>1, N2Is
<1>3. N3(Len(b)) \in Octets /\ Len(N3(Len(b))) = 3
  BY <1>1, N3Is, SMT
<1>4. <<Len(b)>> \in Octets /\ Len(<<Len(b)>>) = 1
  BY <1>1, OneOctet
<1> QED
  BY <1>1, <1>2, <1>3, <1>4, OctetsJoin, ZenonT(30) DEF P1, P2, P3

\* A length and what it counts.
LEMMA P1Sits ==
  ASSUME NEW b \in Octets, NEW buf \in Octets, NEW i \in Nat, Sits(P1(b), buf, i)
  PROVE  U8(buf, i) = Len(b) /\ Sits(b, buf, i + 1)
<1>1. Len(b) \in Nat /\ <<Len(b)>> \in Octets /\ Len(<<Len(b)>>) = 1
  BY OneOctet DEF Octets
<1>2. Sits(<<Len(b)>>, buf, i) /\ Sits(b, buf, i + Len(<<Len(b)>>))
  BY <1>1, SitsParts, Zenon DEF P1
<1> QED
  BY <1>1, <1>2, U8Sits

LEMMA P2Sits ==
  ASSUME NEW b \in Octets, NEW buf \in Octets, NEW i \in Nat, Sits(P2(b), buf, i)
  PROVE  U16(buf, i) = Len(b) /\ Sits(b, buf, i + 2)
<1> DEFINE n == N2(Len(b))
<1>1. Len(b) \in Nat /\ n \in Octets /\ Len(n) = 2
  BY N2Is DEF Octets
<1>2. Sits(n, buf, i) /\ Sits(b, buf, i + Len(n))
  BY <1>1, SitsParts, Zenon DEF P2
<1> QED
  BY <1>1, <1>2, U16Sits

LEMMA P3Sits ==
  ASSUME NEW b \in Octets, NEW buf \in Octets, NEW i \in Nat, Sits(P3(b), buf, i)
  PROVE  U24(buf, i) = Len(b) /\ Sits(b, buf, i + 3)
<1> DEFINE n == N3(Len(b))
<1>1. Len(b) \in Nat /\ n \in Octets /\ Len(n) = 3
  BY N3Is, SMT DEF Octets
<1>2. Sits(n, buf, i) /\ Sits(b, buf, i + Len(n))
  BY <1>1, SitsParts, Zenon DEF P3
<1> QED
  BY <1>1, <1>2, U24Sits, SMT

\* What is read behind the public values: the algorithm of the signature, or nothing.
Signature(signed, named) == IF signed /\ named THEN 1027 ELSE Absent
SignatureAt(body, named, after) == IF named /\ Len(body) >= after + 2 THEN U16(body, after) ELSE Absent

LEMMA TrailerIsRead ==
  ASSUME NEW a \in Octets, NEW signed \in BOOLEAN, NEW named \in BOOLEAN,
         NEW body, body = a \o Trailer(signed, named)
  PROVE  /\ body \in Octets /\ Sits(a, body, 0) /\ Len(a) \in Nat
         /\ SignatureAt(body, named, Len(a)) = Signature(signed, named)
<1> DEFINE t == Trailer(signed, named)
           n == N2(1027)
           p == P2(Bytes(4))
<1>1. n \in Octets /\ Len(n) = 2
  BY N2Is, SMT
<1>2. p \in Octets /\ Len(p) \in Nat
  BY BytesAre, PrefixedAre DEF Octets
<1>3. n \o p \in Octets /\ Len(n \o p) = 2 + Len(p)
  <2> HIDE DEF n, p
  <2> QED
    BY <1>1, <1>2, OctetsJoin
<1>4. t = IF signed THEN (IF named THEN n ELSE <<>>) \o p ELSE <<>>
  BY SMT DEF Trailer
<1>5. 1027 \in Nat
  BY SMT
<1> DEFINE number == 1027
<1>6. n = N2(number)
  BY SMT
<1> HIDE DEF number, n, p, t
<1>7. <<>> \in Octets
  BY DEF Octets
<1>8. t \in Octets
  <2>1. (IF named THEN n ELSE <<>>) \in Octets
    BY <1>1, <1>7, Zenon
  <2>2. (IF named THEN n ELSE <<>>) \o p \in Octets
    BY <1>2, <2>1, OctetsJoin, Zenon
  <2> QED
    BY <1>4, <1>7, <2>2, Zenon
<1>9. body \in Octets /\ Len(body) = Len(a) + Len(t) /\ Len(a) \in Nat /\ Len(t) \in Nat
  BY <1>8, OctetsJoin DEF t
<1>10. Sits(a, body, 0) /\ Sits(t, body, 0 + Len(a))
  <2>1. Sits(body, body, 0)
    BY <1>9, SitsWhole
  <2> QED
    BY <1>8, <1>9, <2>1, SitsParts, Zenon DEF t
<1>11. ASSUME signed, named PROVE Len(body) >= Len(a) + 2 /\ U16(body, Len(a)) = number
  <2>1. t = n \o p
    BY <1>4, <1>11, Zenon
  <2>2. Sits(n, body, Len(a))
    BY <1>1, <1>2, <1>9, <1>10, <2>1, SitsParts
  <2>3. U16(body, Len(a)) = number
    BY <1>5, <1>6, <1>9, <2>2, U16Sits DEF number
  <2> QED
    BY <1>2, <1>3, <1>9, <2>1, <2>3
<1>12. ASSUME ~signed PROVE ~(Len(body) >= Len(a) + 2)
  <2>1. t = <<>>
    BY <1>4, <1>12, Zenon
  <2>2. Len(t) = 0
    BY <2>1
  <2> QED
    BY <1>9, <2>2
<1>13. SignatureAt(body, named, Len(a)) = Signature(signed, named)
  BY <1>11, <1>12, Zenon DEF number, Signature, SignatureAt
<1> QED
  BY <1>9, <1>10, <1>13, Zenon

LEMMA CurveIs == <<3>> \o N2(29) \in Octets /\ Len(<<3>> \o N2(29)) = 3
<1> DEFINE x == <<3>>
           n == N2(29)
<1>1. x \in Octets /\ n \in Octets /\ Len(x) = 1 /\ Len(n) = 2
  BY OneOctet, N2Is
<1> HIDE DEF x, n
<1> DEFINE c == x \o n
<1>2. c \in Octets /\ Len(c) = Len(x) + Len(n)
  BY <1>1, OctetsJoin, Zenon
<1> HIDE DEF c
<1>3. c \in Octets /\ Len(c) = 3
  BY <1>1, <1>2
<1> QED
  BY <1>3, Zenon DEF c, x, n

LEMMA EcdheIsRead ==
  ASSUME NEW d, Curved(d.kx), d.named \in BOOLEAN, d.size \in Nat
  PROVE  ParseServerKeyExchange(KeyExchangeOf(d), d.kx, d.named)
           = [group |-> 29, dhBits |-> Absent, signature |-> Signature(Signed(d.kx), d.named)]
<1> DEFINE size  == d.size
           named == d.named
           kx    == d.kx
           signed == Signed(kx)
           curve == <<3>> \o N2(29)
           point == P1(Bytes(size))
           a     == curve \o point
           body  == a \o Trailer(signed, named)
<1>1. KeyExchangeOf(d) = body
  BY Zenon DEF KeyExchangeOf
<1>2. size \in Nat /\ named \in BOOLEAN /\ signed \in BOOLEAN /\ kx \in {"ECDHE", "ECDH"}
  BY DEF Signed, Curved
<1> HIDE DEF size, named, signed, kx
<1>3. /\ <<3>> \in Octets /\ Len(<<3>>) = 1 /\ N2(29) \in Octets /\ Len(N2(29)) = 2
      /\ Bytes(size) \in Octets /\ Len(Bytes(size)) = size
      /\ point \in Octets /\ Len(point) = 1 + size
  <2>1. <<3>> \in Octets /\ Len(<<3>>) = 1
    BY OneOctet
  <2>2. N2(29) \in Octets /\ Len(N2(29)) = 2
    BY N2Is
  <2>3. Bytes(size) \in Octets /\ Len(Bytes(size)) = size
    BY <1>2, BytesAre
  <2>4. point \in Octets /\ Len(point) = 1 + size
    BY <2>3, PrefixedAre
  <2> QED
    BY <2>1, <2>2, <2>3, <2>4
<1>4. curve \in Octets /\ Len(curve) = 3
  BY CurveIs
<1> HIDE DEF point
<1>5. a \in Octets /\ Len(a) = 4 + size
  <2> HIDE DEF curve
  <2>1. a \in Octets /\ Len(a) = Len(curve) + Len(point)
    BY <1>3, <1>4, OctetsJoin, Zenon
  <2> QED
    BY <1>2, <1>3, <1>4, <2>1
<1>6. /\ body \in Octets /\ Sits(a, body, 0)
      /\ SignatureAt(body, named, Len(a)) = Signature(signed, named)
  <2> HIDE DEF a
  <2> QED
    BY <1>2, <1>5, TrailerIsRead, Zenon
<1> HIDE DEF body
<1>7. Sits(curve, body, 0) /\ Sits(point, body, 3)
  <2> HIDE DEF curve
  <2>1. Sits(curve, body, 0) /\ Sits(point, body, 0 + Len(curve))
    BY <1>3, <1>4, <1>6, SitsParts
  <2> QED
    BY <1>4, <2>1
<1>8. U8(body, 0) = 3 /\ U16(body, 1) = 29
  <2>1. Sits(<<3>>, body, 0) /\ Sits(N2(29), body, 0 + Len(<<3>>))
    BY <1>3, <1>6, <1>7, SitsParts
  <2>2. Sits(N2(29), body, 1)
    BY <1>3, <2>1
  <2> QED
    BY <1>6, <2>1, <2>2, U8Sits, U16Sits
<1>9. U8(body, 3) = size
  BY <1>3, <1>6, <1>7, P1Sits DEF point
<1>10. SignatureAt(body, named, 4 + U8(body, 3)) = Signature(signed, named)
  BY <1>5, <1>6, <1>9
<1>11. ParseServerKeyExchange(body, kx, named)
         = [group |-> U16(body, 1), dhBits |-> Absent,
            signature |-> SignatureAt(body, named, 4 + U8(body, 3))]
  BY <1>2, <1>8, SMT DEF ParseServerKeyExchange, SignatureAt
<1>12. ParseServerKeyExchange(body, kx, named)
         = [group |-> 29, dhBits |-> Absent, signature |-> Signature(signed, named)]
  BY <1>8, <1>10, <1>11
<1> QED
  BY <1>1, <1>12, Zenon DEF named, signed, kx

\* The significant octets of a prime with zeros in front.
LEMMA PrimeIs ==
  ASSUME NEW zeros \in Nat, NEW size \in Nat \ {0},
         NEW p, p = [i \in 1..zeros |-> 0] \o Bytes(size)
  PROVE  p \in Octets /\ Len(p) = zeros + size /\ Significant(p) = size
<1> DEFINE z == [i \in 1..zeros |-> 0]
<1>1. z \in Octets /\ Len(z) = zeros /\ \A k \in 1..zeros : z[k] = 0
  BY DEF Octets
<1>2. Bytes(size) \in Octets /\ Len(Bytes(size)) = size /\ \A k \in 1..size : Bytes(size)[k] = 5
  BY BytesAre
<1> HIDE DEF z
<1>3. p \in Octets /\ Len(p) = zeros + size
  BY <1>1, <1>2, OctetsJoin DEF z
<1>4. /\ \A k \in 1..zeros : p[k] = 0
      /\ \A k \in 1..size : p[zeros + k] = 5
  <2>1. z \in Seq(Nat) /\ Bytes(size) \in Seq(Nat) /\ p = z \o Bytes(size)
    BY <1>1, <1>2 DEF Octets, z
  <2>2. /\ \A k \in 1..Len(z) : p[k] = z[k]
        /\ \A k \in 1..Len(Bytes(size)) : p[Len(z) + k] = Bytes(size)[k]
    BY <2>1, ConcatIs, SMTT(30)
  <2> QED
    BY <1>1, <1>2, <2>2
<1>5. DOMAIN p = 1..(zeros + size)
  BY <1>3 DEF Octets
<1> DEFINE IsFirst(i) == p[i] # 0 /\ \A j \in 1..(i - 1) : p[j] = 0
           i == CHOOSE i \in DOMAIN p : IsFirst(i)
<1>6. zeros + 1 \in DOMAIN p /\ p[zeros + 1] = 5 /\ \A j \in 1..((zeros + 1) - 1) : p[j] = 0
  BY <1>4, <1>5
<1>7. IsFirst(zeros + 1)
  BY <1>6
<1>8. i \in DOMAIN p /\ IsFirst(i)
  BY <1>6, <1>7
<1> HIDE DEF i
<1>9. i = zeros + 1
  <2>1. ~(i <= zeros)
    BY <1>4, <1>5, <1>8
  <2>2. ~(zeros + 1 < i)
    BY <1>5, <1>6, <1>8
  <2> QED
    BY <1>5, <1>8, <2>1, <2>2
<1>10. ~(\A k \in DOMAIN p : p[k] = 0)
  <2>1. p[zeros + 1] # 0
    BY <1>6
  <2> QED
    BY <1>6, <2>1, Zenon
<1>11. Significant(p) = Len(p) + 1 - i
  BY <1>10, Zenon DEF Significant, i
<1> QED
  BY <1>3, <1>9, <1>11

LEMMA DheIsRead ==
  ASSUME NEW d, d.kx \in {"DHE", "DH"}, d.named \in BOOLEAN, d.size \in Nat \ {0}, d.zeros \in Nat
  PROVE  ParseServerKeyExchange(KeyExchangeOf(d), d.kx, d.named)
           = [group |-> Absent, dhBits |-> 8 * d.size, signature |-> Signature(Signed(d.kx), d.named)]
<1> DEFINE size  == d.size
           zeros == d.zeros
           named == d.named
           kx    == d.kx
           signed == Signed(kx)
           prime == [i \in 1..zeros |-> 0] \o Bytes(size)
           p     == P2(prime)
           g     == P2(<<2>>)
           y     == P2(Bytes(size))
           pg    == p \o g
           a     == pg \o y
           body  == a \o Trailer(signed, named)
<1>1. KeyExchangeOf(d) = body
  <2>1. ~Curved(d.kx)
    BY DEF Curved
  <2> QED
    BY <2>1, SMT DEF KeyExchangeOf
<1>2. /\ size \in Nat \ {0} /\ zeros \in Nat /\ named \in BOOLEAN
      /\ signed \in BOOLEAN /\ kx \in {"DHE", "DH"}
  BY DEF Signed
<1> HIDE DEF size, zeros, named, signed, kx
<1>3. prime \in Octets /\ Len(prime) = zeros + size /\ Significant(prime) = size
  <2>1. size \in Nat \ {0} /\ zeros \in Nat
    BY <1>2, Zenon
  <2> QED
    BY <2>1, PrimeIs, ZenonT(60)
<1> HIDE DEF prime
<1>4. /\ <<2>> \in Octets /\ Len(<<2>>) = 1
      /\ Bytes(size) \in Octets /\ Len(Bytes(size)) = size
  <2>1. <<2>> \in Octets /\ Len(<<2>>) = 1
    BY OneOctet
  <2> QED
    BY <1>2, <2>1, BytesAre
<1>5. /\ p \in Octets /\ Len(p) = 2 + (zeros + size)
      /\ g \in Octets /\ Len(g) = 3
      /\ y \in Octets /\ Len(y) = 2 + size
  <2>1. p \in Octets /\ Len(p) = 2 + (zeros + size)
    BY <1>3, PrefixedAre
  <2>2. g \in Octets /\ Len(g) = 3
    <3>1. g \in Octets /\ Len(g) = 2 + Len(<<2>>)
      BY <1>4, PrefixedAre, Zenon
    <3> QED
      BY <1>4, <3>1
  <2>3. y \in Octets /\ Len(y) = 2 + size
    BY <1>4, PrefixedAre
  <2> QED
    BY <2>1, <2>2, <2>3
<1> HIDE DEF p, g, y
<1>6. pg \in Octets /\ Len(pg) = 5 + (zeros + size)
  <2>1. pg \in Octets /\ Len(pg) = Len(p) + Len(g)
    BY <1>5, OctetsJoin, Zenon
  <2> QED
    BY <1>2, <1>5, <2>1
<1> HIDE DEF pg
<1>7. a \in Octets /\ Len(a) = 7 + (zeros + size) + size
  <2>1. a \in Octets /\ Len(a) = Len(pg) + Len(y)
    BY <1>5, <1>6, OctetsJoin, Zenon
  <2> QED
    BY <1>2, <1>5, <1>6, <2>1
<1>8. /\ body \in Octets /\ Sits(a, body, 0)
      /\ SignatureAt(body, named, Len(a)) = Signature(signed, named)
  <2> HIDE DEF a
  <2> QED
    BY <1>2, <1>7, TrailerIsRead, Zenon
<1> HIDE DEF body
<1>9. Sits(pg, body, 0) /\ Sits(y, body, 5 + (zeros + size))
  <2>1. Sits(pg, body, 0) /\ Sits(y, body, 0 + Len(pg))
    BY <1>5, <1>6, <1>8, SitsParts
  <2>2. 0 + Len(pg) = 5 + (zeros + size)
    BY <1>2, <1>6
  <2> QED
    BY <2>1, <2>2
<1>10. Sits(p, body, 0) /\ Sits(g, body, 2 + (zeros + size))
  <2>1. Sits(p, body, 0) /\ Sits(g, body, 0 + Len(p))
    BY <1>5, <1>8, <1>9, SitsParts DEF pg
  <2>2. 0 + Len(p) = 2 + (zeros + size)
    BY <1>2, <1>5
  <2> QED
    BY <2>1, <2>2
<1>11. U16(body, 0) = zeros + size /\ Sits(prime, body, 2)
  <2>1. U16(body, 0) = Len(prime) /\ Sits(prime, body, 0 + 2)
    BY <1>3, <1>8, <1>10, P2Sits DEF p
  <2> QED
    BY <1>3, <2>1
<1> DEFINE j == 2 + U16(body, 0)
           k == j + 2 + U16(body, j)
           l == k + 2 + U16(body, k)
<1>12. j = 2 + (zeros + size) /\ j \in Nat
  BY <1>2, <1>11
<1>13. U16(body, j) = 1
  BY <1>4, <1>8, <1>10, <1>12, P2Sits DEF g
<1>14. k = 5 + (zeros + size) /\ k \in Nat
  BY <1>2, <1>12, <1>13
<1>15. U16(body, k) = size
  BY <1>4, <1>8, <1>9, <1>14, P2Sits DEF y
<1>16. l = Len(a)
  BY <1>2, <1>7, <1>14, <1>15
<1>17. Sub(body, 2, j) = prime
  <2>1. SubSeq(body, 2 + 1, 2 + Len(prime)) = prime
    BY <1>3, <1>8, <1>11, SitsAre
  <2>2. 2 + Len(prime) <= Len(body) /\ Len(body) \in Nat
    BY <1>8, <1>11 DEF Sits, Octets
  <2>3. j = 2 + Len(prime)
    BY <1>3, <1>12
  <2>4. (IF j < Len(body) THEN j ELSE Len(body)) = j
    BY <1>12, <2>2, <2>3
  <2> QED
    BY <2>1, <2>3, <2>4 DEF Sub
<1>18. ParseServerKeyExchange(body, kx, named)
         = [group |-> Absent, dhBits |-> 8 * Significant(Sub(body, 2, j)),
            signature |-> SignatureAt(body, named, l)]
  BY <1>2, SMT DEF ParseServerKeyExchange, SignatureAt
<1> HIDE DEF j, k, l
<1>19. SignatureAt(body, named, l) = Signature(signed, named)
  BY <1>8, <1>16, Zenon
<1>20. ParseServerKeyExchange(body, kx, named)
         = [group |-> Absent, dhBits |-> 8 * size, signature |-> Signature(signed, named)]
  BY <1>3, <1>17, <1>18, <1>19
<1> QED
  BY <1>1, <1>20, Zenon DEF named, size, signed, kx

-----------------------------------------------------------------------------
(***************************************************************************)
(* Chains of certificates, whole or cut short.                             *)
(***************************************************************************)
LEMMA Least ==
  ASSUME NEW S, S \subseteq Nat, S # {}
  PROVE  \E m \in S : \A k \in S : m <= k
<1> DEFINE R == OpToRel(<, Nat)
<1>1. IsWellFoundedOn(R, Nat)
  BY NatLessThanWellFounded
<1>2. \A x, y \in Nat : x < y => <<x, y>> \in R
  BY DEF OpToRel
<1> HIDE DEF R
<1>3. PICK m \in S : \A k \in S : <<k, m>> \notin R
  BY <1>1, WFMin, Zenon
<1>4. ASSUME NEW k \in S PROVE m <= k
  <2>1. ~(k < m)
    BY <1>2, <1>3
  <2> QED
    BY <2>1
<1> QED
  BY <1>4

\* What follows the certificate in an entry.
Stapled(cert)        == IF Len(cert) = 1 THEN N2(5) \o P2(<<>>) ELSE <<>>
Behind(tls13, cert)  == IF tls13 THEN P2(Stapled(cert)) ELSE <<>>

LEMMA EntryIs ==
  ASSUME NEW tls13 \in BOOLEAN, NEW cert \in Octets
  PROVE  /\ Stapled(cert) \in Octets /\ Behind(tls13, cert) \in Octets
         /\ EntryOf(tls13, cert) = P3(cert) \o Behind(tls13, cert)
         /\ EntryOf(tls13, cert) \in Octets /\ EntryOf(tls13, cert) # <<>>
         /\ Len(EntryOf(tls13, cert)) = (3 + Len(cert)) + Len(Behind(tls13, cert))
         /\ Len(Behind(tls13, cert)) = IF tls13 THEN 2 + Len(Stapled(cert)) ELSE 0
         /\ Len(cert) \in Nat /\ Len(Stapled(cert)) \in Nat
<1> DEFINE x == Stapled(cert)
           w == Behind(tls13, cert)
           e == EntryOf(tls13, cert)
<1>1. e = P3(cert) \o w
  BY Zenon DEF EntryOf, Behind, Stapled
<1>2. <<>> \in Octets /\ Len(<<>>) = 0
  BY DEF Octets
<1>3. x \in Octets
  <2> DEFINE n == N2(5)
             p == P2(<<>>)
  <2>1. n \in Octets /\ p \in Octets
    BY <1>2, N2Is, PrefixedAre
  <2> HIDE DEF n, p
  <2>2. n \o p \in Octets
    BY <2>1, OctetsJoin, Zenon
  <2> QED
    BY <1>2, <2>2, Zenon DEF Stapled, n, p
<1>4. Len(x) \in Nat
  BY <1>3 DEF Octets
<1>5. P2(x) \in Octets /\ Len(P2(x)) = 2 + Len(x)
  BY <1>3, PrefixedAre
<1>6. w \in Octets /\ Len(w) = IF tls13 THEN 2 + Len(x) ELSE 0
  <2>1. w = IF tls13 THEN P2(x) ELSE <<>>
    BY DEF Behind
  <2> HIDE DEF w, x
  <2>2. CASE tls13
    BY <1>5, <2>1, <2>2
  <2>3. CASE ~tls13
    BY <1>2, <2>1, <2>3
  <2> QED
    BY <2>2, <2>3
<1>7. P3(cert) \in Octets /\ Len(P3(cert)) = 3 + Len(cert) /\ Len(cert) \in Nat
  BY PrefixedAre
<1>8. e \in Octets /\ Len(e) = (3 + Len(cert)) + Len(w) /\ Len(w) \in Nat
  BY <1>1, <1>6, <1>7, OctetsJoin, Zenon
<1> HIDE DEF x, w, e
<1>9. e # <<>>
  BY <1>2, <1>7, <1>8
<1> QED
  BY <1>1, <1>3, <1>4, <1>6, <1>7, <1>8, <1>9, Zenon DEF x, w, e

\* What is read of an entry, as far as there is something.
LEMMA EntryIsRead ==
  ASSUME NEW tls13 \in BOOLEAN, NEW cert \in Octets, NEW buf \in Octets, NEW i \in Nat,
         Shows(EntryOf(tls13, cert), buf, i), i + 3 <= Len(buf)
  PROVE  /\ U24(buf, i) = Len(cert)
         /\ (i + 3) + Len(cert) <= Len(buf) => Sub(buf, i + 3, (i + 3) + Len(cert)) = cert
         /\ tls13 /\ ((i + 3) + Len(cert)) + 2 <= Len(buf) =>
              U16(buf, (i + 3) + Len(cert)) = Len(Stapled(cert))
<1> DEFINE w == Behind(tls13, cert)
           n == N3(Len(cert))
           p == P3(cert)
<1>1. /\ w \in Octets /\ p \in Octets /\ Len(p) = 3 + Len(cert) /\ Len(cert) \in Nat
      /\ n \in Octets /\ Len(n) = 3 /\ Len(buf) \in Nat /\ p = n \o cert
  <2>1. w \in Octets
    BY EntryIs, Zenon
  <2>2. p \in Octets /\ Len(p) = 3 + Len(cert) /\ Len(cert) \in Nat
    BY PrefixedAre, Zenon
  <2>3. n \in Octets /\ Len(n) = 3
    BY <2>2, N3Is, SMT
  <2>4. Len(buf) \in Nat
    BY DEF Octets
  <2> QED
    BY <2>1, <2>2, <2>3, <2>4, Zenon DEF P3
<1>2. Shows(p \o w, buf, i)
  BY EntryIs, Zenon
<1>3. Shows(p, buf, i) /\ Shows(w, buf, i + (3 + Len(cert)))
  BY <1>1, <1>2, ShowsParts, Zenon
<1>4. Shows(n, buf, i) /\ Shows(cert, buf, i + 3)
  BY <1>1, <1>3, ShowsParts, Zenon
<1> HIDE DEF w, p
<1>5. U24(buf, i) = Len(cert)
  <2> DEFINE size == Len(cert)
  <2>1. size \in Nat /\ n = N3(size)
    BY <1>1
  <2> HIDE DEF n, size
  <2>2. Sits(n, buf, i)
    BY <1>1, <1>4 DEF Sits
  <2>3. U24(buf, i) = size
    BY <2>1, <2>2, U24Sits
  <2> QED
    BY <2>3 DEF size
<1> HIDE DEF n
<1> DEFINE k == (i + 3) + Len(cert)
<1>6. k \in Nat /\ k = i + (3 + Len(cert)) /\ i + 3 \in Nat
  BY <1>1
<1>7. ASSUME k <= Len(buf) PROVE Sub(buf, i + 3, k) = cert
  <2>1. Sits(cert, buf, i + 3)
    BY <1>4, <1>7, Zenon DEF Sits
  <2>2. SubSeq(buf, (i + 3) + 1, k) = cert
    BY <1>6, <2>1, SitsAre, Zenon
  <2> HIDE DEF k
  <2>3. (IF k < Len(buf) THEN k ELSE Len(buf)) = k
    BY <1>1, <1>6, <1>7
  <2> QED
    BY <2>2, <2>3, Zenon DEF Sub
<1>8. ASSUME tls13, k + 2 <= Len(buf) PROVE U16(buf, k) = Len(Stapled(cert))
  <2> DEFINE x == Stapled(cert)
             s == N2(Len(x))
  <2>1. x \in Octets /\ w = P2(x) /\ Len(x) \in Nat
    BY <1>8, EntryIs, Zenon DEF Behind, w
  <2> HIDE DEF x, k
  <2>2. s \in Octets /\ Len(s) = 2 /\ w = s \o x
    BY <2>1, N2Is DEF P2
  <2>3. Shows(s, buf, k)
    BY <1>3, <1>6, <2>1, <2>2, ShowsParts, ZenonT(30)
  <2>4. Sits(s, buf, k)
    BY <1>8, <2>2, <2>3 DEF Sits
  <2>5. U16(buf, k) = Len(x)
    BY <1>6, <2>1, <2>4, U16Sits
  <2> QED
    BY <2>5 DEF x
<1> QED
  BY <1>5, <1>7, <1>8, Zenon

\* A loop that goes from p[0] to p[1] and so on up to p[N], or to the end n
\* where the next would not fit.
Passes(next, n, p, N) ==
  /\ \A j \in DOMAIN next : j \in Nat /\ j + 3 <= n
  /\ \A k \in 1..N :
       p[k - 1] \in DOMAIN next =>
         /\ next[p[k - 1]] \in {p[k], n}
         /\ p[k] + 3 <= n => next[p[k - 1]] = p[k]
  /\ \A k \in 0..N : k <= p[k]
  /\ p[N] + 3 > n

\* Such a loop goes through the first m of them.
GoesThrough(buf, next, p, N) ==
  \E m \in 0..N : /\ Stops(buf, next, p[0]) = First(p, m)
                  /\ \A k \in 1..m : p[k - 1] \in DOMAIN next
                  /\ m = N \/ p[m] \notin DOMAIN next

\* A loop over entries at p[0], p[1] and so on, in octets that may end within
\* one, goes through the first m of them that are whole.
LEMMA LoopUntilCut ==
  ASSUME NEW buf, NEW n \in Nat, n = Len(buf), NEW N \in Nat, NEW p \in [0..N -> Nat], NEW next,
         Passes(next, n, p, N)
  PROVE  GoesThrough(buf, next, p, N)
<1> SUFFICES ASSUME \A j \in DOMAIN next : j \in Nat /\ j + 3 <= n,
                    \A k \in 1..N : p[k - 1] \in DOMAIN next =>
                                      /\ next[p[k - 1]] \in {p[k], n}
                                      /\ p[k] + 3 <= n => next[p[k - 1]] = p[k],
                    \A k \in 0..N : k <= p[k],
                    p[N] + 3 > n
             PROVE  GoesThrough(buf, next, p, N)
  BY Zenon DEF Passes
<1> DEFINE Fits(k) == p[k - 1] \in DOMAIN next
\* The first entry that is not whole, or the end.
<1>1. PICK m \in 0..N : (m = N \/ ~Fits(m + 1)) /\ \A k \in 1..m : Fits(k)
  <2> HIDE DEF Fits
  <2> DEFINE T == {k \in 0..N : k = N \/ ~Fits(k + 1)}
  <2>1. N \in T /\ T \subseteq Nat
    OBVIOUS
  <2>2. PICK m \in T : \A k \in T : m <= k
    BY <2>1, Least, Zenon
  <2>3. ASSUME NEW k \in 1..m PROVE Fits(k)
    <3>1. k - 1 \in 0..N /\ k - 1 < m /\ (k - 1) + 1 = k /\ k - 1 # N
      BY <2>2
    <3>2. k - 1 \notin T
      <4> HIDE DEF T
      <4>1. ASSUME k - 1 \in T PROVE FALSE
        <5>1. m <= k - 1
          BY <2>2, <4>1, Zenon
        <5> QED
          BY <2>1, <2>2, <3>1, <5>1
      <4> QED
        BY <4>1
    <3> QED
      BY <3>1, <3>2
  <2> QED
    BY <2>2, <2>3
<1>2. m \in Nat /\ m <= N
  OBVIOUS
<1>3. \A k \in 1..m : k \in 1..N /\ p[k - 1] \in DOMAIN next
  BY <1>1, <1>2
<1>4. p[m] \notin DOMAIN next
  <2>1. CASE m = N
    <3>1. p[N] \in Nat /\ ~(p[N] + 3 <= n)
      OBVIOUS
    <3> QED
      BY <2>1, <3>1
  <2>2. CASE m # N
    <3>1. (m + 1) - 1 = m
      BY <1>2
    <3> QED
      BY <1>1, <2>2, <3>1
  <2> QED
    BY <2>1, <2>2
\* Where the loop stops.
<1> DEFINE q == [k \in 0..m |-> IF k = 0 THEN p[0] ELSE next[p[k - 1]]]
<1>5. q[0] = p[0] /\ \A k \in 1..m : q[k] = next[p[k - 1]]
  BY <1>2
<1> HIDE DEF q
<1>6. ASSUME NEW k \in 0..(m - 1) PROVE q[k] = p[k]
  <2>1. CASE k = 0
    BY <1>5, <2>1
  <2>2. CASE k # 0
    <3>1. k \in 1..m /\ k + 1 \in 1..m /\ (k + 1) - 1 = k /\ k \in 1..N
      BY <1>2, <2>2
    <3>2. p[k] \in DOMAIN next /\ p[k - 1] \in DOMAIN next
      BY <1>3, <3>1
    <3>3. p[k] + 3 <= n
      BY <3>2
    <3>4. next[p[k - 1]] = p[k]
      BY <3>1, <3>2, <3>3
    <3> QED
      BY <1>5, <3>1, <3>4
  <2> QED
    BY <2>1, <2>2
<1>7. ASSUME NEW k \in 0..(m - 1) PROVE q[k] \in DOMAIN next /\ next[q[k]] = q[k + 1]
  <2>1. k + 1 \in 1..m /\ (k + 1) - 1 = k
    BY <1>2
  <2>2. p[k] \in DOMAIN next /\ q[k + 1] = next[p[k]]
    BY <1>3, <1>5, <2>1
  <2> QED
    BY <1>6, <2>2
<1>8. q[m] \notin DOMAIN next
  <2>1. CASE m = 0
    BY <1>4, <1>5, <2>1
  <2>2. CASE m # 0
    <3>1. m \in 1..m /\ m \in 1..N
      BY <1>2, <2>2
    <3>2. q[m] \in {p[m], n}
      BY <1>3, <1>5, <3>1
    <3>3. n \notin DOMAIN next
      OBVIOUS
    <3> QED
      BY <1>4, <3>2, <3>3
  <2> QED
    BY <2>1, <2>2
<1>9. m <= n
  <2>1. CASE m = 0
    BY <2>1
  <2>2. CASE m # 0
    <3>1. m \in 1..m /\ m - 1 \in 0..N
      BY <1>2, <2>2
    <3>2. p[m - 1] + 3 <= n /\ m - 1 <= p[m - 1] /\ p[m - 1] \in Nat
      BY <1>3, <3>1
    <3> QED
      BY <1>2, <3>2
  <2> QED
    BY <2>1, <2>2
<1>10. Stops(buf, next, q[0]) = First(q, m)
  <2>1. Len(buf) \in Nat /\ m <= Len(buf)
    BY <1>9
  <2>2. \A k \in 0..(m - 1) : q[k] \in DOMAIN next /\ next[q[k]] = q[k + 1]
    BY <1>7
  <2>3. Follows(next, q, m)
    BY <1>8, <2>2 DEF Follows
  <2> QED
    BY <1>2, <2>1, <2>3, StopsAre, Zenon
<1>11. First(q, m) = First(p, m)
  <2>1. ASSUME NEW k \in 1..m PROVE q[k - 1] = p[k - 1]
    <3>1. k - 1 \in 0..(m - 1)
      BY <1>2
    <3> QED
      BY <1>6, <3>1
  <2> QED
    BY <2>1 DEF First
<1> QED
  BY <1>3, <1>4, <1>5, <1>10, <1>11, Zenon DEF GoesThrough

\* From an entry to the next.
\* Behind its certificate an entry ends at the next one, or where it was cut.
GoesOn(tls13, cert, body, n, j, to, over) ==
  /\ over \in Nat /\ to \in Nat /\ over <= to
  /\ over <= n =>
       /\ Sub(body, j + 3, over) = cert
       /\ LET next == IF tls13 THEN EndOfEntry(body, over, n) ELSE over
          IN next \in {to, n} /\ (to + 3 <= n => next = to)

LEMMA EntryNext ==
  ASSUME NEW tls13 \in BOOLEAN, NEW cert \in Octets, NEW body \in Octets, NEW n, n = Len(body),
         NEW j \in Nat, NEW to, to = j + Len(EntryOf(tls13, cert)), Shows(EntryOf(tls13, cert), body, j),
         j + 3 <= n, NEW over, over = j + 3 + U24(body, j)
  PROVE  GoesOn(tls13, cert, body, n, j, to, over)
<1> SUFFICES /\ over \in Nat /\ to \in Nat /\ over <= to
             /\ over <= n =>
                  /\ Sub(body, j + 3, over) = cert
                  /\ LET next == IF tls13 THEN EndOfEntry(body, over, n) ELSE over
                     IN next \in {to, n} /\ (to + 3 <= n => next = to)
  BY Zenon DEF GoesOn
<1> DEFINE size  == Len(cert)
           x     == Len(Stapled(cert))
<1>1. /\ U24(body, j) = size
      /\ (j + 3) + size <= n => Sub(body, j + 3, (j + 3) + size) = cert
      /\ tls13 /\ ((j + 3) + size) + 2 <= n => U16(body, (j + 3) + size) = x
  <2>1. j + 3 <= Len(body)
    OBVIOUS
  <2>2. /\ U24(body, j) = size
        /\ (j + 3) + size <= Len(body) => Sub(body, j + 3, (j + 3) + size) = cert
        /\ tls13 /\ ((j + 3) + size) + 2 <= Len(body) => U16(body, (j + 3) + size) = x
    <3>1. Shows(EntryOf(tls13, cert), body, j)
      OBVIOUS
    <3> QED
      BY ONLY <2>1, <3>1, EntryIsRead, tls13 \in BOOLEAN, cert \in Octets, body \in Octets, j \in Nat
  <2> HIDE DEF size, x
  <2> QED
    BY <2>2
<1>2. size \in Nat /\ x \in Nat /\ n \in Nat
  BY EntryIs DEF Octets
<1>3. /\ to = j + ((3 + size) + Len(Behind(tls13, cert)))
      /\ Len(Behind(tls13, cert)) = IF tls13 THEN 2 + x ELSE 0
  BY EntryIs, Zenon
<1> HIDE DEF size, x
<1>4. over = (j + 3) + size /\ over \in Nat
  BY <1>1, <1>2
<1>5. to = (IF tls13 THEN (over + 2) + x ELSE over) /\ to \in Nat /\ over <= to
  BY <1>2, <1>3, <1>4
<1>6. ASSUME over <= n PROVE Sub(body, j + 3, over) = cert
  BY <1>1, <1>4, <1>6, Zenon
<1> DEFINE next == IF tls13 THEN EndOfEntry(body, over, n) ELSE over
<1>7. CASE ~tls13
  <2>1. next = to
    BY <1>5, <1>7
  <2> QED
    BY <1>4, <1>5, <1>6, <2>1, Zenon
<1>8. CASE tls13 /\ over + 2 > n
  <2>1. next = n
    BY <1>8 DEF EndOfEntry
  <2>2. ~(to + 3 <= n)
    <3>1. to = (over + 2) + x
      BY <1>5, <1>8, Zenon
    <3> QED
      BY ONLY <1>2, <1>4, <1>8, <3>1
  <2> QED
    BY <1>4, <1>5, <1>6, <2>1, <2>2, Zenon
<1>9. CASE tls13 /\ ~(over + 2 > n)
  <2>1. over + 2 <= n
    BY <1>2, <1>4, <1>9
  <2>2. U16(body, over) = x
    BY <1>1, <1>4, <1>9, <2>1, Zenon
  <2>3. next = to
    BY <1>2, <1>4, <1>5, <1>9, <2>2 DEF EndOfEntry
  <2> QED
    BY <1>4, <1>5, <1>6, <2>3, Zenon
<1> QED
  BY <1>7, <1>8, <1>9, Zenon

ListStart(tls13) == IF tls13 THEN 1 ELSE 0
Entries(tls13, certs) == [k \in DOMAIN certs |-> EntryOf(tls13, certs[k])]

\* The entries of a list that begins at offset b lie at p[0], p[1] and so on.
Laid(tls13, certs, list, body, b, N, p) ==
  /\ N \in Nat /\ p \in [0..N -> Nat] /\ p[0] = b /\ p[N] = b + Len(list) /\ Len(list) \in Nat
  /\ \A k \in 0..N : k <= p[k] /\ p[k] <= p[N]
  /\ \A k \in 1..N : /\ certs[k] \in Octets /\ p[k - 1] \in Nat
                     /\ p[k] = p[k - 1] + Len(EntryOf(tls13, certs[k]))
                     /\ Shows(EntryOf(tls13, certs[k]), body, p[k - 1])

\* The places of the entries, in a list that begins at offset b.
LEMMA EntriesAt ==
  ASSUME NEW tls13 \in BOOLEAN, NEW certs \in Seq(Octets), NEW list, NEW c, Row(list, Entries(tls13, certs), c),
         NEW body \in Octets, NEW b \in Nat, Shows(list, body, b),
         NEW N, N = Len(certs), NEW p, p = [k \in 0..N |-> b + c[k]]
  PROVE  Laid(tls13, certs, list, body, b, N, p)
<1> DEFINE items == Entries(tls13, certs)
<1>1. items \in Seq(Octets) /\ c \in [0..Len(items) -> Nat] /\ c[0] = 0 /\ c[Len(items)] = Len(list) /\ list \in Octets
  BY Zenon DEF Row
<1>2. N \in Nat /\ DOMAIN certs = 1..N
  OBVIOUS
<1>3. DOMAIN items = 1..N
  BY <1>2, Zenon DEF Entries
<1>4. \A k \in 1..N : items[k] = EntryOf(tls13, certs[k])
  BY <1>2, Zenon DEF Entries
<1> HIDE DEF items
<1>5. Len(items) = N
  BY <1>1, <1>2, <1>3
<1>6. Len(list) \in Nat
  BY <1>1 DEF Octets
<1>7. c \in [0..N -> Nat] /\ c[0] = 0 /\ c[N] = Len(list)
  BY <1>1, <1>5
<1>8. \A k \in 0..N : p[k] = b + c[k] /\ p[k] \in Nat
  BY <1>2, <1>7
<1>9. p \in [0..N -> Nat] /\ p[0] = b /\ p[N] = b + Len(list)
  BY <1>2, <1>7, <1>8
<1>10. ASSUME NEW k \in 1..N PROVE certs[k] \in Octets /\ items[k] \in Octets /\ items[k] # <<>> /\ Len(items[k]) \in Nat
  <2>1. certs[k] \in Octets
    BY <1>2
  <2>2. EntryOf(tls13, certs[k]) \in Octets /\ EntryOf(tls13, certs[k]) # <<>>
    BY <2>1, EntryIs, Zenon
  <2>3. items[k] \in Octets /\ items[k] # <<>>
    BY <1>4, <2>2, Zenon
  <2>4. Len(items[k]) \in Nat
    BY <2>3 DEF Octets
  <2> QED
    BY <2>1, <2>3, <2>4, Zenon
<1>11. \A k \in 0..N : k <= c[k] /\ c[k] <= c[N]
  <2>1. \A j, k \in 0..N : j <= k => c[j] <= c[k]
    BY <1>5, RowOrder, Zenon DEF items
  <2>2. \A k \in 1..Len(items) : items[k] # <<>>
    BY <1>5, <1>10
  <2>3. \A k \in 0..N : k <= c[k]
    BY <1>5, <2>2, RowOrder, Zenon DEF items
  <2> QED
    BY <1>2, <2>1, <2>3
<1>12. ASSUME NEW k \in 0..N PROVE k <= p[k] /\ p[k] <= p[N]
  <2>1. N \in 0..N
    BY <1>2
  <2>2. c[k] \in Nat /\ c[N] \in Nat
    BY <1>7, <2>1, Zenon
  <2>3. k <= c[k] /\ c[k] <= c[N] /\ p[k] = b + c[k] /\ p[N] = b + c[N]
    BY <1>8, <1>11, <2>1, Zenon
  <2> QED
    BY ONLY <2>2, <2>3, b \in Nat, k \in 0..N
<1>13. ASSUME NEW k \in 1..N
       PROVE  /\ p[k - 1] \in Nat
              /\ p[k] = p[k - 1] + Len(EntryOf(tls13, certs[k]))
              /\ Shows(EntryOf(tls13, certs[k]), body, p[k - 1])
  <2>1. k \in 0..N /\ k - 1 \in 0..N
    BY <1>2
  <2>2. c[k] = c[k - 1] + Len(items[k]) /\ Sits(items[k], list, c[k - 1])
    <3>1. k \in 1..Len(items)
      BY <1>5
    <3> QED
      BY <3>1, Zenon DEF Row, items
  <2>3. c[k] \in Nat /\ c[k - 1] \in Nat /\ p[k] = b + c[k] /\ p[k - 1] = b + c[k - 1] /\ p[k - 1] \in Nat
    BY <1>7, <1>8, <2>1
  <2>4. p[k] = p[k - 1] + Len(items[k])
    BY <1>10, <2>2, <2>3
  <2>5. Shows(items[k], body, b + c[k - 1])
    BY <1>1, <1>10, <2>2, <2>3, SitsWithin
  <2> QED
    BY <1>4, <2>3, <2>4, <2>5, Zenon
<1> QED
  BY <1>2, <1>6, <1>9, <1>10, <1>12, <1>13, Zenon DEF Laid

LEMMA Room ==
  ASSUME NEW a \in Nat, NEW x \in Nat, NEW w \in Nat, NEW n \in Nat, NEW to, to = a + ((3 + x) + w), to <= n
  PROVE  a + 3 <= n
OBVIOUS

\* What is read are the first certificates, and all of them if that is whole.
ReadsFirst(got, certs, whole) ==
  \E m \in 0..Len(certs) : got = SubSeq(certs, 1, m) /\ (whole => m = Len(certs))

\* Whatever is left of a chain is read up to the last whole certificate.
LEMMA ChainIsRead ==
  ASSUME NEW tls13 \in BOOLEAN, NEW certs \in Seq(Octets), NEW list, NEW c, Row(list, Entries(tls13, certs), c),
         NEW i \in Nat, i = ListStart(tls13),
         NEW body \in Octets, Shows(list, body, i + 3), i + 3 <= Len(body), Len(body) <= (i + 3) + Len(list),
         U24(body, i) = Len(list), tls13 => U8(body, 0) = 0
  PROVE  ReadsFirst(ParseCertificates(body, tls13), certs, Len(body) = (i + 3) + Len(list))
<1> DEFINE N    == Len(certs)
           n    == Len(body)
           b    == i + 3
           p    == [k \in 0..N |-> b + c[k]]
           Over(j) == j + 3 + U24(body, j)
           whole   == {j \in 0..n : j + 3 <= n /\ Over(j) <= n}
           next    == [j \in whole |-> IF tls13 THEN EndOfEntry(body, Over(j), n) ELSE Over(j)]
           stops   == Stops(body, next, b)
<1>1. b \in Nat /\ n \in Nat /\ b <= n /\ n <= b + Len(list)
  BY DEF Octets
<1>2. ParseCertificates(body, tls13) = [k \in DOMAIN stops |-> Sub(body, stops[k] + 3, Over(stops[k]))]
  <2>1. (IF tls13 THEN 1 + U8(body, 0) ELSE 0) = i
    BY DEF ListStart
  <2>2. ~(Len(body) < i + 3)
    BY <1>1
  <2>3. (IF i + 3 + U24(body, i) < Len(body) THEN i + 3 + U24(body, i) ELSE Len(body)) = Len(body)
    BY <1>1
  <2> QED
    BY <2>1, <2>2, <2>3, SMTT(30) DEF ParseCertificates
<1>3. /\ N \in Nat /\ p \in [0..N -> Nat] /\ p[0] = b /\ p[N] = b + Len(list) /\ Len(list) \in Nat
      /\ \A k \in 0..N : k <= p[k] /\ p[k] <= p[N]
      /\ \A k \in 1..N : /\ certs[k] \in Octets /\ p[k - 1] \in Nat
                         /\ p[k] = p[k - 1] + Len(EntryOf(tls13, certs[k]))
                         /\ Shows(EntryOf(tls13, certs[k]), body, p[k - 1])
  <2> HIDE DEF b, p, N
  <2>1. Shows(list, body, b) /\ N = Len(certs) /\ p = [k \in 0..N |-> b + c[k]]
    BY DEF b, p, N
  <2>2. Laid(tls13, certs, list, body, b, N, p)
    BY <1>1, <2>1, EntriesAt, Zenon
  <2> QED
    BY <2>2, Zenon DEF Laid
<1> HIDE DEF N, n, b, p
<1>4. DOMAIN next = whole
  OBVIOUS
<1>5. \A j \in whole : next[j] = IF tls13 THEN EndOfEntry(body, Over(j), n) ELSE Over(j)
  OBVIOUS
<1> HIDE DEF next
<1>6. \A j \in whole : j \in Nat /\ j + 3 <= n /\ Over(j) <= n
  BY <1>1
<1>7. \A j \in Nat : j + 3 <= n /\ Over(j) <= n => j \in whole
  BY <1>1
<1> HIDE DEF whole
<1>8. ASSUME NEW k \in 1..N, p[k - 1] + 3 <= n
      PROVE  /\ Over(p[k - 1]) \in Nat /\ p[k] \in Nat /\ Over(p[k - 1]) <= p[k]
             /\ p[k - 1] \in whole =>
                  /\ Sub(body, p[k - 1] + 3, Over(p[k - 1])) = certs[k]
                  /\ next[p[k - 1]] \in {p[k], n}
                  /\ p[k] + 3 <= n => next[p[k - 1]] = p[k]
  <2> DEFINE j    == p[k - 1]
             cert == certs[k]
             over == Over(j)
             to   == p[k]
  <2>1. /\ cert \in Octets /\ j \in Nat /\ to = j + Len(EntryOf(tls13, cert))
        /\ Shows(EntryOf(tls13, cert), body, j) /\ n = Len(body) /\ over = j + 3 + U24(body, j)
    BY <1>3, Zenon DEF n
  <2>2. j + 3 <= n
    BY <1>8
  <2> HIDE DEF j, cert, to, over
  <2>3. /\ over \in Nat /\ to \in Nat /\ over <= to
        /\ over <= n =>
             /\ Sub(body, j + 3, over) = cert
             /\ LET following == IF tls13 THEN EndOfEntry(body, over, n) ELSE over
                IN following \in {to, n} /\ (to + 3 <= n => following = to)
    <3>1. body \in Octets /\ tls13 \in BOOLEAN
      OBVIOUS
    <3>2. GoesOn(tls13, cert, body, n, j, to, over)
      BY <2>1, <2>2, <3>1, EntryNext, Zenon
    <3> QED
      BY <3>2, Zenon DEF GoesOn
  <2>4. ASSUME j \in whole
        PROVE  next[j] = (IF tls13 THEN EndOfEntry(body, over, n) ELSE over) /\ over <= n
    BY <1>5, <1>6, <2>4, Zenon DEF over
  <2>5. j \in whole => /\ Sub(body, j + 3, over) = cert
                       /\ next[j] \in {to, n}
                       /\ to + 3 <= n => next[j] = to
    BY <2>3, <2>4
  <2> QED
    BY <2>3, <2>5 DEF j, cert, to, over
<1>9. PICK m \in 0..N : /\ Stops(body, next, p[0]) = First(p, m)
                        /\ \A k \in 1..m : p[k - 1] \in DOMAIN next
                        /\ m = N \/ p[m] \notin DOMAIN next
  <2>1. \A j \in DOMAIN next : j \in Nat /\ j + 3 <= n
    BY <1>4, <1>6
  <2>2. ASSUME NEW k \in 1..N, p[k - 1] \in DOMAIN next
        PROVE  next[p[k - 1]] \in {p[k], n} /\ (p[k] + 3 <= n => next[p[k - 1]] = p[k])
    <3>1. p[k - 1] \in whole /\ p[k - 1] + 3 <= n
      BY <1>4, <1>6, <2>2
    <3> QED
      BY <1>8, <3>1, Zenon
  <2>3. \A k \in 0..N : k <= p[k]
    BY <1>3
  <2>4. p[N] + 3 > n
    BY <1>1, <1>3
  <2>5. n = Len(body) /\ n \in Nat /\ N \in Nat /\ p \in [0..N -> Nat]
    BY <1>1, <1>3 DEF n
  <2>6. Passes(next, n, p, N)
    BY <2>1, <2>2, <2>3, <2>4 DEF Passes
  <2>7. GoesThrough(body, next, p, N)
    BY <2>5, <2>6, LoopUntilCut, Zenon
  <2> QED
    BY <2>7, Zenon DEF GoesThrough
<1>10. stops = First(p, m) /\ DOMAIN stops = 1..m /\ \A k \in 1..m : stops[k] = p[k - 1]
  <2>1. stops = First(p, m)
    BY <1>3, <1>9, Zenon
  <2> HIDE DEF stops
  <2> QED
    BY <2>1 DEF First
<1> HIDE DEF stops
<1>11. ASSUME NEW k \in 1..m PROVE k \in 1..N /\ Sub(body, stops[k] + 3, Over(stops[k])) = certs[k]
  <2>1. k \in 1..N
    BY <1>3
  <2>2. p[k - 1] \in whole /\ p[k - 1] + 3 <= n
    BY <1>4, <1>6, <1>9
  <2>3. Sub(body, p[k - 1] + 3, Over(p[k - 1])) = certs[k]
    BY <1>8, <2>1, <2>2, Zenon
  <2> QED
    BY <1>10, <2>1, <2>3, Zenon
<1>12. ParseCertificates(body, tls13) = SubSeq(certs, 1, m)
  <2> HIDE DEF Over
  <2>1. ParseCertificates(body, tls13) = [k \in 1..m |-> certs[k]]
    BY <1>2, <1>10, <1>11
  <2>2. SubSeq(certs, 1, m) = [k \in 1..m |-> certs[k]]
    BY <1>3 DEF N
  <2> QED
    BY <2>1, <2>2, Zenon
<1>13. ASSUME n = b + Len(list) PROVE m = N
  <2> SUFFICES ASSUME m # N PROVE FALSE
    OBVIOUS
  <2> DEFINE k == m + 1
  <2>1. k \in 1..N /\ k - 1 = m /\ k \in 0..N
    BY <1>3
  <2>2. p[m] \notin whole
    BY <1>4, <1>9
  <2>3. p[k] <= n /\ p[k] \in Nat /\ p[m] \in Nat
    BY <1>3, <1>13, <2>1
  <2>4. p[k] = p[m] + Len(EntryOf(tls13, certs[k])) /\ certs[k] \in Octets
    BY <1>3, <2>1
  <2> HIDE DEF k
  <2>5. Len(EntryOf(tls13, certs[k])) = (3 + Len(certs[k])) + Len(Behind(tls13, certs[k]))
        /\ Behind(tls13, certs[k]) \in Octets /\ Len(certs[k]) \in Nat
    BY <2>4, EntryIs, Zenon
  <2>6. Len(Behind(tls13, certs[k])) \in Nat
    BY <2>5 DEF Octets
  <2>7. p[m] + 3 <= n
    <3>1. p[k] = p[m] + ((3 + Len(certs[k])) + Len(Behind(tls13, certs[k])))
      BY <2>4, <2>5, Zenon
    <3> QED
      BY <1>1, <2>3, <2>5, <2>6, <3>1, Room, Zenon
  <2>8. Over(p[m]) \in Nat /\ Over(p[m]) <= p[k]
    BY <1>8, <2>1, <2>7
  <2> HIDE DEF Over
  <2> QED
    BY <1>1, <1>7, <2>2, <2>3, <2>7, <2>8, SMTT(30)
<1>14. ReadsFirst(ParseCertificates(body, tls13), certs, n = b + Len(list))
  BY <1>12, <1>13, Zenon DEF ReadsFirst, N
<1> QED
  BY <1>14, Zenon DEF n, b

-----------------------------------------------------------------------------
\* The octets in front of a chain.
ChainHead(tls13) == IF tls13 THEN P1(<<>>) ELSE <<>>

LEMMA ChainHeadIs ==
  ASSUME NEW tls13 \in BOOLEAN
  PROVE  /\ ChainHead(tls13) \in Octets /\ Len(ChainHead(tls13)) = ListStart(tls13) /\ ListStart(tls13) \in 0..1
         /\ tls13 => ChainHead(tls13) = <<0>>
<1>1. P1(<<>>) = <<0>>
  BY DEF P1
<1>2. <<0>> \in Octets /\ Len(<<0>>) = 1 /\ <<>> \in Octets /\ Len(<<>>) = 0
  BY DEF Octets
<1>3. CASE tls13
  BY <1>1, <1>2, <1>3 DEF ChainHead, ListStart
<1>4. CASE ~tls13
  BY <1>2, <1>4 DEF ChainHead, ListStart
<1> QED
  BY <1>3, <1>4

\* A chain, whole and cut.
IsChain(d) ==
  d.tls13 \in BOOLEAN /\ d.certs \in Seq(Octets) /\ d.list \in Octets /\ IsRow(d.list, Entries(d.tls13, d.certs))

LEMMA CutChainIsRead ==
  ASSUME NEW d, IsChain(d),
         NEW body \in Octets, Shows(CertificatesOf(d), body, 0),
         ListStart(d.tls13) + 3 <= Len(body), Len(body) <= Len(CertificatesOf(d))
  PROVE  /\ CertificatesOf(d) \in Octets
         /\ ReadsFirst(ParseCertificates(body, d.tls13), d.certs, Len(body) = Len(CertificatesOf(d)))
<1> DEFINE tls13 == d.tls13
           certs == d.certs
           list  == d.list
           head  == ChainHead(tls13)
           i     == ListStart(tls13)
           b     == CertificatesOf(d)
<1>1. b = head \o P3(list)
  BY Zenon DEF CertificatesOf, ChainHead
<1>2. tls13 \in BOOLEAN /\ certs \in Seq(Octets) /\ list \in Octets /\ IsRow(list, Entries(tls13, certs))
  BY Zenon DEF IsChain
<1>3. Shows(b, body, 0) /\ i + 3 <= Len(body) /\ Len(body) <= Len(b)
  BY Zenon
<1> HIDE DEF b
<1>4. head \in Octets /\ Len(head) = i /\ i \in 0..1
  BY <1>2, ChainHeadIs, Zenon
<1>5. ASSUME tls13 PROVE U8(body, 0) = 0
  <2>3. head = <<0>>
    BY <1>2, <1>5, ChainHeadIs, Zenon
  <2> HIDE DEF head
  <2>4. P3(list) \in Octets /\ Len(body) \in Nat
    BY <1>2, PrefixedAre DEF Octets
  <2>5. Shows(<<0>>, body, 0)
    BY <1>1, <1>3, <1>4, <2>3, <2>4, ShowsParts, Zenon
  <2>6. Sits(<<0>>, body, 0)
    BY <1>3, <1>4, <2>4, <2>5 DEF Sits
  <2> QED
    BY <2>6, U8Sits
<1> HIDE DEF head
<1> DEFINE three == N3(Len(list))
<1>6. /\ P3(list) \in Octets /\ Len(P3(list)) = 3 + Len(list) /\ Len(list) \in Nat /\ Len(body) \in Nat
      /\ three \in Octets /\ Len(three) = 3 /\ P3(list) = three \o list
  <2>1. P3(list) \in Octets /\ Len(P3(list)) = 3 + Len(list) /\ Len(list) \in Nat
    BY <1>2, PrefixedAre, Zenon
  <2>2. three \in Octets /\ Len(three) = 3
    BY <2>1, N3Is, SMT
  <2>3. Len(body) \in Nat
    BY DEF Octets
  <2> QED
    BY <2>1, <2>2, <2>3, Zenon DEF P3
<1> HIDE DEF three, list, certs, tls13, i
<1>7. b \in Octets /\ Len(b) = (i + 3) + Len(list)
  <2>1. b \in Octets /\ Len(b) = Len(head) + Len(P3(list))
    BY <1>1, <1>4, <1>6, OctetsJoin, Zenon
  <2> QED
    BY <1>4, <1>6, <2>1
<1>8. Shows(three, body, i) /\ Shows(list, body, i + 3)
  <2>1. Shows(P3(list), body, 0 + i)
    BY <1>1, <1>3, <1>4, <1>6, ShowsParts, Zenon
  <2>2. i \in Nat /\ 0 + i = i
    BY <1>4
  <2>3. Shows(three, body, i) /\ Shows(list, body, i + Len(three))
    BY <1>2, <1>6, <2>1, <2>2, ShowsParts, Zenon
  <2> QED
    BY <1>6, <2>3, Zenon
<1>9. U24(body, i) = Len(list)
  <2>1. Sits(three, body, i)
    BY <1>3, <1>4, <1>6, <1>8 DEF Sits
  <2>2. i \in Nat
    BY <1>4
  <2> QED
    BY <1>6, <2>1, <2>2, U24Sits, Zenon DEF three
<1>10. PICK c : Row(list, Entries(tls13, certs), c)
  BY <1>2, Zenon DEF IsRow
<1>11. i \in Nat /\ Len(body) <= (i + 3) + Len(list)
  BY <1>3, <1>4, <1>7
<1>12. i = ListStart(tls13)
  BY DEF i
<1>13. ReadsFirst(ParseCertificates(body, tls13), certs, Len(body) = (i + 3) + Len(list))
  BY <1>2, <1>3, <1>5, <1>8, <1>9, <1>10, <1>11, <1>12, ChainIsRead, Zenon
<1>14. ReadsFirst(ParseCertificates(body, tls13), certs, Len(body) = Len(b))
  BY <1>7, <1>13, Zenon
<1> QED
  BY <1>7, <1>14, Zenon DEF b, certs, tls13

LEMMA ChainReadsBack ==
  ASSUME NEW d, IsChain(d)
  PROVE  CertificatesReadBack(d)
<1> DEFINE b     == CertificatesOf(d)
           certs == d.certs
           list  == d.list
           tls13 == d.tls13
<1>1. b \in Octets /\ ListStart(tls13) + 3 <= 4 /\ ListStart(tls13) + 3 <= Len(b) /\ Len(b) \in Nat
  <2> DEFINE head == ChainHead(tls13)
  <2>3. head \in Octets /\ Len(head) = ListStart(tls13) /\ ListStart(tls13) \in 0..1
    BY ChainHeadIs, Zenon DEF IsChain
  <2>4. list \in Octets
    BY Zenon DEF IsChain
  <2>5. P3(list) \in Octets /\ Len(P3(list)) = 3 + Len(list) /\ Len(list) \in Nat
    BY <2>4, PrefixedAre, Zenon
  <2>6. b = head \o P3(list)
    BY Zenon DEF CertificatesOf, ChainHead
  <2> HIDE DEF head, b, list
  <2>7. b \in Octets /\ Len(b) = Len(head) + Len(P3(list))
    BY <2>3, <2>5, <2>6, OctetsJoin, Zenon
  <2> QED
    BY <2>3, <2>5, <2>7
<1>2. tls13 \in BOOLEAN /\ certs \in Seq(Octets) /\ Len(certs) \in Nat
  BY DEF IsChain
<1>3. ASSUME NEW n \in 0..Len(b), ListStart(tls13) + 3 <= n
      PROVE  ReadsFirst(ParseCertificates(Cut(b, n), tls13), certs, n = Len(b))
  <2>1. Cut(b, n) \in Octets /\ Len(Cut(b, n)) = n /\ Shows(b, Cut(b, n), 0)
    BY <1>1, CutShows, Zenon
  <2>2. n <= Len(b)
    BY <1>1
  <2>3. ReadsFirst(ParseCertificates(Cut(b, n), tls13), certs, Len(Cut(b, n)) = Len(b))
    <3> DEFINE body == Cut(b, n)
    <3>1. body \in Octets /\ Shows(b, body, 0) /\ ListStart(tls13) + 3 <= Len(body) /\ Len(body) <= Len(b)
      BY <1>3, <2>1, <2>2, Zenon
    <3> HIDE DEF body
    <3>2. ReadsFirst(ParseCertificates(body, d.tls13), d.certs, Len(body) = Len(CertificatesOf(d)))
      BY <3>1, CutChainIsRead, Zenon
    <3> QED
      BY <3>2, Zenon DEF body
  <2> QED
    BY <2>3, <2>1, Zenon
<1> HIDE DEF b, certs, list, tls13
<1>4. ParseCertificates(b, tls13) = certs
  <2>1. Len(b) \in 0..Len(b)
    BY <1>1
  <2>2. ParseCertificates(Cut(b, Len(b)), tls13) = SubSeq(certs, 1, Len(certs))
    BY <1>1, <1>3, <2>1, Zenon DEF ReadsFirst
  <2>3. Cut(b, Len(b)) = b
    BY <1>1 DEF Cut, Octets
  <2>4. SubSeq(certs, 1, Len(certs)) = certs
    BY <1>2
  <2> QED
    BY <2>2, <2>3, <2>4, Zenon
<1>5. ASSUME NEW n \in 4..(Len(b) - 1) PROVE IsPrefix(ParseCertificates(Cut(b, n), tls13), certs)
  <2>1. n \in 0..Len(b) /\ ListStart(tls13) + 3 <= n
    <3>1. ListStart(tls13) \in 0..1
      BY <1>2 DEF ListStart
    <3> QED
      BY <1>1, <3>1
  <2>2. PICK m \in 0..Len(certs) : ParseCertificates(Cut(b, n), tls13) = SubSeq(certs, 1, m)
    BY <1>3, <2>1, Zenon DEF ReadsFirst
  <2>3. IsPrefix(SubSeq(certs, 1, m), certs)
    BY <1>2 DEF IsPrefix
  <2> QED
    BY <2>2, <2>3, Zenon
<1> QED
  BY <1>4, <1>5, Zenon DEF CertificatesReadBack, b, certs, tls13

Chains == [kind : {"certificates"}, tls13 : BOOLEAN, certs : Seq(Octets), list : Octets]
ChainInv == doc.kind = "certificates" => doc \in Chains /\ IsRow(doc.list, Entries(doc.tls13, doc.certs))

LEMMA ChainInit == ReadersInit => ChainInv
<1> SUFFICES ASSUME ReadersInit, doc.kind = "certificates"
             PROVE  doc \in Chains /\ IsRow(doc.list, Entries(doc.tls13, doc.certs))
  BY DEF ChainInv
<1>1. doc \in [kind : {"certificates"}, tls13 : BOOLEAN, certs : {<<>>}, list : {<<>>}]
  BY DEF ReadersInit
<1>2. <<>> \in Seq(Octets) /\ <<>> \in Octets
  BY DEF Octets
<1>3. Entries(doc.tls13, <<>>) = <<>>
  BY DEF Entries
<1>4. doc.certs = <<>> /\ doc.list = <<>>
  BY <1>1
<1> QED
  BY <1>1, <1>2, <1>3, <1>4, RowEmpty DEF Chains

LEMMA ChainNext == ASSUME KindInv, ChainInv, ReadersNext PROVE ChainInv'
<1>1. ASSUME doc.kind # "certificates" PROVE ChainInv'
  BY <1>1, KindNext, Zenon DEF ChainInv
<1>2. ASSUME doc.kind = "certificates" PROVE ChainInv'
  <2>1. PICK n \in {1, 2, 300} : doc' = [doc EXCEPT !.certs = Append(@, Bytes(n)),
                                                    !.list = doc.list \o EntryOf(doc.tls13, Bytes(n))]
    BY <1>2, ZenonT(30) DEF ReadersNext, GrowTree, AddExtension, AddEntry, AddPiece, Grow
  <2>2. doc \in Chains /\ IsRow(doc.list, Entries(doc.tls13, doc.certs))
    BY <1>2 DEF ChainInv
  <2> DEFINE cert  == Bytes(n)
             certs == doc.certs
             list  == doc.list
             tls13 == doc.tls13
             entry == EntryOf(tls13, cert)
  <2>3. cert \in Octets /\ certs \in Seq(Octets) /\ list \in Octets /\ tls13 \in BOOLEAN
    BY <2>2, BytesAre DEF Chains
  <2> HIDE DEF cert
  <2>4. entry \in Octets
    BY <2>3, EntryIs, Zenon
  <2>5. IsRow(list \o entry, Append(Entries(tls13, certs), entry))
    <3> DEFINE items == Entries(tls13, certs)
    <3>1. IsRow(list, items)
      BY <2>2, Zenon
    <3> HIDE DEF items, entry, list
    <3>2. IsRow(list \o entry, Append(items, entry))
      BY <2>4, <3>1, RowGrows, Zenon
    <3> QED
      BY <3>2, Zenon DEF items
  <2>6. Append(Entries(tls13, certs), entry) = Entries(tls13, Append(certs, cert))
    <3> HIDE DEF certs, tls13, entry
    <3>1. Append(certs, cert) \in Seq(Octets)
      BY <2>3, AppendProperties, Zenon
    <3>2. /\ Len(Append(certs, cert)) = Len(certs) + 1 /\ Append(certs, cert)[Len(certs) + 1] = cert
          /\ \A k \in 1..Len(certs) : Append(certs, cert)[k] = certs[k]
      BY <2>3, AppendProperties
    <3> DEFINE more == Append(certs, cert)
    <3> HIDE DEF more
    <3>3. DOMAIN certs = 1..Len(certs) /\ DOMAIN more = 1..(Len(certs) + 1) /\ Len(certs) \in Nat
      BY <2>3, <3>1, <3>2 DEF more
    <3>4. entry = EntryOf(tls13, cert)
      BY DEF entry
    <3> DEFINE old == Entries(tls13, certs)
    <3>5. old = [k \in 1..Len(certs) |-> EntryOf(tls13, certs[k])]
      BY <3>3, Zenon DEF Entries
    <3>6. Entries(tls13, more) = [k \in 1..(Len(certs) + 1) |-> EntryOf(tls13, more[k])]
      BY <3>3, Zenon DEF Entries
    <3> HIDE DEF old
    <3>7. \A k \in 1..Len(certs) : old[k] = EntryOf(tls13, certs[k])
      BY <3>5, Zenon
    <3>8. old \in Seq(Octets) /\ Len(old) = Len(certs)
      <4>1. ASSUME NEW k \in 1..Len(certs) PROVE EntryOf(tls13, certs[k]) \in Octets
        <5>1. certs[k] \in Octets
          BY <2>3
        <5> QED
          BY <2>3, <5>1, EntryIs, Zenon
      <4> QED
        BY <3>3, <3>5, <4>1
    <3> DEFINE new == Entries(tls13, more)
               m   == Len(certs)
    <3>9. DOMAIN new = 1..(m + 1) /\ Function(new)
      BY <3>6, Zenon DEF Function
    <3>10. ASSUME NEW k \in 1..m PROVE new[k] = old[k]
      <4>1. k \in 1..(m + 1)
        BY <3>3
      <4>2. more[k] = certs[k]
        BY <3>2, Zenon DEF more
      <4> QED
        BY <3>6, <3>7, <4>1, <4>2
    <3>11. new[m + 1] = entry
      <4>1. m + 1 \in 1..(m + 1) /\ more[m + 1] = cert
        BY <3>2, <3>3 DEF more
      <4> QED
        BY <3>4, <3>6, <4>1
    <3> HIDE DEF new, m
    <3>12. m \in Nat /\ Len(old) = m
      BY <3>3, <3>8, Zenon DEF m
    <3>13. Append(old, entry) = new
      BY <2>4, <3>8, <3>9, <3>10, <3>11, <3>12, AppendIs
    <3> QED
      BY <3>13, Zenon DEF new, old, more
  <2>7. Append(certs, cert) \in Seq(Octets) /\ list \o entry \in Octets
    BY <2>3, <2>4, AppendProperties, OctetsJoin, Zenon
  <2>8. doc' \in Chains /\ doc'.certs = Append(certs, cert) /\ doc'.list = list \o entry /\ doc'.tls13 = tls13
    <3> DEFINE x == Append(certs, cert)
               y == list \o entry
    <3>1. doc' = [doc EXCEPT !.certs = x, !.list = y]
      BY <2>1, Zenon DEF cert
    <3> HIDE DEF x, y
    <3>2. x \in Seq(Octets) /\ y \in Octets
      BY <2>7, Zenon DEF x, y
    <3>3. doc' \in Chains /\ doc'.certs = x /\ doc'.list = y /\ doc'.tls13 = doc.tls13
      BY <2>2, <3>1, <3>2 DEF Chains
    <3> QED
      BY <3>3, Zenon DEF x, y
  <2>9. IsRow(list \o entry, Entries(tls13, Append(certs, cert)))
    BY <2>5, <2>6, Zenon
  <2>10. IsRow(doc'.list, Entries(doc'.tls13, doc'.certs))
    <3> HIDE DEF entry, list, certs, tls13
    <3> QED
      BY <2>8, <2>9, Zenon
  <2> QED
    BY <2>8, <2>10, Zenon DEF ChainInv
<1> QED
  BY <1>1, <1>2, Zenon

-----------------------------------------------------------------------------
\* The extensions of a hello.
Extended == [type : Nat, data : Octets]
HelloItems(exts) == [k \in DOMAIN exts |-> HelloItem(exts[k])]

LEMMA HelloItemIs ==
  ASSUME NEW e \in Extended
  PROVE  /\ HelloItem(e) \in Octets /\ HelloItem(e) # <<>> /\ Len(HelloItem(e)) = 4 + Len(e.data)
         /\ e.data \in Octets /\ Len(e.data) \in Nat
<1> DEFINE x == N2(e.type)
           y == P2(e.data)
<1>1. e.type \in Nat /\ e.data \in Octets
  BY DEF Extended
<1>2. x \in Octets /\ Len(x) = 2
  BY <1>1, N2Is, Zenon
<1>3. y \in Octets /\ Len(y) = 2 + Len(e.data) /\ Len(e.data) \in Nat
  BY <1>1, PrefixedAre, Zenon
<1>4. HelloItem(e) = x \o y
  BY Zenon DEF HelloItem
<1> HIDE DEF x, y
<1> DEFINE item == HelloItem(e)
<1>5. item \in Octets /\ Len(item) = Len(x) + Len(y)
  BY <1>2, <1>3, <1>4, OctetsJoin, Zenon
<1> HIDE DEF item
<1>6. Len(item) = 4 + Len(e.data)
  BY <1>2, <1>3, <1>5
<1>7. item # <<>>
  BY <1>3, <1>6
<1> QED
  BY <1>1, <1>3, <1>5, <1>6, <1>7, Zenon DEF item

LEMMA HelloItemIsRead ==
  ASSUME NEW e \in Extended, NEW buf \in Octets, NEW j \in Nat, Sits(HelloItem(e), buf, j)
  PROVE  /\ U16(buf, j) = e.type /\ U16(buf, j + 2) = Len(e.data)
         /\ (j + 4) + Len(e.data) <= Len(buf)
         /\ Sub(buf, j + 4, (j + 4) + Len(e.data)) = e.data
<1> DEFINE x == N2(e.type)
           y == P2(e.data)
           n == Len(e.data)
<1>1. e.type \in Nat /\ e.data \in Octets
  BY DEF Extended
<1>2. x \in Octets /\ Len(x) = 2
  BY <1>1, N2Is, Zenon
<1>3. y \in Octets /\ Len(y) = 2 + n /\ n \in Nat /\ Len(buf) \in Nat
  BY <1>1, PrefixedAre DEF Octets
<1>4. HelloItem(e) = x \o y
  BY Zenon DEF HelloItem
<1>5. Sits(x, buf, j) /\ Sits(y, buf, j + Len(x))
  <2> HIDE DEF x, y
  <2> QED
    BY <1>2, <1>3, <1>4, SitsParts, Zenon
<1>6. U16(buf, j) = e.type
  BY <1>1, <1>5, U16Sits, Zenon
<1>7. j + 2 \in Nat /\ Sits(y, buf, j + 2)
  BY <1>2, <1>5
<1>8. U16(buf, j + 2) = n /\ Sits(e.data, buf, (j + 2) + 2)
  BY <1>1, <1>7, P2Sits, Zenon
<1> HIDE DEF n, x, y
<1>9. Sits(e.data, buf, j + 4) /\ j + 4 \in Nat /\ (j + 2) + 2 = j + 4
  BY <1>8
<1>10. (j + 4) + n <= Len(buf)
  BY <1>9, Zenon DEF Sits, n
<1>11. SubSeq(buf, (j + 4) + 1, (j + 4) + n) = e.data
  BY <1>1, <1>9, SitsAre, Zenon DEF n
<1>12. Sub(buf, j + 4, (j + 4) + n) = SubSeq(buf, (j + 4) + 1, (j + 4) + n)
  <2> DEFINE over == (j + 4) + n
  <2>1. over \in Nat /\ over <= Len(buf)
    BY <1>3, <1>10
  <2> HIDE DEF over
  <2>2. (IF over < Len(buf) THEN over ELSE Len(buf)) = over
    BY <1>3, <2>1
  <2> QED
    BY <2>2, Zenon DEF Sub, over
<1> QED
  BY <1>6, <1>8, <1>10, <1>11, <1>12, Zenon DEF n

LEMMA ExtensionsAreRead ==
  ASSUME NEW exts \in Seq(Extended), NEW list, NEW c, Row(list, HelloItems(exts), c)
  PROVE  ParseExtensions(list) = exts
<1> DEFINE N     == Len(exts)
           n     == Len(list)
           items == HelloItems(exts)
           End(i) == i + 4 + U16(list, i + 2)
           whole == {i \in 0..n : i + 4 <= n /\ End(i) <= n}
           next  == [i \in whole |-> End(i)]
           stops == Stops(list, next, 0)
<1>1. ParseExtensions(list)
        = [k \in DOMAIN stops |-> [type |-> U16(list, stops[k]), data |-> Sub(list, stops[k] + 4, End(stops[k]))]]
  BY Zenon DEF ParseExtensions
<1>2. list \in Octets /\ items \in Seq(Octets) /\ c \in [0..Len(items) -> Nat] /\ c[0] = 0 /\ c[Len(items)] = n
  BY Zenon DEF Row
<1>3. N \in Nat /\ n \in Nat /\ DOMAIN exts = 1..N /\ exts = [k \in 1..N |-> exts[k]]
  BY <1>2 DEF Octets
<1>4. DOMAIN items = 1..N /\ \A k \in 1..N : items[k] = HelloItem(exts[k])
  BY <1>3, Zenon DEF HelloItems
<1> HIDE DEF items
<1>5. Len(items) = N
  BY <1>2, <1>3, <1>4
<1>6. \A k \in 1..N : c[k] = c[k - 1] + Len(items[k]) /\ Sits(items[k], list, c[k - 1])
  BY <1>5, Zenon DEF Row, items
<1> HIDE DEF N, n
<1>7. ASSUME NEW k \in 1..N
      PROVE  /\ exts[k] \in Extended /\ items[k] # <<>> /\ c[k - 1] \in Nat
             /\ c[k - 1] \in whole /\ End(c[k - 1]) = c[k]
             /\ U16(list, c[k - 1]) = exts[k].type /\ Sub(list, c[k - 1] + 4, c[k]) = exts[k].data
  <2> DEFINE e == exts[k]
             j == c[k - 1]
             x == Len(e.data)
  <2>1. e \in Extended
    BY <1>3 DEF N
  <2>2. j \in Nat /\ c[k] \in Nat
    <3>1. k \in 0..N /\ k - 1 \in 0..N
      BY <1>3
    <3> QED
      BY <1>2, <1>5, <3>1, Zenon
  <2>3. c[k] = j + Len(HelloItem(e)) /\ Sits(HelloItem(e), list, j) /\ items[k] = HelloItem(e)
    BY <1>4, <1>6, Zenon
  <2> HIDE DEF e, j
  <2>4. /\ U16(list, j) = e.type /\ U16(list, j + 2) = x
        /\ (j + 4) + x <= n /\ Sub(list, j + 4, (j + 4) + x) = e.data
    BY <1>2, <2>1, <2>2, <2>3, HelloItemIsRead, Zenon DEF n
  <2>5. HelloItem(e) # <<>> /\ Len(HelloItem(e)) = 4 + x /\ x \in Nat
    BY <2>1, HelloItemIs, Zenon
  <2> HIDE DEF x
  <2>6. c[k] = (j + 4) + x
    <3>1. c[k] = j + (4 + x)
      BY <2>3, <2>5, Zenon
    <3> QED
      BY ONLY <2>2, <2>5, <3>1
  <2>7. End(j) = c[k]
    BY <2>4, <2>6
  <2>8. j \in whole
    <3>1. j \in 0..n /\ j + 4 <= n /\ c[k] <= n
      BY <1>3, <2>2, <2>4, <2>5, <2>6
    <3> HIDE DEF End
    <3> QED
      BY <2>7, <3>1
  <2>9. items[k] # <<>> /\ Sub(list, j + 4, c[k]) = e.data
    BY <2>3, <2>4, <2>5, <2>6, Zenon
  <2> HIDE DEF whole, End
  <2> QED
    BY <2>1, <2>2, <2>4, <2>7, <2>8, <2>9, Zenon DEF e, j
<1>8. stops = [k \in 1..N |-> 0 + c[k - 1]]
  <2>1. ASSUME NEW k \in 1..N PROVE 0 + c[k - 1] \in DOMAIN next /\ next[0 + c[k - 1]] = 0 + c[k]
    <3>1. 0 + c[k - 1] = c[k - 1] /\ 0 + c[k] = c[k]
      <4>1. k \in 0..N /\ k - 1 \in 0..N
        BY <1>3
      <4>2. c[k] \in Nat /\ c[k - 1] \in Nat
        BY <1>2, <1>5, <4>1, Zenon
      <4> QED
        BY <4>2
    <3>2. c[k - 1] \in whole /\ next[c[k - 1]] = c[k]
      <4>1. c[k - 1] \in whole /\ End(c[k - 1]) = c[k]
        BY <1>7, Zenon
      <4> HIDE DEF whole, End
      <4> QED
        BY <4>1
    <3> HIDE DEF whole, End
    <3> QED
      BY <3>1, <3>2
  <2>2. 0 + n \notin DOMAIN next
    <3>1. ~(n + 4 <= n) /\ 0 + n = n
      BY <1>3
    <3>2. n \notin whole
      BY <3>1, Zenon
    <3> HIDE DEF whole, End
    <3> QED
      BY <3>1, <3>2
  <2>3. Row(list, items, c)
    BY Zenon DEF items
  <2> HIDE DEF next
  <2>4. \A k \in 1..Len(items) : items[k] # <<>>
    BY <1>5, <1>7, Zenon
  <2>5. \A k \in 1..Len(items) : 0 + c[k - 1] \in DOMAIN next /\ next[0 + c[k - 1]] = 0 + c[k]
    BY <1>5, <2>1, Zenon
  <2>6. 0 + Len(list) <= Len(list) /\ 0 \in Nat
    BY <1>3 DEF n
  <2>7. 0 + Len(list) \notin DOMAIN next
    BY <2>2, Zenon DEF n
  <2>8. Walks(next, items, c, 0)
    BY <2>4, <2>5, Zenon DEF Walks
  <2>9. Stops(list, next, 0) = Begins(items, c, 0)
    <3> DEFINE i == 0
    <3>1. i \in Nat /\ i + Len(list) <= Len(list) /\ i + Len(list) \notin DOMAIN next /\ Walks(next, items, c, i)
      BY <2>6, <2>7, <2>8, Zenon
    <3> HIDE DEF i
    <3>2. Stops(list, next, i) = Begins(items, c, i)
      <4>1. list \in Octets
        BY <1>2
      <4> QED
        BY ONLY <2>3, <3>1, <4>1, RowStops
    <3> QED
      BY <3>2, Zenon DEF i
  <2> QED
    BY <1>5, <2>9, Zenon DEF Begins
<1>9. DOMAIN stops = 1..N /\ \A k \in 1..N : stops[k] = c[k - 1]
  <2> HIDE DEF stops
  <2>1. \A k \in 1..N : 0 + c[k - 1] = c[k - 1]
    BY <1>7
  <2> QED
    BY <1>8, <2>1
<1> HIDE DEF stops, next, whole
<1>10. ASSUME NEW k \in 1..N
       PROVE  [type |-> U16(list, stops[k]), data |-> Sub(list, stops[k] + 4, End(stops[k]))] = exts[k]
  <2>1. U16(list, stops[k]) = exts[k].type /\ Sub(list, stops[k] + 4, End(stops[k])) = exts[k].data
    <3> HIDE DEF End
    <3> QED
      BY <1>7, <1>9, Zenon
  <2>2. exts[k] \in Extended
    BY <1>7, Zenon
  <2>3. exts[k] = [type |-> exts[k].type, data |-> exts[k].data]
    BY <2>2 DEF Extended
  <2> HIDE DEF End
  <2> QED
    BY <2>1, <2>3, Zenon
<1> HIDE DEF End
<1> QED
  BY <1>1, <1>3, <1>9, <1>10

LEMMA ValueIs ==
  ASSUME NEW exts, NEW N \in Nat, DOMAIN exts = 1..N, Len(exts) = N, NEW type, NEW data,
         \A k \in 1..N : exts[k].type = type => exts[k].data = data
  PROVE  Value(exts, type) = IF \E k \in 1..N : exts[k].type = type THEN data ELSE <<>>
<1> DEFINE I == {k \in 1..Len(exts) : exts[k].type = type}
           k == IF I # {} THEN Max(I) ELSE 0
<1>1. Value(exts, type) = IF k = 0 THEN <<>> ELSE exts[k].data
  BY Zenon DEF Value, SelectLastInSeq
<1>2. CASE I = {}
  <2>1. ~ \E j \in 1..N : exts[j].type = type
    BY <1>2
  <2> QED
    BY <1>1, <1>2, <2>1
<1>3. CASE I # {}
  <2> DEFINE D == {N - j : j \in I}
  <2>1. I \subseteq 1..N
    OBVIOUS
  <2>2. D \subseteq Nat /\ D # {}
    BY <1>3
  <2>3. PICK m \in D : \A j \in D : m <= j
    <3> HIDE DEF D
    <3> QED
      BY <2>2, Least, Zenon
  <2>4. PICK j \in I : m = N - j
    BY <2>3
  <2>5. \A l \in I : j >= l
    <3> HIDE DEF I
    <3>1. \A l \in I : N - j <= N - l
      BY <2>3, <2>4
    <3> QED
      BY <2>1, <3>1
  <2>6. Max(I) \in I
    <3> HIDE DEF I
    <3> QED
      BY <2>5, Zenon DEF Max
  <2>7. k \in 1..N /\ exts[k].type = type /\ k # 0
    <3>1. k = Max(I)
      BY <1>3
    <3> QED
      BY <2>6, <3>1
  <2> HIDE DEF k
  <2>8. exts[k].data = data
    BY <2>7, Zenon
  <2> QED
    BY <1>1, <2>7, <2>8, Zenon
<1> QED
  BY <1>2, <1>3

LEMMA HelloExtensionsAre ==
  /\ HelloExtensions \subseteq Extended
  /\ \A e \in HelloExtensions : /\ e.type = SupportedVersions => e.data = <<3, 4>>
                                /\ e.type = Alpn => e.data = <<0, 3, 2, 104, 50>>
                                /\ e.type = KeyShare => e.data = N2(29) \o P2(Bytes(2))
<1> DEFINE share == N2(29) \o P2(Bytes(2))
<1>1. share \in Octets
  <2>1. N2(29) \in Octets
    BY N2Is
  <2>2. P2(Bytes(2)) \in Octets
    BY BytesAre, PrefixedAre
  <2> QED
    BY <2>1, <2>2, OctetsJoin, Zenon
<1>2. HelloExtensions = {[type |-> RenegotiationInfo, data |-> <<0>>], [type |-> Heartbeat, data |-> <<1>>],
                         [type |-> Alpn, data |-> <<0, 3, 2, 104, 50>>], [type |-> SupportedVersions, data |-> <<3, 4>>],
                         [type |-> KeyShare, data |-> share]}
  BY Zenon DEF HelloExtensions
<1> HIDE DEF share
<1>3. <<0>> \in Octets /\ <<1>> \in Octets /\ <<0, 3, 2, 104, 50>> \in Octets /\ <<3, 4>> \in Octets
  BY DEF Octets
<1>4. /\ RenegotiationInfo \in Nat /\ Heartbeat \in Nat /\ Alpn \in Nat /\ SupportedVersions \in Nat /\ KeyShare \in Nat
      /\ RenegotiationInfo \notin {Alpn, SupportedVersions, KeyShare} /\ Heartbeat \notin {Alpn, SupportedVersions, KeyShare}
      /\ Alpn # SupportedVersions /\ Alpn # KeyShare /\ SupportedVersions # KeyShare
  BY SMT DEF RenegotiationInfo, Heartbeat, Alpn, SupportedVersions, KeyShare
<1>5. ASSUME NEW e \in HelloExtensions PROVE e \in Extended
  <2>1. ASSUME NEW t \in Nat, NEW b \in Octets PROVE [type |-> t, data |-> b] \in Extended
    BY DEF Extended
  <2> QED
    BY <1>1, <1>2, <1>3, <1>4, <2>1, ZenonT(30)
<1>6. ASSUME NEW e \in HelloExtensions
      PROVE  /\ e.type = SupportedVersions => e.data = <<3, 4>>
             /\ e.type = Alpn => e.data = <<0, 3, 2, 104, 50>>
             /\ e.type = KeyShare => e.data = share
  <2>1. CASE e = [type |-> RenegotiationInfo, data |-> <<0>>]
    BY <1>4, <2>1
  <2>2. CASE e = [type |-> Heartbeat, data |-> <<1>>]
    BY <1>4, <2>2
  <2>3. CASE e = [type |-> Alpn, data |-> <<0, 3, 2, 104, 50>>]
    BY <1>4, <2>3
  <2>4. CASE e = [type |-> SupportedVersions, data |-> <<3, 4>>]
    BY <1>4, <2>4
  <2>5. CASE e = [type |-> KeyShare, data |-> share]
    BY <1>4, <2>5
  <2> QED
    BY <1>2, <2>1, <2>2, <2>3, <2>4, <2>5, Zenon
<1> QED
  BY <1>5, <1>6, Zenon DEF share

IsHello(d) ==
  /\ d.retry \in BOOLEAN /\ d.session \in {0, 32} /\ d.extensions \in Seq(HelloExtensions)
  /\ d.list \in Octets /\ IsRow(d.list, HelloItems(d.extensions))

HelloRandom(retry) == IF retry THEN RetryRandom ELSE Bytes(32)
HelloTail(d) == IF d.extensions = <<>> THEN <<>> ELSE P2(d.list)
HelloVersion == N2(771)
HelloCipher  == N2(4865)

LEMMA RandomIs ==
  ASSUME NEW retry \in BOOLEAN
  PROVE  /\ HelloRandom(retry) \in Octets /\ Len(HelloRandom(retry)) = 32
         /\ (HelloRandom(retry) = RetryRandom) = retry
<1>1. Bytes(32) \in Octets /\ Len(Bytes(32)) = 32 /\ Bytes(32)[1] = 5
  <2>1. 32 \in Nat /\ 1 \in 1..32
    OBVIOUS
  <2> QED
    BY <2>1, BytesAre, Zenon
<1>2. RetryRandom \in Octets /\ Len(RetryRandom) = 32 /\ RetryRandom[1] = 207
  BY DEF RetryRandom, Octets
<1>3. Bytes(32) # RetryRandom
  BY <1>1, <1>2
<1> QED
  BY <1>1, <1>2, <1>3 DEF HelloRandom

\* Where the parts of a hello are.
HasParts(d, body, n) ==
  /\ body \in Octets /\ n \in {0, 32}
  /\ HelloTail(d) \in Octets /\ Len(HelloTail(d)) \in Nat /\ Len(body) = (38 + n) + Len(HelloTail(d))
  /\ U8(body, 34) = n /\ Sub(body, 2, 34) = HelloRandom(d.retry) /\ Sits(HelloTail(d), body, 38 + n)

HasNumbers(body, n) == U16(body, 0) = 771 /\ U16(body, 35 + n) = 4865

LEMMA HelloParts ==
  ASSUME NEW d, IsHello(d), NEW body, body = HelloOf(d), NEW n, n = d.session
  PROVE  HasParts(d, body, n) /\ HasNumbers(body, n)
<1> DEFINE v  == HelloVersion
           r  == HelloRandom(d.retry)
           s  == P1(Bytes(n))
           ci == HelloCipher
           t  == HelloTail(d)
           x1 == v \o r
           x2 == x1 \o s
           x3 == x2 \o ci
           x4 == x3 \o <<0>>
<1>1. body = x4 \o t
  <2>1. n = d.session
    OBVIOUS
  <2>2. s = P1(Bytes(d.session))
    BY <2>1
  <2> HIDE DEF s
  <2> QED
    BY <2>2, SMT DEF HelloOf, HelloVersion, HelloRandom, HelloCipher, HelloTail
<1>2. n \in {0, 32} /\ n \in Nat /\ d.retry \in BOOLEAN /\ d.list \in Octets
  BY DEF IsHello
<1>3. /\ v \in Octets /\ Len(v) = 2 /\ ci \in Octets /\ Len(ci) = 2
      /\ <<0>> \in Octets /\ Len(<<0>>) = 1
  <2>1. v \in Octets /\ Len(v) = 2
    BY N2Is, SMT DEF HelloVersion
  <2>2. ci \in Octets /\ Len(ci) = 2
    BY N2Is, SMT DEF HelloCipher
  <2> QED
    BY <2>1, <2>2, OneOctet
<1>4. r \in Octets /\ Len(r) = 32
  BY <1>2, RandomIs, Zenon
<1>5. Bytes(n) \in Octets /\ Len(Bytes(n)) = n /\ s \in Octets /\ Len(s) = 1 + n
  <2>1. Bytes(n) \in Octets /\ Len(Bytes(n)) = n
    BY <1>2, BytesAre, Zenon
  <2>2. s \in Octets /\ Len(s) = 1 + Len(Bytes(n))
    BY <2>1, PrefixedAre, Zenon
  <2> QED
    BY <2>1, <2>2, Zenon
<1>6. t \in Octets /\ Len(t) \in Nat
  <2>1. P2(d.list) \in Octets
    BY <1>2, PrefixedAre, Zenon
  <2>2. <<>> \in Octets
    BY DEF Octets
  <2>3. t \in Octets
    BY <2>1, <2>2, Zenon DEF HelloTail
  <2> HIDE DEF t
  <2> QED
    BY <2>3 DEF Octets
<1> DEFINE zero == <<0>>
<1>7. zero \in Octets /\ Len(zero) = 1 /\ x4 = x3 \o zero
  BY <1>3, Zenon
<1> HIDE DEF zero, v, r, s, ci, t
<1>8. x1 \in Octets /\ Len(x1) = Len(v) + Len(r)
  BY <1>3, <1>4, OctetsJoin, Zenon
<1> HIDE DEF x1
<1>9. x2 \in Octets /\ Len(x2) = Len(x1) + Len(s)
  BY <1>5, <1>8, OctetsJoin, Zenon
<1> HIDE DEF x2
<1>10. x3 \in Octets /\ Len(x3) = Len(x2) + Len(ci)
  BY <1>3, <1>9, OctetsJoin, Zenon
<1> HIDE DEF x3
<1>11. x4 \in Octets /\ Len(x4) = Len(x3) + Len(zero)
  BY <1>7, <1>10, OctetsJoin, Zenon
<1> HIDE DEF x4
<1>12. body \in Octets /\ Len(body) = Len(x4) + Len(t)
  BY <1>1, <1>6, <1>11, OctetsJoin, Zenon
<1>13. Len(x1) = 34 /\ Len(x2) = 35 + n /\ Len(x3) = 37 + n /\ Len(x4) = 38 + n
  BY <1>2, <1>3, <1>4, <1>5, <1>7, <1>8, <1>9, <1>10, <1>11, SMTT(30)
<1>14. Sits(x4, body, 0) /\ Sits(t, body, 38 + n)
  <2>1. Sits(body, body, 0)
    BY <1>12, SitsWhole, Zenon
  <2>2. Sits(x4, body, 0) /\ Sits(t, body, 0 + Len(x4))
    BY <1>1, <1>6, <1>11, <1>12, <2>1, SitsParts, Zenon
  <2> QED
    BY <1>2, <1>13, <2>2
<1>15. Sits(x3, body, 0)
  BY <1>7, <1>10, <1>12, <1>14, SitsParts, Zenon
<1>16. Sits(x2, body, 0) /\ Sits(ci, body, 35 + n)
  <2>1. Sits(x2, body, 0) /\ Sits(ci, body, 0 + Len(x2))
    BY <1>3, <1>9, <1>12, <1>15, SitsParts, Zenon DEF x3
  <2> QED
    BY <1>2, <1>13, <2>1
<1>17. Sits(x1, body, 0) /\ Sits(s, body, 34)
  <2>1. Sits(x1, body, 0) /\ Sits(s, body, 0 + Len(x1))
    BY <1>5, <1>8, <1>12, <1>16, SitsParts, Zenon DEF x2
  <2> QED
    BY <1>13, <2>1
<1>18. Sits(v, body, 0) /\ Sits(r, body, 2)
  <2>1. Sits(v, body, 0) /\ Sits(r, body, 0 + Len(v))
    BY <1>3, <1>4, <1>12, <1>17, SitsParts, Zenon DEF x1
  <2> QED
    BY <1>3, <2>1
<1>19. U16(body, 0) = 771
  BY <1>12, <1>18, U16Sits, SMT DEF v, HelloVersion
<1>20. U8(body, 34) = n
  <2>1. U8(body, 34) = Len(Bytes(n))
    BY <1>5, <1>12, <1>17, P1Sits DEF s
  <2> QED
    BY <1>5, <2>1, Zenon
<1>21. U16(body, 35 + n) = 4865
  <2>1. 35 + n \in Nat
    BY <1>2
  <2> QED
    BY <1>12, <1>16, <2>1, U16Sits, SMT DEF ci, HelloCipher
<1>22. Sub(body, 2, 34) = r
  <2>1. SubSeq(body, 3, 34) = r
    <3>1. SubSeq(body, 2 + 1, 2 + Len(r)) = r
      BY <1>4, <1>12, <1>18, SitsAre
    <3> QED
      BY <1>4, <3>1
  <2>2. 34 <= Len(body) /\ Len(body) \in Nat
    BY <1>2, <1>6, <1>12, <1>13, SMTT(30)
  <2> QED
    <3> DEFINE m == Len(body)
    <3>1. m \in Nat /\ 34 <= m
      BY <2>2
    <3> HIDE DEF m
    <3>2. (IF 34 < m THEN 34 ELSE m) = 34 /\ 2 + 1 = 3
      BY <3>1
    <3> QED
      BY <2>1, <3>2, Zenon DEF Sub, m
<1>23. Len(body) = (38 + n) + Len(t)
  BY <1>12, <1>13, Zenon
<1>24. HasParts(d, body, n)
  BY <1>2, <1>6, <1>12, <1>14, <1>20, <1>22, <1>23, Zenon DEF HasParts, t, r
<1> QED
  BY <1>19, <1>21, <1>24 DEF HasNumbers

\* The extensions that a hello shows are those it has.
ExtensionsOf(body) ==
  LET i == 35 + U8(body, 34)
  IN IF Len(body) < i + 5 THEN <<>>
     ELSE ParseExtensions(Sub(body, i + 5, i + 5 + U16(body, i + 3)))

LEMMA HelloExtensionsAreRead ==
  ASSUME NEW d, IsHello(d), NEW body, body = HelloOf(d)
  PROVE  ExtensionsOf(body) = d.extensions
<1> DEFINE n    == d.session
           i    == 35 + n
           t    == HelloTail(d)
           list == d.list
           size == Len(list)
           exts == d.extensions
<1>1. /\ body \in Octets /\ n \in {0, 32} /\ t \in Octets /\ Len(t) \in Nat
      /\ Len(body) = (38 + n) + Len(t) /\ U8(body, 34) = n /\ Sits(t, body, 38 + n)
  <2>1. HasParts(d, body, n)
    BY HelloParts, Zenon
  <2> QED
    BY <2>1, Zenon DEF HasParts
<1>2. t = IF exts = <<>> THEN <<>> ELSE P2(list)
  BY Zenon DEF HelloTail
<1>3. exts \in Seq(HelloExtensions) /\ list \in Octets /\ IsRow(list, HelloItems(exts))
  BY Zenon DEF IsHello
<1>4. ExtensionsOf(body) = IF Len(body) < i + 5 THEN <<>>
                           ELSE ParseExtensions(Sub(body, i + 5, i + 5 + U16(body, i + 3)))
  BY <1>1, Zenon DEF ExtensionsOf
<1> HIDE DEF n, t, list, exts
<1>5. i \in Nat /\ i + 3 = 38 + n /\ i + 5 = (i + 3) + 2 /\ i + 3 \in Nat
  BY <1>1
<1>6. CASE exts = <<>>
  <2>1. Len(t) = 0
    BY <1>2, <1>6
  <2>2. Len(body) < i + 5
    BY <1>1, <1>5, <2>1
  <2> HIDE DEF i
  <2>3. ExtensionsOf(body) = <<>>
    BY <1>4, <2>2, Zenon
  <2> QED
    BY <1>6, <2>3, Zenon DEF exts
<1>7. CASE exts # <<>>
  <2>1. t = P2(list)
    BY <1>2, <1>7, Zenon
  <2>2. Sits(P2(list), body, i + 3)
    BY <1>1, <1>5, <2>1, Zenon
  <2> HIDE DEF i
  <2>3. U16(body, i + 3) = size /\ Sits(list, body, (i + 3) + 2)
    BY <1>1, <1>3, <1>5, <2>2, P2Sits, Zenon
  <2>4. size \in Nat /\ Len(body) \in Nat /\ i + 5 \in Nat
    BY <1>1, <1>3, <1>5 DEF Octets
  <2>5. Sits(list, body, i + 5)
    BY <1>5, <2>3, Zenon
  <2>6. (i + 5) + size <= Len(body) /\ SubSeq(body, (i + 5) + 1, (i + 5) + size) = list
    <3>1. SubSeq(body, (i + 5) + 1, (i + 5) + Len(list)) = list
      BY <1>1, <1>3, <2>4, <2>5, SitsAre, Zenon
    <3> QED
      BY <2>5, <3>1, Zenon DEF Sits
  <2>7. Sub(body, i + 5, (i + 5) + size) = list
    <3> DEFINE m    == Len(body)
               over == (i + 5) + size
    <3>1. m \in Nat /\ over \in Nat /\ over <= m
      BY <2>4, <2>6
    <3> HIDE DEF m, over
    <3>2. (IF over < m THEN over ELSE m) = over
      BY <3>1
    <3> QED
      BY <2>6, <3>2, Zenon DEF Sub, m, over
  <2>8. ~(Len(body) < i + 5)
    BY ONLY <2>4, <2>6
  <2>9. exts \in Seq(Extended)
    <3>1. HelloExtensions \subseteq Extended
      BY HelloExtensionsAre, Zenon
    <3> QED
      BY <1>3, <3>1
  <2>10. PICK c : Row(list, HelloItems(exts), c)
    BY <1>3, Zenon DEF IsRow
  <2>11. ParseExtensions(list) = exts
    BY <2>9, <2>10, ExtensionsAreRead, Zenon
  <2>12. ExtensionsOf(body) = ParseExtensions(Sub(body, i + 5, i + 5 + U16(body, i + 3)))
    BY <1>4, <2>8, Zenon
  <2>13. Sub(body, i + 5, i + 5 + U16(body, i + 3)) = list
    BY <2>3, <2>7, Zenon
  <2> QED
    BY <2>11, <2>12, <2>13, Zenon DEF exts
<1> QED
  BY <1>6, <1>7, Zenon DEF exts

\* The values that the flags are read from.
ShareIsThere == N2(29) \o P2(Bytes(2))

LEMMA HelloValuesAre ==
  ASSUME NEW exts \in Seq(HelloExtensions), NEW sent, sent = {exts[k].type : k \in DOMAIN exts}
  PROVE  /\ Value(exts, SupportedVersions) = IF SupportedVersions \in sent THEN <<3, 4>> ELSE <<>>
         /\ Value(exts, Alpn) = IF Alpn \in sent THEN <<0, 3, 2, 104, 50>> ELSE <<>>
         /\ Value(exts, KeyShare) = IF KeyShare \in sent THEN ShareIsThere ELSE <<>>
<1> DEFINE N == Len(exts)
<1>1. N \in Nat /\ DOMAIN exts = 1..N /\ \A k \in 1..N : exts[k] \in HelloExtensions
  OBVIOUS
<1> HIDE DEF N
<1>2. \A type : type \in sent <=> \E k \in 1..N : exts[k].type = type
  <2>1. sent = {exts[k].type : k \in 1..N}
    BY <1>1, Zenon
  <2> QED
    BY <2>1
<1>3. ASSUME NEW type, NEW data, \A e \in HelloExtensions : e.type = type => e.data = data
      PROVE  Value(exts, type) = IF type \in sent THEN data ELSE <<>>
  <2>1. \A k \in 1..N : exts[k].type = type => exts[k].data = data
    BY <1>1, <1>3, Zenon
  <2>2. Value(exts, type) = IF \E k \in 1..N : exts[k].type = type THEN data ELSE <<>>
    BY <1>1, <2>1, ValueIs, Zenon DEF N
  <2> QED
    BY <1>2, <2>2, Zenon
<1>4. \A e \in HelloExtensions : e.type = SupportedVersions => e.data = <<3, 4>>
  BY HelloExtensionsAre, Zenon
<1>5. \A e \in HelloExtensions : e.type = Alpn => e.data = <<0, 3, 2, 104, 50>>
  BY HelloExtensionsAre, Zenon
<1>6. \A e \in HelloExtensions : e.type = KeyShare => e.data = ShareIsThere
  BY HelloExtensionsAre, Zenon DEF ShareIsThere
<1> QED
  BY <1>3, <1>4, <1>5, <1>6, Zenon

LEMMA ShareIsRead == U16(ShareIsThere, 0) = 29 /\ Len(ShareIsThere) >= 2
<1> DEFINE x == N2(29)
           y == P2(Bytes(2))
<1>1. x \in Octets /\ Len(x) = 2
  BY N2Is
<1>2. y \in Octets /\ Len(y) \in Nat
  BY BytesAre, PrefixedAre DEF Octets
<1>3. ShareIsThere = x \o y
  BY Zenon DEF ShareIsThere
<1> DEFINE b == ShareIsThere
<1> HIDE DEF x, y, b
<1>4. b \in Octets /\ Len(b) = Len(x) + Len(y)
  BY <1>1, <1>2, <1>3, OctetsJoin, Zenon DEF b
<1>5. Sits(x, b, 0)
  <2>1. Sits(b, b, 0)
    BY <1>4, SitsWhole, Zenon
  <2>2. 0 \in Nat /\ b = x \o y
    BY <1>3 DEF b
  <2> QED
    BY <1>1, <1>2, <1>4, <2>1, <2>2, SitsParts, Zenon
<1>6. U16(b, 0) = 29
  BY <1>4, <1>5, U16Sits DEF x
<1>7. Len(b) >= 2
  BY <1>1, <1>2, <1>4
<1> QED
  BY <1>6, <1>7, Zenon DEF b

LEMMA HelloIsRead == ASSUME NEW d, IsHello(d) PROVE HelloReadsBack(d)
<1> DEFINE body  == HelloOf(d)
           exts  == d.extensions
           sent  == {exts[k].type : k \in DOMAIN exts}
           n     == d.session
           named == Value(exts, SupportedVersions)
           alpn  == Value(exts, Alpn)
           share == Value(exts, KeyShare)
           got   == ParseServerHello(body)
<1>1. /\ body \in Octets /\ n \in {0, 32} /\ Len(HelloTail(d)) \in Nat
      /\ Len(body) = (38 + n) + Len(HelloTail(d))
      /\ U16(body, 0) = 771 /\ U8(body, 34) = n /\ U16(body, 35 + n) = 4865
      /\ Sub(body, 2, 34) = HelloRandom(d.retry)
  <2>1. HasParts(d, body, n) /\ HasNumbers(body, n)
    BY HelloParts, Zenon
  <2> QED
    BY <2>1, SMT DEF HasParts, HasNumbers
<1>2. ExtensionsOf(body) = exts
  BY HelloExtensionsAreRead, Zenon
<1>3. ~(Len(body) < 38) /\ ~(Len(body) < (35 + n) + 3)
  BY <1>1
<1> HIDE DEF body, n
<1>4. got = [version |-> IF Len(named) >= 2 THEN U16(named, 0) ELSE 771,
             cipher |-> 4865, compression |-> U8(body, 35 + n + 2),
             retry |-> HelloRandom(d.retry) = RetryRandom,
             extensions |-> sent,
             alpn  |-> IF Len(alpn) >= 3 THEN Sub(alpn, 3, 3 + U8(alpn, 2)) ELSE <<>>,
             group |-> IF Len(share) >= 2 THEN U16(share, 0) ELSE Absent]
  <2> DEFINE i == 35 + U8(body, 34)
             x == ExtensionsOf(body)
             Hello(e, j, v) ==
               [version |-> IF Len(Value(e, SupportedVersions)) >= 2 THEN U16(Value(e, SupportedVersions), 0) ELSE v,
                cipher |-> U16(body, j), compression |-> U8(body, j + 2),
                retry |-> Sub(body, 2, 34) = RetryRandom,
                extensions |-> {e[k].type : k \in DOMAIN e},
                alpn  |-> IF Len(Value(e, Alpn)) >= 3
                          THEN Sub(Value(e, Alpn), 3, 3 + U8(Value(e, Alpn), 2)) ELSE <<>>,
                group |-> IF Len(Value(e, KeyShare)) >= 2 THEN U16(Value(e, KeyShare), 0) ELSE Absent]
  <2>1. got = IF Len(body) < 38 THEN NoHello ELSE IF Len(body) < i + 3 THEN NoHello ELSE Hello(x, i, U16(body, 0))
    BY Zenon DEF ParseServerHello, ExtensionsOf
  <2>2. i = 35 + n /\ x = exts
    BY <1>1, <1>2
  <2> HIDE DEF i, x, Hello
  <2>3. got = Hello(x, i, U16(body, 0))
    BY <1>3, <2>1, <2>2, Zenon
  <2>4. Hello(x, i, U16(body, 0)) = Hello(exts, 35 + n, U16(body, 0))
    BY <2>2, Zenon
  <2> DEFINE v == U16(body, 0)
             m == U16(body, 35 + n)
  <2>5. Hello(exts, 35 + n, v) =
          [version |-> IF Len(named) >= 2 THEN U16(named, 0) ELSE v,
           cipher |-> m, compression |-> U8(body, 35 + n + 2),
           retry |-> HelloRandom(d.retry) = RetryRandom,
           extensions |-> sent,
           alpn  |-> IF Len(alpn) >= 3 THEN Sub(alpn, 3, 3 + U8(alpn, 2)) ELSE <<>>,
           group |-> IF Len(share) >= 2 THEN U16(share, 0) ELSE Absent]
    <3>1. (Sub(body, 2, 34) = RetryRandom) = (HelloRandom(d.retry) = RetryRandom)
      BY <1>1
    <3> QED
      BY <3>1, Zenon DEF Hello
  <2>6. v = 771 /\ m = 4865
    BY <1>1, SMT
  <2> HIDE DEF v, m, named, alpn, share, sent
  <2> QED
    BY <2>3, <2>4, <2>5, <2>6, SMT DEF v
<1>5. exts \in Seq(HelloExtensions) /\ d.retry \in BOOLEAN
  BY Zenon DEF IsHello
<1>6. /\ named = IF SupportedVersions \in sent THEN <<3, 4>> ELSE <<>>
      /\ alpn = IF Alpn \in sent THEN <<0, 3, 2, 104, 50>> ELSE <<>>
      /\ share = IF KeyShare \in sent THEN ShareIsThere ELSE <<>>
  BY <1>5, HelloValuesAre, Zenon
<1>7. (HelloRandom(d.retry) = RetryRandom) = d.retry
  BY <1>5, RandomIs, Zenon
<1> HIDE DEF named, alpn, share, sent, exts
<1>8. (IF Len(named) >= 2 THEN U16(named, 0) ELSE 771) = IF SupportedVersions \in sent THEN 772 ELSE 771
  <2>1. Len(<<3, 4>>) = 2 /\ U16(<<3, 4>>, 0) = 772 /\ Len(<<>>) = 0
    BY SMT DEF U16, U8
  <2> QED
    BY ONLY <1>6, <2>1, SMT
<1>9. (IF Len(alpn) >= 3 THEN Sub(alpn, 3, 3 + U8(alpn, 2)) ELSE <<>>) = IF Alpn \in sent THEN <<104, 50>> ELSE <<>>
  <2> DEFINE h2 == <<0, 3, 2, 104, 50>>
  <2>1. Len(h2) = 5 /\ U8(h2, 2) = 2
    BY DEF U8
  <2>2. SubSeq(h2, 4, 5) = <<104, 50>>
    <3> DEFINE two == <<104, 50>>
    <3>1. h2 \in Octets /\ two \in Octets /\ Len(two) = 2
      BY DEF Octets
    <3>2. Sits(two, h2, 3)
      BY DEF Sits, Shows
    <3> HIDE DEF h2, two
    <3>3. SubSeq(h2, 3 + 1, 3 + Len(two)) = two
      BY <3>1, <3>2, SitsAre
    <3>4. 3 + 1 = 4 /\ 3 + Len(two) = 5
      BY <3>1
    <3> QED
      BY <3>3, <3>4, Zenon DEF two
  <2>3. Sub(h2, 3, 5) = SubSeq(h2, 4, 5)
    BY <2>1 DEF Sub
  <2>4. Len(<<>>) = 0
    OBVIOUS
  <2> HIDE DEF h2
  <2>5. 3 + U8(h2, 2) = 5
    BY <2>1
  <2> QED
    BY <1>6, <2>1, <2>2, <2>3, <2>4, <2>5 DEF h2
<1>10. (IF Len(share) >= 2 THEN U16(share, 0) ELSE Absent) = IF KeyShare \in sent THEN 29 ELSE Absent
  BY <1>6, ShareIsRead
<1> HIDE DEF got
<1>11. /\ got.version = (IF Len(named) >= 2 THEN U16(named, 0) ELSE 771) /\ got.cipher = 4865
       /\ got.retry = (HelloRandom(d.retry) = RetryRandom) /\ got.extensions = sent
       /\ got.alpn = (IF Len(alpn) >= 3 THEN Sub(alpn, 3, 3 + U8(alpn, 2)) ELSE <<>>)
       /\ got.group = (IF Len(share) >= 2 THEN U16(share, 0) ELSE Absent)
  BY <1>4, SMT
<1> QED
  BY <1>7, <1>8, <1>9, <1>10, <1>11, SMT DEF HelloReadsBack, got, body, exts, sent

-----------------------------------------------------------------------------
ServerHellos   == [kind : {"hello"}, retry : BOOLEAN, session : {0, 32}, extensions : Seq(HelloExtensions), list : Octets]
HelloInv == doc.kind = "hello" => doc \in ServerHellos /\ IsHello(doc)

LEMMA HelloInit == ReadersInit => HelloInv
<1> SUFFICES ASSUME ReadersInit, doc.kind = "hello" PROVE doc \in ServerHellos /\ IsHello(doc)
  BY DEF HelloInv
<1>1. doc \in [kind : {"hello"}, retry : BOOLEAN, session : {0, 32}, extensions : {<<>>}, list : {<<>>}]
  BY DEF ReadersInit
<1>2. <<>> \in Seq(HelloExtensions) /\ <<>> \in Octets
  BY DEF Octets
<1>3. HelloItems(<<>>) = <<>>
  BY DEF HelloItems
<1>4. doc.extensions = <<>> /\ doc.list = <<>>
  BY <1>1
<1>5. doc \in ServerHellos
  BY <1>1, <1>2 DEF ServerHellos
<1>6. doc.retry \in BOOLEAN /\ doc.session \in {0, 32}
  BY <1>1
<1> QED
  BY <1>2, <1>3, <1>4, <1>5, <1>6, RowEmpty DEF IsHello

LEMMA HelloNext == ASSUME KindInv, HelloInv, ReadersNext PROVE HelloInv'
<1>1. ASSUME doc.kind # "hello" PROVE HelloInv'
  BY <1>1, KindNext, Zenon DEF HelloInv
<1>2. ASSUME doc.kind = "hello" PROVE HelloInv'
  <2>1. PICK e \in HelloExtensions :
          LET list == doc.list \o HelloItem(e)
          IN doc' = [doc EXCEPT !.extensions = Append(@, e), !.list = list]
    <3>1. AddExtension
      BY <1>2 DEF ReadersNext, GrowTree, AddEntry, AddPiece, Grow
    <3> QED
      BY <1>2, <3>1, Zenon DEF AddExtension, Grow
  <2>2. doc \in ServerHellos /\ IsHello(doc)
    BY <1>2, Zenon DEF HelloInv
  <2> DEFINE exts == doc.extensions
             list == doc.list
             item == HelloItem(e)
             n    == Len(exts)
             more == Append(exts, e)
  <2>3. exts \in Seq(HelloExtensions) /\ list \in Octets /\ IsRow(list, HelloItems(exts))
    BY <2>2, Zenon DEF IsHello
  <2>4. HelloExtensions \subseteq Extended
    BY HelloExtensionsAre, Zenon
  <2>5. item \in Octets
    BY <2>4, HelloItemIs
  <2>6. /\ more \in Seq(HelloExtensions) /\ Len(more) = n + 1 /\ more[n + 1] = e
        /\ \A k \in 1..n : more[k] = exts[k]
    <3> HIDE DEF exts
    <3> QED
      BY <2>3, AppendProperties
  <2>7. n \in Nat /\ DOMAIN exts = 1..n /\ DOMAIN more = 1..(n + 1)
    <3> HIDE DEF exts, more
    <3> QED
      BY <2>3, <2>6
  <2> HIDE DEF exts, list, item, n, more
  <2>8. Append(HelloItems(exts), item) = HelloItems(more)
    <3> DEFINE old == HelloItems(exts)
               new == HelloItems(more)
    <3>1. DOMAIN old = 1..n /\ \A k \in 1..n : old[k] = HelloItem(exts[k])
      BY <2>7, Zenon DEF HelloItems
    <3>2. old = [k \in 1..n |-> HelloItem(exts[k])]
      BY <2>7, Zenon DEF HelloItems
    <3>3. new = [k \in 1..(n + 1) |-> HelloItem(more[k])]
      BY <2>7, Zenon DEF HelloItems
    <3> HIDE DEF old, new
    <3>4. old \in Seq(Octets) /\ Len(old) = n
      <4>1. ASSUME NEW k \in 1..n PROVE HelloItem(exts[k]) \in Octets
        <5>1. exts[k] \in Extended
          BY <2>3, <2>4, <2>7
        <5> QED
          BY <5>1, HelloItemIs, Zenon
      <4> QED
        BY <2>7, <3>2, <4>1
    <3>5. DOMAIN new = 1..(n + 1) /\ Function(new)
      BY <3>3, Zenon DEF Function
    <3>6. ASSUME NEW k \in 1..n PROVE new[k] = old[k]
      <4>1. k \in 1..(n + 1)
        BY <2>7
      <4> QED
        BY <2>6, <3>1, <3>3, <4>1
    <3>7. new[n + 1] = item
      <4>1. n + 1 \in 1..(n + 1)
        BY <2>7
      <4> QED
        BY <2>6, <3>3, <4>1 DEF item
    <3>8. Append(old, item) = new
      BY <2>5, <2>7, <3>4, <3>5, <3>6, <3>7, AppendIs, Zenon
    <3> QED
      BY <3>8, Zenon DEF old, new
  <2>9. list \o item \in Octets /\ IsRow(list \o item, HelloItems(more))
    <3> DEFINE items == HelloItems(exts)
    <3>1. IsRow(list, items)
      BY <2>3, Zenon
    <3> HIDE DEF items
    <3>2. IsRow(list \o item, Append(items, item))
      BY <2>5, <3>1, RowGrows, Zenon
    <3>3. list \o item \in Octets
      BY <2>3, <2>5, OctetsJoin, Zenon
    <3> QED
      BY <2>8, <3>2, <3>3, Zenon DEF items
  <2> DEFINE longer == list \o item
  <2>10. doc' = [doc EXCEPT !.extensions = more, !.list = longer]
    BY <2>1, Zenon DEF list, item, more, exts
  <2>11. longer \in Octets /\ IsRow(longer, HelloItems(more))
    BY <2>9, Zenon
  <2> HIDE DEF longer
  <2>12. /\ doc' \in ServerHellos /\ doc'.extensions = more /\ doc'.list = longer
         /\ doc'.retry \in BOOLEAN /\ doc'.session \in {0, 32}
    BY <2>2, <2>6, <2>10, <2>11 DEF ServerHellos
  <2>13. IsHello(doc)'
    BY <2>6, <2>11, <2>12, Zenon DEF IsHello
  <2> QED
    BY <2>12, <2>13, Zenon DEF HelloInv
<1> QED
  BY <1>1, <1>2, Zenon

ExchangeInv ==
  doc.kind = "exchange" =>
    /\ doc.kx \in {"ECDHE", "ECDH", "DHE", "DH"} /\ doc.named \in BOOLEAN
    /\ doc.zeros \in Nat /\ doc.size \in Nat \ {0}

LEMMA ExchangeInit == ReadersInit => ExchangeInv
<1> SUFFICES ASSUME ReadersInit, doc.kind = "exchange" PROVE ExchangeInv
  BY DEF ExchangeInv
<1>1. doc \in [kind : {"exchange"}, kx : {"ECDHE", "ECDH", "DHE", "DH"}, named : BOOLEAN,
                zeros : 0..2, size : {1, 32, 255}]
  BY DEF ReadersInit
<1> QED
  BY <1>1 DEF ExchangeInv

LEMMA ExchangeNext == ASSUME KindInv, ExchangeInv, ReadersNext PROVE ExchangeInv'
<1>1. doc.kind # "exchange"
  BY DEF ReadersNext, GrowTree, AddExtension, AddEntry, AddPiece, Grow
<1> QED
  BY <1>1, KindNext, Zenon DEF ExchangeInv

\* Every hello, chain and key exchange that can be composed is read as what it
\* says, and a chain that was cut short up to its last whole certificate
\* (tls-probe.js: parseServerHello, parseCertificates, parseServerKeyExchange).
THEOREM MessagesAlwaysReadBack == ReadersSpec => []MessagesReadBack
<1> DEFINE Inv == KindInv /\ ChainInv /\ HelloInv /\ ExchangeInv
<1>1. ReadersInit => Inv
  BY KindInit, ChainInit, HelloInit, ExchangeInit, Zenon
<1>2. Inv /\ [ReadersNext]_readersVars => Inv'
  <2>1. ASSUME UNCHANGED readersVars, Inv PROVE Inv'
    <3>1. doc' = doc
      BY <2>1 DEF readersVars
    <3> QED
      BY <2>1, <3>1 DEF KindInv, ChainInv, HelloInv, ExchangeInv, IsHello
  <2>2. ASSUME ReadersNext, Inv PROVE Inv'
    BY <2>2, KindNext, ChainNext, HelloNext, ExchangeNext, Zenon
  <2> QED
    BY <2>1, <2>2, Zenon
<1>3. Inv => MessagesReadBack
  <2> SUFFICES ASSUME Inv PROVE MessagesReadBack
    OBVIOUS
  <2>1. CASE doc.kind = "hello"
    <3>1. HelloReadsBack(doc)
      BY <2>1, HelloIsRead, Zenon DEF HelloInv
    <3> QED
      BY <2>1, <3>1 DEF MessagesReadBack
  <2>2. CASE doc.kind = "certificates"
    <3>1. IsChain(doc)
      BY <2>2 DEF ChainInv, Chains, IsChain
    <3>2. CertificatesReadBack(doc)
      BY <3>1, ChainReadsBack, Zenon
    <3> QED
      BY <2>2, <3>2 DEF MessagesReadBack
  <2>3. CASE doc.kind = "exchange"
    <3> DEFINE signature == Signature(Signed(doc.kx), doc.named)
               gives     == ParseServerKeyExchange(KeyExchangeOf(doc), doc.kx, doc.named)
    <3>1. /\ doc.kx \in {"ECDHE", "ECDH", "DHE", "DH"} /\ doc.named \in BOOLEAN
          /\ doc.zeros \in Nat /\ doc.size \in Nat \ {0}
      BY <2>3, Zenon DEF ExchangeInv
    <3>2. CASE Curved(doc.kx)
      <4>1. gives = [group |-> 29, dhBits |-> Absent, signature |-> signature]
        BY <3>1, <3>2, EcdheIsRead, SMT
      <4> HIDE DEF signature, gives
      <4> QED
        BY <2>3, <3>2, <4>1, SMT DEF MessagesReadBack, signature, gives, Signature
    <3>3. CASE ~Curved(doc.kx)
      <4>1. doc.kx \in {"DHE", "DH"}
        BY <3>1, <3>3, Zenon DEF Curved
      <4>2. gives = [group |-> Absent, dhBits |-> 8 * doc.size, signature |-> signature]
        BY <3>1, <4>1, DheIsRead, SMT
      <4> HIDE DEF signature, gives
      <4> QED
        BY <2>3, <3>3, <4>2, SMT DEF MessagesReadBack, signature, gives, Signature
    <3> QED
      BY <3>1, <3>2, <3>3, Zenon
  <2>4. CASE doc.kind \notin {"hello", "certificates", "exchange"}
    BY <2>4 DEF MessagesReadBack
  <2> QED
    BY <2>1, <2>2, <2>3, <2>4, Zenon
<1> QED
  BY <1>1, <1>2, <1>3, PTL DEF ReadersSpec

-----------------------------------------------------------------------------
(***************************************************************************)
(* A TLV is read as what was encoded.                                      *)
(***************************************************************************)
LEMMA ShiftedIs ==
  ASSUME NEW q \in Nat, q <= 65535, NEW r \in Nat
  PROVE  Shifted(q, r) = 256 * q + r
<1> DEFINE low == q % 16777216
<1>1. low = q
  BY SMT
<1> HIDE DEF low
<1>2. Shifted(q, r) = (IF low >= 8388608 THEN low - 16777216 ELSE low) * 256 + r
  BY SMT DEF Shifted, low
<1> QED
  BY <1>1, <1>2, SMT

LEMMA LongLengthIs ==
  ASSUME NEW buf, NEW i \in Nat
  PROVE  /\ LongLength(buf, i, 1) = Shifted(0, U8(buf, i))
         /\ LongLength(buf, i, 2) = Shifted(Shifted(0, U8(buf, i)), U8(buf, i + 1))
         /\ LongLength(buf, i, 3) = Shifted(Shifted(Shifted(0, U8(buf, i)), U8(buf, i + 1)), U8(buf, i + 2))
<1> DEFINE After(x, k) == Shifted(x, U8(buf, i + k - 1))
           length[k \in 0..4] == IF k = 0 THEN 0 ELSE After(length[k - 1], k)
           x1 == After(0, 1)
           x2 == After(x1, 2)
           x3 == After(x2, 3)
           x4 == After(x3, 4)
           f  == [k \in 0..4 |-> IF k = 0 THEN 0 ELSE IF k = 1 THEN x1 ELSE IF k = 2 THEN x2 ELSE IF k = 3 THEN x3 ELSE x4]
<1>1. \A count : LongLength(buf, i, count) = length[count]
  BY Zenon DEF LongLength
<1>2. /\ x1 = Shifted(0, U8(buf, i)) /\ x2 = Shifted(x1, U8(buf, i + 1)) /\ x3 = Shifted(x2, U8(buf, i + 2))
  <2>1. i + 1 - 1 = i /\ i + 2 - 1 = i + 1 /\ i + 3 - 1 = i + 2
    OBVIOUS
  <2> QED
    BY <2>1, Zenon
<1> HIDE DEF After
<1>3. f = [k \in 0..4 |-> IF k = 0 THEN 0 ELSE After(f[k - 1], k)]
  <2>1. f[0] = 0 /\ f[1] = x1 /\ f[2] = x2 /\ f[3] = x3 /\ f[4] = x4
    <3> HIDE DEF x1, x2, x3, x4
    <3> QED
      OBVIOUS
  <2>2. f = [k \in 0..4 |-> f[k]]
    OBVIOUS
  <2> HIDE DEF f
  <2>3. ASSUME NEW k \in 0..4 PROVE f[k] = IF k = 0 THEN 0 ELSE After(f[k - 1], k)
    <3>1. k = 0 \/ k = 1 \/ k = 2 \/ k = 3 \/ k = 4
      OBVIOUS
    <3>2. 1 - 1 = 0 /\ 2 - 1 = 1 /\ 3 - 1 = 2 /\ 4 - 1 = 3
      OBVIOUS
    <3> QED
      BY <2>1, <3>1, <3>2, Zenon
  <2> QED
    BY <2>2, <2>3
<1> HIDE DEF f
<1>4. length = [k \in 0..4 |-> IF k = 0 THEN 0 ELSE After(length[k - 1], k)]
  BY <1>3
<1> HIDE DEF length
<1>5. length[0] = 0 /\ length[1] = After(length[0], 1) /\ length[2] = After(length[1], 2) /\ length[3] = After(length[2], 3)
  <2>1. 1 - 1 = 0 /\ 2 - 1 = 1 /\ 3 - 1 = 2
    OBVIOUS
  <2>2. \A k \in 0..4 : length[k] = IF k = 0 THEN 0 ELSE After(length[k - 1], k)
    BY <1>4, Zenon
  <2>3. 0 \in 0..4 /\ 1 \in 0..4 /\ 2 \in 0..4 /\ 3 \in 0..4 /\ 1 # 0 /\ 2 # 0 /\ 3 # 0
    OBVIOUS
  <2> QED
    BY <2>1, <2>2, <2>3, Zenon
<1>6. length[1] = x1 /\ length[2] = x2 /\ length[3] = x3
  BY <1>5, Zenon
<1> HIDE DEF x1, x2, x3
<1> QED
  BY <1>1, <1>2, <1>6, Zenon

\* The octets of a length, and how many they are.
Size(n) == IF n < 128 THEN 1 ELSE IF n < 256 THEN 2 ELSE IF n <= Max2 THEN 3 ELSE 4

LEMMA OneMore ==
  ASSUME NEW x \in Nat, NEW s \in Octets
  PROVE  /\ <<x>> \o s \in Octets /\ Len(<<x>> \o s) = Len(s) + 1 /\ Len(s) \in Nat
         /\ (<<x>> \o s)[1] = x /\ \A k \in 1..Len(s) : (<<x>> \o s)[k + 1] = s[k]
<1> DEFINE one == <<x>>
           sum == one \o s
<1>1. one \in Seq(Nat) /\ s \in Seq(Nat) /\ Len(one) = 1 /\ one[1] = x /\ Len(s) \in Nat
  BY DEF Octets
<1> HIDE DEF one
<1>2. /\ sum \in Seq(Nat) /\ Len(sum) = Len(one) + Len(s)
      /\ \A k \in 1..Len(one) : sum[k] = one[k]
      /\ \A k \in 1..Len(s) : sum[Len(one) + k] = s[k]
  <2>1. one \in Seq(Nat) /\ s \in Seq(Nat)
    BY <1>1, Zenon
  <2> QED
    BY <2>1, ConcatIs
<1> HIDE DEF sum
<1>3. sum[1] = x
  BY <1>1, <1>2
<1>4. ASSUME NEW k \in 1..Len(s) PROVE sum[k + 1] = s[k]
  <2>1. Len(one) + k = k + 1
    BY <1>1
  <2> QED
    BY <1>2, <2>1, Zenon
<1>5. Len(sum) = Len(s) + 1
  BY <1>1, <1>2
<1> QED
  BY <1>1, <1>2, <1>3, <1>4, <1>5, Zenon DEF sum, one, Octets

LEMMA LengthOctetsAre ==
  ASSUME NEW n \in Nat, n <= Max3
  PROVE  /\ LengthOctets(n) \in Octets /\ Len(LengthOctets(n)) = Size(n) /\ Size(n) \in 1..4 /\ n \in Nat
         /\ n < 128 => LengthOctets(n)[1] = n
         /\ ~(n < 128) => LengthOctets(n)[1] = 127 + Size(n)
         /\ n >= 128 /\ n < 256 => LengthOctets(n)[2] = n
         /\ n >= 256 /\ n <= Max2 =>
              LET b == LengthOctets(n) IN b[2] \in Nat /\ b[3] \in Nat /\ 256 * b[2] + b[3] = n
         /\ n > Max2 =>
              LET b == LengthOctets(n)
              IN b[2] \in Nat /\ b[3] \in Nat /\ b[4] \in Nat /\ 65536 * b[2] + (256 * b[3] + b[4]) = n
<1>1. n \in Nat /\ n <= 16777215 /\ Size(n) \in 1..4
  <2>1. n \in Nat /\ n <= 16777215
    BY SMT DEF Max3
  <2>2. Size(n) = 1 \/ Size(n) = 2 \/ Size(n) = 3 \/ Size(n) = 4
    BY SMT DEF Size
  <2>3. Size(n) \in 1..4
    BY ONLY <2>2
  <2> QED
    BY <2>1, <2>3
<1>2. CASE n < 128
  <2>1. LengthOctets(n) = <<n>>
    BY <1>2, SMT DEF LengthOctets
  <2> QED
    BY <1>1, <1>2, <2>1, SMT DEF Size, Octets, Max2
<1>3. CASE n >= 128 /\ n < 256
  <2>1. LengthOctets(n) = <<129, n>>
    BY <1>1, <1>3, SMT DEF LengthOctets
  <2> QED
    BY <1>1, <1>3, <2>1, SMT DEF Size, Octets, Max2
<1>4. CASE n >= 256 /\ n <= Max2
  <2> DEFINE b   == LengthOctets(n)
             two == N2(n)
             x   == 130
  <2>1. b = <<x>> \o two
    BY <1>1, <1>4, SMT DEF LengthOctets
  <2>2. two \in Octets /\ Len(two) = 2 /\ 256 * two[1] + two[2] = n /\ x \in Nat
    BY <1>1, N2Is
  <2> HIDE DEF b, two, x
  <2>3. two[1] \in Nat /\ two[2] \in Nat
    <3>1. 1 \in 1..Len(two) /\ 2 \in 1..Len(two)
      BY <2>2
    <3> QED
      BY <2>2, <3>1, OctetIs, Zenon
  <2>4. b \in Octets /\ Len(b) = 3 /\ b[1] = x /\ b[2] = two[1] /\ b[3] = two[2]
    <3>0. two \in Octets /\ Len(two) = 2 /\ x \in Nat
      BY <2>2, SMT
    <3>1. b \in Octets /\ Len(b) = Len(two) + 1 /\ b[1] = x /\ \A k \in 1..Len(two) : b[k + 1] = two[k]
      BY <2>1, <3>0, OneMore, ZenonT(30)
    <3>2. b[1 + 1] = two[1] /\ b[2 + 1] = two[2]
      BY <3>0, <3>1
    <3> QED
      BY <3>0, <3>1, <3>2
  <2>5. Size(n) = 3 /\ ~(n < 128) /\ ~(n < 256) /\ ~(n > Max2)
    BY <1>1, <1>4, SMT DEF Size, Max2
  <2> QED
    BY <1>1, <2>2, <2>3, <2>4, <2>5, SMT DEF b, x
<1>5. CASE n > Max2
  <2> DEFINE b     == LengthOctets(n)
             three == N3(n)
             x     == 131
  <2>1. b = <<x>> \o three
    BY <1>1, <1>5, SMT DEF LengthOctets, Max2
  <2>2. three \in Octets /\ Len(three) = 3 /\ 65536 * three[1] + (256 * three[2] + three[3]) = n /\ x \in Nat
    BY <1>1, N3Is, SMT
  <2> HIDE DEF b, three, x
  <2>3. three[1] \in Nat /\ three[2] \in Nat /\ three[3] \in Nat
    <3>1. 1 \in 1..Len(three) /\ 2 \in 1..Len(three) /\ 3 \in 1..Len(three) /\ three \in Octets
      BY <2>2, SMT
    <3> QED
      BY <3>1, OctetIs, Zenon
  <2>4. b \in Octets /\ Len(b) = 4 /\ b[1] = x /\ b[2] = three[1] /\ b[3] = three[2] /\ b[4] = three[3]
    <3>0. three \in Octets /\ Len(three) = 3 /\ x \in Nat
      BY <2>2, SMT
    <3>1. b \in Octets /\ Len(b) = Len(three) + 1 /\ b[1] = x /\ \A k \in 1..Len(three) : b[k + 1] = three[k]
      BY <2>1, <3>0, OneMore, ZenonT(30)
    <3>2. b[1 + 1] = three[1] /\ b[2 + 1] = three[2] /\ b[3 + 1] = three[3]
      BY <3>0, <3>1
    <3> QED
      BY <3>0, <3>1, <3>2
  <2>5. Size(n) = 4 /\ ~(n < 128) /\ ~(n < 256) /\ ~(n <= Max2)
    BY <1>1, <1>5, SMT DEF Size, Max2
  <2> QED
    BY <1>1, <2>2, <2>3, <2>4, <2>5, SMT DEF b, x
<1> QED
  BY <1>1, <1>2, <1>3, <1>4, <1>5, SMT DEF Max2

Header(tag, n) == <<tag>> \o LengthOctets(n)

LEMMA LengthIsRead ==
  ASSUME NEW n \in Nat, n <= Max3, ~(n < 128), NEW buf \in Octets, NEW i \in Nat,
         Shows(LengthOctets(n), buf, i), i + Size(n) <= Len(buf)
  PROVE  LongLength(buf, i + 1, Size(n) - 1) = n
<1> DEFINE b == LengthOctets(n)
           s == Size(n)
<1>1. b \in Octets /\ Len(b) = s /\ s \in 1..4
  BY LengthOctetsAre, SMT
<1>2. Shows(b, buf, i) /\ i + s <= Len(buf) /\ Len(buf) \in Nat
  BY DEF Octets
<1> HIDE DEF b, s
<1>3. ASSUME NEW j \in 1..3, j < s PROVE U8(buf, i + j) = b[j + 1] /\ b[j + 1] \in Nat
  <2>1. j \in 0..(Len(b) - 1) /\ i + j < Len(buf)
    BY <1>1, <1>2, <1>3
  <2> QED
    BY <1>1, <1>2, <2>1, SitsAt, Zenon
<1> DEFINE p == i + 1
<1>4. p \in Nat /\ p = i + 1 /\ p + 1 = i + 2 /\ p + 2 = i + 3
  OBVIOUS
<1> HIDE DEF p
<1>5. CASE n < 256
  <2>1. s = 2 /\ b[2] = n
    <3>1. s = 2
      BY <1>5, SMT DEF s, Size
    <3>2. b[2] = n
      BY <1>5, LengthOctetsAre, SMT DEF b
    <3> QED
      BY <3>1, <3>2
  <2>2. LongLength(buf, p, 1) = Shifted(0, U8(buf, p))
    BY <1>4, LongLengthIs, Zenon
  <2>3. U8(buf, p) = n
    BY <1>3, <1>4, <2>1
  <2>4. Shifted(0, n) = n
    BY ShiftedIs, SMT
  <2> QED
    BY <1>4, <2>1, <2>2, <2>3, <2>4 DEF s
<1>6. CASE ~(n < 256) /\ n <= Max2
  <2> DEFINE u == b[2]
             v == b[3]
  <2>1. s = 3 /\ u \in Nat /\ v \in Nat /\ 256 * u + v = n
    <3>1. s = 3
      BY <1>6, SMT DEF s, Size
    <3>2. b[2] \in Nat /\ b[3] \in Nat /\ 256 * b[2] + b[3] = n
      BY <1>6, LengthOctetsAre, SMT DEF b
    <3> QED
      BY <3>1, <3>2, SMT
  <2>2. U8(buf, p) = u /\ U8(buf, p + 1) = v
    <3>1. s = 3
      BY <2>1, SMT
    <3> QED
      BY <1>3, <1>4, <3>1
  <2> HIDE DEF u, v
  <2>3. LongLength(buf, p, 2) = Shifted(Shifted(0, u), v)
    BY <1>4, <2>2, LongLengthIs, Zenon
  <2>4. Shifted(0, u) = u /\ u <= 65535
    BY <1>6, <2>1, ShiftedIs, SMT DEF Max2
  <2>5. Shifted(u, v) = n
    BY <2>1, <2>4, ShiftedIs, SMT
  <2> QED
    BY <1>4, <2>1, <2>3, <2>4, <2>5, SMT DEF s
<1>7. CASE n > Max2
  <2> DEFINE u == b[2]
             v == b[3]
             w == b[4]
             x == 256 * u + v
  <2>1. s = 4 /\ u \in Nat /\ v \in Nat /\ w \in Nat /\ 65536 * u + (256 * v + w) = n
    <3>1. s = 4
      BY <1>7, SMT DEF s, Size, Max2
    <3>2. b[2] \in Nat /\ b[3] \in Nat /\ b[4] \in Nat /\ 65536 * b[2] + (256 * b[3] + b[4]) = n
      BY <1>7, LengthOctetsAre, SMT DEF b
    <3> QED
      BY <3>1, <3>2, SMT
  <2>2. U8(buf, p) = u /\ U8(buf, p + 1) = v /\ U8(buf, p + 2) = w
    <3>1. s = 4
      BY <2>1, SMT
    <3> QED
      BY <1>3, <1>4, <3>1
  <2> HIDE DEF u, v, w
  <2>3. LongLength(buf, p, 3) = Shifted(Shifted(Shifted(0, u), v), w)
    BY <1>4, <2>2, LongLengthIs, Zenon
  <2>4. u <= 255 /\ x \in Nat /\ x <= 65535 /\ 256 * x + w = n
    BY <2>1, SMT DEF Max3
  <2>5. Shifted(0, u) = u
    BY <2>1, <2>4, ShiftedIs, SMT
  <2>6. Shifted(u, v) = x
    BY <2>1, <2>4, ShiftedIs, SMT
  <2> HIDE DEF x
  <2>7. Shifted(x, w) = n
    BY <2>1, <2>4, ShiftedIs, SMT
  <2> QED
    BY <1>4, <2>1, <2>3, <2>5, <2>6, <2>7, SMT DEF s
<1> QED
  BY <1>5, <1>6, <1>7, SMT DEF Max2

LEMMA HeaderIs ==
  ASSUME NEW tag \in Nat, NEW n \in Nat, n <= Max3
  PROVE  /\ Header(tag, n) \in Octets /\ Len(Header(tag, n)) = 1 + Size(n)
         /\ LengthOctets(n) \in Octets /\ Len(LengthOctets(n)) = Size(n) /\ Size(n) \in 1..4
<1>1. LengthOctets(n) \in Octets /\ Len(LengthOctets(n)) = Size(n) /\ Size(n) \in 1..4
  BY LengthOctetsAre, SMT
<1>2. Header(tag, n) \in Octets /\ Len(Header(tag, n)) = Len(LengthOctets(n)) + 1
  BY <1>1, OneMore, Zenon DEF Header
<1> QED
  BY <1>1, <1>2

LEMMA HeaderIsRead ==
  ASSUME NEW tag \in Nat, NEW n \in Nat, n <= Max3, NEW buf \in Octets, NEW i \in Nat,
         Shows(Header(tag, n), buf, i), NEW from, from = i + (1 + Size(n))
  PROVE  ReadTlv(buf, i) = IF from + n <= Len(buf) THEN [tag |-> tag, from |-> from, end |-> from + n] ELSE Nothing
<1> DEFINE b == LengthOctets(n)
           s == Size(n)
           m == Len(buf)
<1>1. b \in Octets /\ Len(b) = s /\ s \in 1..4 /\ m \in Nat /\ <<tag>> \in Octets /\ Len(<<tag>>) = 1
  <2>1. b \in Octets /\ Len(b) = s /\ s \in 1..4
    BY HeaderIs, Zenon
  <2>2. <<tag>> \in Octets /\ Len(<<tag>>) = 1
    BY OneOctet
  <2>3. m \in Nat
    BY DEF Octets
  <2> QED
    BY <2>1, <2>2, <2>3, Zenon
<1>2. Shows(<<tag>>, buf, i) /\ Shows(b, buf, i + 1)
  <2> DEFINE one == <<tag>>
  <2>1. one \in Octets /\ Len(one) = 1 /\ Shows(one \o b, buf, i)
    BY <1>1, Zenon DEF Header
  <2> HIDE DEF one, b
  <2>2. Shows(one, buf, i) /\ Shows(b, buf, i + Len(one))
    BY <1>1, <2>1, ShowsParts, Zenon
  <2> QED
    BY <2>1, <2>2, Zenon DEF one
<1>3. from = i + (1 + s) /\ from \in Nat /\ i + 2 <= from
  BY <1>1
<1> HIDE DEF b, s
<1>4. CASE i + 2 > m
  <2>1. ReadTlv(buf, i) = Nothing
    BY <1>4 DEF ReadTlv
  <2>2. ~(from + n <= m)
    BY <1>1, <1>3, <1>4
  <2> QED
    BY <2>1, <2>2, Zenon
<1>5. CASE i + 2 <= m
  <2>1. U8(buf, i) = tag
    <3>1. Sits(<<tag>>, buf, i)
      BY <1>1, <1>2, <1>5 DEF Sits
    <3> QED
      BY <3>1, U8Sits
  <2>2. U8(buf, i + 1) = b[1]
    <3> DEFINE j == i + 1
    <3>1. j \in Nat /\ 0 \in 0..(Len(b) - 1) /\ j + 0 < Len(buf) /\ j + 0 = j
      BY <1>1, <1>5
    <3> HIDE DEF j
    <3>2. Shows(b, buf, j)
      BY <1>2, Zenon DEF j
    <3>3. U8(buf, j + 0) = b[0 + 1]
      BY <1>1, <3>1, <3>2, SitsAt, Zenon
    <3>4. U8(buf, j) = b[1]
      BY <3>1, <3>3
    <3> QED
      BY <3>4, Zenon DEF j
  <2>3. CASE n < 128
    <3>1. b[1] = n /\ s = 1
      BY <2>3, LengthOctetsAre, SMT DEF b, s, Size
    <3>2. ReadTlv(buf, i) = Tlv(buf, tag, i + 2, n)
      BY <1>1, <1>5, <2>1, <2>2, <2>3, <3>1 DEF ReadTlv
    <3>3. from = i + 2
      BY <1>3, <3>1
    <3>4. (from + n > m) <=> ~(from + n <= m)
      BY <1>1, <1>3
    <3> HIDE DEF m
    <3>5. Tlv(buf, tag, from, n) = IF from + n > m THEN Nothing ELSE [tag |-> tag, from |-> from, end |-> from + n]
      BY Zenon DEF Tlv, m
    <3> QED
      BY <3>2, <3>3, <3>4, <3>5, Zenon DEF m
  <2>4. CASE ~(n < 128)
    <3> DEFINE first == U8(buf, i + 1)
               count == first - 128
    <3>1. first = 127 + s /\ s # 1
      <4>1. b[1] = 127 + s
        BY <2>4, LengthOctetsAre, SMT DEF b, s
      <4>2. s # 1
        BY <2>4, SMT DEF s, Size
      <4> QED
        BY <2>2, <4>1, <4>2, Zenon
    <3> HIDE DEF first
    <3>2. count = s - 1 /\ count \in 1..3 /\ ~(first < 128) /\ i + 2 + count = from
      BY <1>1, <1>3, <3>1
    <3>3. ReadTlv(buf, i) = IF from > m THEN Nothing ELSE Tlv(buf, tag, from, LongLength(buf, i + 2, count))
      <4>1. ~(i + 2 > Len(buf))
        BY <1>1, <1>5
      <4>2. ReadTlv(buf, i) = IF count = 0 \/ count > 4 \/ i + 2 + count > m THEN Nothing
                              ELSE Tlv(buf, tag, i + 2 + count, LongLength(buf, i + 2, count))
        <5> HIDE DEF m
        <5>1. ReadTlv(buf, i) = IF first < 128 THEN Tlv(buf, U8(buf, i), i + 2, first)
                                ELSE IF count = 0 \/ count > 4 \/ i + 2 + count > m THEN Nothing
                                ELSE Tlv(buf, U8(buf, i), i + 2 + count, LongLength(buf, i + 2, count))
          BY <4>1, Zenon DEF ReadTlv, first, m
        <5> QED
          BY <2>1, <3>2, <5>1, Zenon
      <4>3. ~(count = 0) /\ ~(count > 4)
        BY <3>2
      <4> HIDE DEF count, m
      <4> QED
        BY <3>2, <4>2, <4>3, Zenon
    <3> HIDE DEF count
    <3>4. CASE from > m
      <4>1. ~(from + n <= m)
        BY <1>1, <1>3, <3>4
      <4> QED
        BY <3>3, <3>4, <4>1, Zenon
    <3>5. CASE ~(from > m)
      <4> DEFINE j == i + 1
      <4>1. j \in Nat /\ j + s <= Len(buf) /\ j + 1 = i + 2
        BY <1>1, <1>3, <3>5
      <4>2. Shows(LengthOctets(n), buf, j) /\ j + Size(n) <= Len(buf)
        BY <1>2, <4>1, Zenon DEF b, s
      <4> HIDE DEF j
      <4>3. LongLength(buf, j + 1, Size(n) - 1) = n
        BY <2>4, <4>1, <4>2, LengthIsRead, Zenon
      <4>4. LongLength(buf, i + 2, count) = n
        BY <3>2, <4>1, <4>3, Zenon DEF s
      <4>5. (from + n > m) <=> ~(from + n <= m)
        BY <1>1, <1>3
      <4> HIDE DEF m
      <4>6. Tlv(buf, tag, from, n) = IF from + n > m THEN Nothing ELSE [tag |-> tag, from |-> from, end |-> from + n]
        BY Zenon DEF Tlv, m
      <4>7. ReadTlv(buf, i) = Tlv(buf, tag, from, n)
        BY <3>3, <3>5, <4>4, Zenon
      <4> QED
        BY <4>5, <4>6, <4>7, Zenon DEF m
    <3> QED
      BY <3>4, <3>5, Zenon
  <2> QED
    BY <2>3, <2>4, Zenon
<1> QED
  BY <1>1, <1>4, <1>5

\* Where a TLV is that was put at offset i.
Behold(tag, content, i) ==
  LET from == i + (1 + Size(Len(content))) IN [tag |-> tag, from |-> from, end |-> from + Len(content)]

LEMMA TlvIs ==
  ASSUME NEW tag \in Nat, NEW content \in Octets, Len(content) <= Max3
  PROVE  /\ TLV(tag, content) \in Octets /\ TLV(tag, content) # <<>>
         /\ Len(TLV(tag, content)) = (1 + Size(Len(content))) + Len(content)
         /\ TLV(tag, content) = Header(tag, Len(content)) \o content
         /\ Header(tag, Len(content)) \in Octets /\ Len(Header(tag, Len(content))) = 1 + Size(Len(content))
         /\ Size(Len(content)) \in 1..4 /\ Len(content) \in Nat
         /\ Len(content) + 2 <= Len(TLV(tag, content))
<1> DEFINE n == Len(content)
           s == Size(n)
           h == Header(tag, n)
           b == TLV(tag, content)
<1>1. n \in Nat
  BY DEF Octets
<1>2. h \in Octets /\ Len(h) = 1 + s /\ s \in 1..4
  BY <1>1, HeaderIs, Zenon
<1>3. b = h \o content
  BY Zenon DEF TLV, Header
<1> HIDE DEF h, s, b
<1>4. b \in Octets /\ Len(b) = Len(h) + Len(content)
  BY <1>2, <1>3, OctetsJoin, Zenon
<1> HIDE DEF n
<1>5. Len(b) = (1 + s) + n
  BY <1>2, <1>4, Zenon DEF n
<1>6. b # <<>> /\ n + 2 <= Len(b)
  <2>1. n + 2 <= Len(b) /\ Len(b) # 0
    BY <1>1, <1>2, <1>5
  <2> QED
    BY <2>1
<1> QED
  BY <1>1, <1>2, <1>3, <1>4, <1>5, <1>6, Zenon DEF n, s, h, b

LEMMA TlvIsRead ==
  ASSUME NEW tag \in Nat, NEW content \in Octets, Len(content) <= Max3,
         NEW buf \in Octets, NEW i \in Nat, Sits(TLV(tag, content), buf, i), NEW t, t = Behold(tag, content, i)
  PROVE  /\ ReadTlv(buf, i) = t /\ t \in Tlvs /\ t # Nothing /\ t.tag = tag
         /\ t.from \in Nat /\ t.from <= t.end /\ t.end = i + Len(TLV(tag, content)) /\ t.end <= Len(buf)
         /\ t.end = t.from + Len(content)
         /\ Content(buf, t) = content /\ Sits(content, buf, t.from)
<1> DEFINE n    == Len(content)
           s    == Size(n)
           h    == Header(tag, n)
           b    == TLV(tag, content)
           from == i + (1 + s)
<1>1. /\ b \in Octets /\ Len(b) = (1 + s) + n /\ b = h \o content /\ h \in Octets /\ Len(h) = 1 + s
      /\ s \in 1..4 /\ n \in Nat
  BY TlvIs, Zenon
<1>2. t = [tag |-> tag, from |-> from, end |-> from + n]
  BY Zenon DEF Behold
<1> HIDE DEF h, s, b
<1>3. Sits(h, buf, i) /\ Sits(content, buf, i + Len(h)) /\ i + Len(b) <= Len(buf)
  <2>1. Sits(b, buf, i)
    BY Zenon DEF b
  <2>2. Sits(h, buf, i) /\ Sits(content, buf, i + Len(h))
    BY <1>1, <2>1, SitsParts, Zenon
  <2> QED
    BY <2>1, <2>2, Zenon DEF Sits
<1>4. from \in Nat /\ from + n = i + Len(b) /\ from + n <= Len(buf) /\ i + Len(h) = from
  <2>1. Len(buf) \in Nat
    BY DEF Octets
  <2> HIDE DEF n
  <2> QED
    BY <1>1, <1>3, <2>1
<1>5. ReadTlv(buf, i) = t
  <2>1. Shows(Header(tag, n), buf, i)
    BY <1>3, Zenon DEF Sits, h
  <2>2. n <= Max3 /\ n \in Nat
    BY <1>1, Zenon
  <2>3. from = i + (1 + Size(n))
    BY Zenon DEF s
  <2> HIDE DEF from, n
  <2>4. ReadTlv(buf, i) = IF from + n <= Len(buf) THEN [tag |-> tag, from |-> from, end |-> from + n] ELSE Nothing
    BY <2>1, <2>2, <2>3, HeaderIsRead, Zenon
  <2> QED
    BY <1>2, <1>4, <2>4, Zenon
<1> HIDE DEF from, n
<1>6. t.tag = tag /\ t.from = from /\ t.end = from + n /\ t \in Tlvs
  <2>1. from + n \in Int
    BY <1>1, <1>4
  <2> QED
    BY <1>2, <1>4, <2>1 DEF Tlvs
<1>7. t # Nothing
  BY <1>2 DEF Nothing
<1>8. Sits(content, buf, from)
  BY <1>3, <1>4, Zenon
<1>9. Content(buf, t) = content
  <2>1. SubSeq(buf, from + 1, from + Len(content)) = content
    BY <1>4, <1>8, SitsAre, Zenon
  <2> QED
    BY <1>6, <2>1, Zenon DEF Content, n
<1>10. from <= from + n
  BY <1>1, <1>4
<1> QED
  BY <1>4, <1>5, <1>6, <1>7, <1>8, <1>9, <1>10, Zenon DEF b, n

LEMMA TlvIsCut ==
  ASSUME NEW tag \in Nat, NEW content \in Octets, Len(content) <= Max3,
         NEW n \in 0..(Len(TLV(tag, content)) - 1)
  PROVE  ReadTlv(Cut(TLV(tag, content), n), 0) = Nothing
<1> DEFINE b    == TLV(tag, content)
           buf  == Cut(b, n)
           m    == Len(content)
           h    == Header(tag, m)
           from == 1 + Size(m)
<1>1. /\ b \in Octets /\ Len(b) = from + m /\ b = h \o content /\ h \in Octets /\ m \in Nat /\ Size(m) \in 1..4
  BY TlvIs, Zenon
<1> HIDE DEF b
<1>2. n \in 0..Len(b) /\ n < Len(b)
  <2>1. Len(b) \in Nat /\ n \in 0..(Len(b) - 1)
    BY <1>1 DEF Octets, b
  <2> QED
    BY <2>1
<1>3. buf \in Octets /\ Len(buf) = n /\ Shows(b, buf, 0)
  BY <1>1, <1>2, CutShows, Zenon
<1> HIDE DEF buf, h
<1>4. Shows(h, buf, 0)
  <2>1. 0 \in Nat
    OBVIOUS
  <2> QED
    BY <1>1, <1>3, <2>1, ShowsParts, Zenon
<1>5. m <= Max3
  BY Zenon
<1> HIDE DEF m
<1>6. from = 0 + (1 + Size(m)) /\ 0 \in Nat
  BY <1>1
<1> HIDE DEF from
<1>7. ReadTlv(buf, 0) = IF from + m <= Len(buf) THEN [tag |-> tag, from |-> from, end |-> from + m] ELSE Nothing
  BY <1>1, <1>3, <1>4, <1>5, <1>6, HeaderIsRead, Zenon DEF h
<1>8. ~(from + m <= Len(buf))
  <2>1. Len(b) = from + m /\ n < Len(b) /\ Len(buf) = n /\ n \in Nat /\ Len(b) \in Nat
    BY <1>1, <1>2, <1>3 DEF Octets
  <2> QED
    BY ONLY <2>1
<1> QED
  BY <1>7, <1>8, Zenon DEF buf, b

-----------------------------------------------------------------------------
(***************************************************************************)
(* The children of a TLV whose content is a row of TLVs.                   *)
(***************************************************************************)
Readable(buf, items, c, i) ==
  \A k \in 1..Len(items) :
    /\ items[k] # <<>> /\ ReadTlv(buf, i + c[k - 1]) # Nothing
    /\ ReadTlv(buf, i + c[k - 1]).end = i + c[k]

ReadAt(buf, items, c, i) == [k \in 1..Len(items) |-> ReadTlv(buf, i + c[k - 1])]

\* A TLV that holds a row up to its end, or up to where no other can be read.
Holds(buf, tlv, b) ==
  /\ Sits(b, buf, tlv.from) /\ tlv.end \in Nat /\ tlv.from + Len(b) <= tlv.end
  /\ tlv.end = tlv.from + Len(b) \/ ReadTlv(buf, tlv.from + Len(b)) = Nothing

LEMMA ChildrenUntil ==
  ASSUME NEW b, NEW items, NEW c, Row(b, items, c), NEW buf \in Octets, NEW tlv, tlv.from \in Nat,
         Holds(buf, tlv, b), Readable(buf, items, c, tlv.from)
  PROVE  Children(buf, tlv) = ReadAt(buf, items, c, tlv.from)
<1> DEFINE m == Len(items)
           i == tlv.from
           whole == {j \in 0..(tlv.end - 1) : ReadTlv(buf, j) # Nothing}
           next  == [j \in whole |-> ReadTlv(buf, j).end]
           stops == Stops(buf, next, i)
<1>1. m \in Nat /\ c \in [0..m -> Nat] /\ c[m] = Len(b) /\ Len(b) \in Nat /\ Len(buf) \in Nat /\ i \in Nat
  BY DEF Row, Octets
<1>2. /\ i + Len(b) <= tlv.end /\ i + Len(b) <= Len(buf) /\ tlv.end \in Nat
      /\ tlv.end = i + Len(b) \/ ReadTlv(buf, i + Len(b)) = Nothing
  BY Zenon DEF Sits, Holds
<1>3. \A j, k \in 0..m : j <= k => c[j] <= c[k]
  BY RowOrder, Zenon
<1>4. \A k \in 1..m : c[k] = c[k - 1] + Len(items[k]) /\ items[k] \in Octets
  BY DEF Row
<1>5. \A k \in 1..m : items[k] # <<>> /\ ReadTlv(buf, i + c[k - 1]) # Nothing /\ ReadTlv(buf, i + c[k - 1]).end = i + c[k]
  BY Zenon DEF Readable
<1> HIDE DEF m, i
<1>6. ASSUME NEW k \in 1..m PROVE i + c[k - 1] \in 0..(tlv.end - 1)
  <2>1. k \in 0..m /\ k - 1 \in 0..m /\ m \in 0..m /\ k <= m
    BY <1>1
  <2>2. c[k] <= c[m] /\ c[k] \in Nat /\ c[k - 1] \in Nat
    BY <1>1, <1>3, <2>1
  <2>3. items[k] \in Seq(Nat) /\ items[k] # <<>>
    BY <1>4, <1>5 DEF Octets
  <2>4. Len(items[k]) \in Nat /\ Len(items[k]) # 0
    BY <2>3, EmptySeq
  <2>5. c[k] = c[k - 1] + Len(items[k]) /\ i + c[m] <= tlv.end /\ tlv.end \in Nat /\ i \in Nat
    BY <1>1, <1>2, <1>4, Zenon
  <2>6. i + c[k - 1] \in Nat /\ i + c[k - 1] < i + c[m]
    <3> DEFINE x == c[k]  y == c[k - 1]  z == c[m]  l == Len(items[k])
    <3>1. x = y + l /\ x <= z /\ x \in Nat /\ y \in Nat /\ z \in Nat /\ l \in Nat /\ l # 0 /\ i \in Nat
      BY <1>1, <2>2, <2>4, <2>5
    <3> HIDE DEF x, y, z, l
    <3>2. i + y \in Nat /\ i + y < i + z
      BY ONLY <3>1
    <3> QED
      BY <3>2 DEF y, z
  <2>7. i + c[m] \in Nat
    BY <1>1
  <2> DEFINE at == i + c[k - 1]
             to == i + c[m]
             end == tlv.end
  <2>8. at \in Nat /\ at < to /\ to <= end /\ to \in Nat /\ end \in Nat
    BY <2>5, <2>6, <2>7
  <2> HIDE DEF at, to, end
  <2>9. at \in 0..(end - 1)
    BY ONLY <2>8
  <2> QED
    BY <2>9 DEF at, end
<1>7. Walks(next, items, c, i)
  <2>1. ASSUME NEW k \in 1..m PROVE items[k] # <<>> /\ i + c[k - 1] \in DOMAIN next /\ next[i + c[k - 1]] = i + c[k]
    <3>1. i + c[k - 1] \in whole
      BY <1>5, <1>6, Zenon
    <3> HIDE DEF whole
    <3> QED
      BY <1>5, <3>1, Zenon
  <2> HIDE DEF next
  <2> QED
    BY <2>1, Zenon DEF Walks, m
<1>8. i + Len(b) \notin DOMAIN next
  <2>1. DOMAIN next = whole
    BY Zenon
  <2>2. CASE tlv.end = i + Len(b)
    <3>1. tlv.end \notin 0..(tlv.end - 1)
      BY <1>2
    <3> QED
      BY <2>1, <2>2, <3>1, Zenon
  <2>3. CASE ReadTlv(buf, i + Len(b)) = Nothing
    BY <2>1, <2>3, Zenon
  <2> QED
    BY <1>2, <2>2, <2>3, Zenon
<1>9. stops = Begins(items, c, i)
  <2> HIDE DEF next
  <2> QED
    BY <1>1, <1>2, <1>7, <1>8, RowStops
<1>10. Children(buf, tlv) = [k \in DOMAIN stops |-> ReadTlv(buf, stops[k])]
  BY Zenon DEF Children, i
<1> HIDE DEF stops
<1>11. DOMAIN stops = 1..m /\ \A k \in 1..m : stops[k] = i + c[k - 1]
  BY <1>9 DEF Begins, m
<1>12. [k \in DOMAIN stops |-> ReadTlv(buf, stops[k])] = [k \in 1..m |-> ReadTlv(buf, i + c[k - 1])]
  BY <1>11
<1> QED
  BY <1>10, <1>12, Zenon DEF ReadAt, m, i

LEMMA HoldsAll ==
  ASSUME NEW b \in Octets, NEW buf \in Octets, NEW tlv, tlv.from \in Nat,
         Sits(b, buf, tlv.from), tlv.end = tlv.from + Len(b)
  PROVE  Holds(buf, tlv, b)
<1>1. tlv.from + Len(b) \in Nat
  BY DEF Octets
<1>2. tlv.from + Len(b) <= tlv.from + Len(b)
  BY <1>1
<1> QED
  BY <1>1, <1>2, Zenon DEF Holds

LEMMA ChildrenAre ==
  ASSUME NEW b, NEW items, NEW c, Row(b, items, c), NEW buf \in Octets, NEW tlv, tlv.from \in Nat,
         Sits(b, buf, tlv.from), tlv.end = tlv.from + Len(b), Readable(buf, items, c, tlv.from)
  PROVE  Children(buf, tlv) = ReadAt(buf, items, c, tlv.from)
<1>1. b \in Octets
  BY Zenon DEF Row
<1>2. Holds(buf, tlv, b)
  BY <1>1, HoldsAll
<1> QED
  BY <1>2, ChildrenUntil

-----------------------------------------------------------------------------
(***************************************************************************)
(* Sequences one behind the other, up to each of them.                     *)
(***************************************************************************)
Joins(s, f) == f[0] = <<>> /\ \A k \in 1..Len(s) : f[k] = f[k - 1] \o s[k]

LEMMA JoinsAre ==
  ASSUME NEW T, NEW s \in Seq(Seq(T)), NEW f, Joins(s, f)
  PROVE  \A k \in 0..Len(s) : f[k] \in Seq(T)
<1> DEFINE n == Len(s)
           S == {k \in Nat : k \in 0..n => f[k] \in Seq(T)}
<1>1. n \in Nat /\ \A k \in 1..n : s[k] \in Seq(T)
  OBVIOUS
<1> HIDE DEF n
<1>2. f[0] = <<>> /\ \A k \in 1..n : f[k] = f[k - 1] \o s[k]
  BY Zenon DEF Joins, n
<1>3. 0 \in S
  <2>1. <<>> \in Seq(T)
    OBVIOUS
  <2> QED
    BY <1>2, <2>1
<1>4. ASSUME NEW k \in Nat, k \in S PROVE k + 1 \in S
  <2>1. ASSUME k + 1 \in 0..n PROVE f[k + 1] \in Seq(T)
    <3>1. k + 1 \in 1..n /\ k \in 0..n /\ (k + 1) - 1 = k
      BY <1>1, <2>1
    <3>2. f[k] \in Seq(T) /\ s[k + 1] \in Seq(T) /\ f[k + 1] = f[(k + 1) - 1] \o s[k + 1]
      BY <1>1, <1>2, <1>4, <3>1
    <3> QED
      BY <3>1, <3>2
  <2> QED
    BY <2>1
<1>5. Nat \subseteq S
  BY <1>3, <1>4, Counted
<1> QED
  BY <1>1, <1>5 DEF n

LEMMA SomeJoins ==
  ASSUME NEW T, NEW s \in Seq(Seq(T))
  PROVE  \E f : Joins(s, f)
<1> DEFINE n    == Len(s)
           step == [k \in Nat |-> [x \in Seq(T) |-> x \o s[k]]]
           none == <<>>
<1>1. PICK f : Goes(f, step, none)
  <2> HIDE DEF step, none
  <2> QED
    BY Recursion, Zenon
<1>2. f[0] = none /\ \A k \in Nat : k # 0 => f[k] = step[k][f[k - 1]]
  <2> HIDE DEF step, none
  <2>1. f = [k \in Nat |-> IF k = 0 THEN none ELSE step[k][f[k - 1]]]
    BY <1>1, Zenon DEF Goes
  <2> QED
    BY <2>1
<1>3. n \in Nat /\ (\A k \in 1..n : s[k] \in Seq(T)) /\ none \in Seq(T)
  OBVIOUS
<1> DEFINE S == {k \in Nat : k \in 0..n => f[k] \in Seq(T)}
<1> HIDE DEF n
<1>4. ASSUME NEW k \in 1..n, f[k - 1] \in Seq(T) PROVE f[k] = f[k - 1] \o s[k] /\ f[k] \in Seq(T)
  <2>1. k \in Nat /\ k # 0 /\ s[k] \in Seq(T)
    BY <1>3
  <2>2. f[k] = step[k][f[k - 1]]
    BY <1>2, <2>1, Zenon
  <2>3. step[k][f[k - 1]] = f[k - 1] \o s[k]
    BY <1>4, <2>1, Zenon
  <2>4. f[k - 1] \o s[k] \in Seq(T)
    BY <1>4, <2>1, ConcatProperties
  <2> QED
    BY <2>2, <2>3, <2>4, Zenon
<1> HIDE DEF step, none
<1>5. 0 \in S
  BY <1>2, <1>3
<1>6. ASSUME NEW k \in Nat, k \in S PROVE k + 1 \in S
  <2>1. ASSUME k + 1 \in 0..n PROVE f[k + 1] \in Seq(T)
    <3>1. k + 1 \in 1..n /\ k \in 0..n /\ (k + 1) - 1 = k
      BY <1>3, <2>1
    <3>2. f[k] \in Seq(T)
      BY <1>6, <3>1
    <3> QED
      BY <1>4, <3>1, <3>2
  <2> QED
    BY <2>1
<1>7. Nat \subseteq S
  BY <1>5, <1>6, Counted
<1>8. ASSUME NEW k \in 1..n PROVE f[k] = f[k - 1] \o s[k]
  <2>1. k - 1 \in Nat /\ k - 1 \in 0..n
    BY <1>3
  <2> QED
    BY <1>4, <1>7, <2>1
<1>9. Joins(s, f)
  BY <1>2, <1>8, Zenon DEF Joins, n, none
<1> QED
  BY <1>9, Zenon

LEMMA FlattenIs ==
  ASSUME NEW T, NEW s \in Seq(Seq(T)), NEW f, Joins(s, f)
  PROVE  FlattenSeq(s) = f[Len(s)]
<1> DEFINE n == Len(s)
           flatten[i \in 1..n] == IF i = 1 THEN s[i] ELSE flatten[i - 1] \o s[i]
<1>1. n \in Nat /\ \A k \in 1..n : s[k] \in Seq(T)
  OBVIOUS
<1>2. CASE n = 0
  <2>1. s = <<>> /\ f[0] = <<>>
    BY <1>2, EmptySeq DEF Joins
  <2> QED
    BY <1>2, <2>1 DEF FlattenSeq
<1>3. CASE n # 0
  <2>1. FlattenSeq(s) = flatten[n]
    BY <1>3, Zenon DEF FlattenSeq
  <2> HIDE DEF n
  <2>2. f[0] = <<>> /\ \A k \in 1..n : f[k] = f[k - 1] \o s[k]
    BY Zenon DEF Joins, n
  <2>3. n \in 1..n /\ 1 \in 1..n
    BY <1>1, <1>3
  <2>4. f[1] = s[1]
    <3>1. f[1] = <<>> \o s[1] /\ s[1] \in Seq(T)
      <4>1. f[1] = f[1 - 1] \o s[1]
        BY <2>2, <2>3, Zenon
      <4>2. 1 - 1 = 0
        OBVIOUS
      <4> QED
        BY <1>1, <2>2, <2>3, <4>1, <4>2, Zenon
    <3> QED
      BY <3>1
  <2>5. flatten = [i \in 1..n |-> IF i = 1 THEN s[i] ELSE flatten[i - 1] \o s[i]]
    <3> DEFINE g == [i \in 1..n |-> f[i]]
    <3>1. ASSUME NEW i \in 1..n PROVE g[i] = IF i = 1 THEN s[i] ELSE g[i - 1] \o s[i]
      <4>1. CASE i = 1
        BY <2>4, <4>1
      <4>2. CASE i # 1
        <5>1. i - 1 \in 1..n
          BY <1>1, <4>2
        <5> QED
          BY <2>2, <4>2, <5>1
      <4> QED
        BY <4>1, <4>2
    <3>2. g = [i \in 1..n |-> g[i]]
      OBVIOUS
    <3> HIDE DEF g
    <3>3. g = [i \in 1..n |-> IF i = 1 THEN s[i] ELSE g[i - 1] \o s[i]]
      BY <3>1, <3>2
    <3> QED
      BY <3>3
  <2> HIDE DEF flatten
  <2> DEFINE S == {k \in Nat : k \in 1..n => flatten[k] = f[k]}
  <2>6. 0 \in S
    OBVIOUS
  <2>7. ASSUME NEW k \in Nat, k \in S PROVE k + 1 \in S
    <3>1. ASSUME k + 1 \in 1..n PROVE flatten[k + 1] = f[k + 1]
      <4>1. CASE k = 0
        BY <2>3, <2>4, <2>5, <4>1
      <4>2. CASE k # 0
        <5>1. k \in 1..n /\ (k + 1) - 1 = k /\ k + 1 # 1
          BY <1>1, <3>1, <4>2
        <5>2. flatten[k] = f[k]
          BY <2>7, <5>1
        <5>3. flatten[k + 1] = flatten[(k + 1) - 1] \o s[k + 1]
          BY <2>5, <3>1, <5>1, Zenon
        <5>4. f[k + 1] = f[(k + 1) - 1] \o s[k + 1]
          BY <2>2, <3>1, Zenon
        <5> QED
          BY <5>1, <5>2, <5>3, <5>4, Zenon
      <4> QED
        BY <4>1, <4>2
    <3> QED
      BY <3>1
  <2>8. Nat \subseteq S
    BY <2>6, <2>7, Counted
  <2>9. flatten[n] = f[n]
    BY <1>1, <2>3, <2>8
  <2> QED
    BY <2>1, <2>9, Zenon DEF n
<1> QED
  BY <1>2, <1>3

-----------------------------------------------------------------------------
(***************************************************************************)
(* The visits of a node: the node and those of its children.               *)
(***************************************************************************)
Below(buf, left, kids) == [k \in DOMAIN kids |-> Visits(buf)[left][kids[k]]]

KidsOf(buf, tlv) == IF Constructed(tlv.tag) THEN Children(buf, tlv) ELSE <<>>

LEMMA VisitIs ==
  ASSUME NEW buf, NEW left \in 1..(MaxDepth + 1), NEW tlv \in Tlvs
  PROVE  Visits(buf)[left][tlv] = <<tlv>> \o FlattenSeq(Below(buf, left - 1, KidsOf(buf, tlv)))
<1> DEFINE Level(n, below) ==
             [t \in Tlvs |->
                LET kids == IF Constructed(t.tag) THEN Children(buf, t) ELSE <<>>
                IN IF n = 0 THEN <<>> ELSE <<t>> \o FlattenSeq([k \in DOMAIN kids |-> below[kids[k]]])]
           visits[n \in 0..(MaxDepth + 1)] == Level(n, visits[n - 1])
           Part(g, n) == g = [k \in 0..n |-> Level(k, g[k - 1])]
<1>1. ASSUME NEW x, NEW y PROVE Level(0, x) = Level(0, y)
  <2>1. ASSUME NEW x1 PROVE Level(0, x1) = [t \in Tlvs |-> <<>>]
    OBVIOUS
  <2> HIDE DEF Level
  <2> QED
    BY <2>1, Zenon
<1>2. Visits(buf) = visits
  BY Zenon DEF Visits
<1>3. visits[left][tlv] = IF left = 0 THEN <<>> ELSE <<tlv>> \o FlattenSeq([k \in DOMAIN KidsOf(buf, tlv) |-> visits[left - 1][KidsOf(buf, tlv)[k]]])
  <2> HIDE DEF Level
  <2>1. \A n \in Nat : \E g : Part(g, n)
    <3> DEFINE S == {n \in Nat : \E g : Part(g, n)}
    <3>1. 0 \in S
      <4> DEFINE g == [k \in 0..0 |-> Level(0, 0)]
      <4>1. ASSUME NEW k \in 0..0 PROVE g[k] = Level(k, g[k - 1])
        <5>1. k = 0
          OBVIOUS
        <5>2. g[k] = Level(0, 0)
          OBVIOUS
        <5> HIDE DEF g
        <5> QED
          BY <1>1, <5>1, <5>2, Zenon
      <4>2. g = [k \in 0..0 |-> g[k]]
        OBVIOUS
      <4> HIDE DEF g
      <4>3. Part(g, 0)
        BY <4>1, <4>2
      <4> QED
        BY <4>3
    <3>2. ASSUME NEW n \in Nat, n \in S PROVE n + 1 \in S
      <4>1. PICK g : Part(g, n)
        BY <3>2
      <4> DEFINE h == [k \in 0..(n + 1) |-> IF k <= n THEN g[k] ELSE Level(k, g[n])]
      <4>2. \A k \in 0..n : g[k] = Level(k, g[k - 1]) /\ h[k] = g[k]
        BY <4>1
      <4>3. h[n + 1] = Level(n + 1, g[n])
        OBVIOUS
      <4>4. h = [k \in 0..(n + 1) |-> h[k]]
        OBVIOUS
      <4> HIDE DEF h
      <4>5. ASSUME NEW k \in 0..(n + 1) PROVE h[k] = Level(k, h[k - 1])
        <5>1. CASE k = n + 1
          <6>1. k - 1 = n /\ n \in 0..n
            BY <5>1
          <6> QED
            BY <4>2, <4>3, <5>1, <6>1, Zenon
        <5>2. CASE k # n + 1 /\ k # 0
          <6>1. k \in 0..n /\ k - 1 \in 0..n
            BY <5>2
          <6> QED
            BY <4>2, <6>1, Zenon
        <5>3. CASE k = 0
          <6>1. 0 \in 0..n
            OBVIOUS
          <6> QED
            BY <1>1, <4>2, <5>3, <6>1, Zenon
        <5> QED
          BY <5>1, <5>2, <5>3
      <4>6. Part(h, n + 1)
        BY <4>4, <4>5
      <4> HIDE DEF Part
      <4> QED
        BY <4>6
    <3>3. Nat \subseteq S
      BY <3>1, <3>2, Counted
    <3> QED
      BY <3>3
  <2>2. visits = [n \in 0..(MaxDepth + 1) |-> Level(n, visits[n - 1])]
    <3>1. MaxDepth + 1 \in Nat
      BY DEF MaxDepth
    <3>2. \E g : g = [k \in 0..(MaxDepth + 1) |-> Level(k, g[k - 1])]
      BY <2>1, <3>1
    <3> QED
      BY <3>2
  <2> HIDE DEF visits
  <2>3. visits[left] = Level(left, visits[left - 1])
    <3>1. left \in 0..(MaxDepth + 1)
      BY DEF MaxDepth
    <3> QED
      BY <2>2, <3>1, Zenon
  <2> DEFINE w == visits[left - 1]
  <2>4. visits[left] = Level(left, w)
    BY <2>3
  <2> HIDE DEF w
  <2>5. Level(left, w)[tlv] = IF left = 0 THEN <<>> ELSE <<tlv>> \o FlattenSeq([k \in DOMAIN KidsOf(buf, tlv) |-> w[KidsOf(buf, tlv)[k]]])
    BY Zenon DEF Level, KidsOf
  <2> QED
    BY <2>4, <2>5, Zenon DEF w
<1> HIDE DEF visits
<1>4. left # 0
  OBVIOUS
<1> QED
  BY <1>2, <1>3, <1>4, Zenon DEF Below

-----------------------------------------------------------------------------
(***************************************************************************)
(* What a visitor sees of the TLVs that are visited.                       *)
(***************************************************************************)
Shown(buf, t) == [tag |-> t.tag, content |-> Content(buf, t)]

View(buf, s) == [k \in DOMAIN s |-> Shown(buf, s[k])]

Views(buf, s) == [k \in DOMAIN s |-> View(buf, s[k])]

LEMMA ViewIs ==
  ASSUME NEW buf, NEW s \in Seq(Tlvs)
  PROVE  /\ View(buf, s) \in Seq({Shown(buf, t) : t \in Tlvs})
         /\ Len(View(buf, s)) = Len(s)
         /\ \A k \in 1..Len(s) : View(buf, s)[k] = Shown(buf, s[k])
<1> DEFINE n == Len(s)
<1>1. n \in Nat /\ DOMAIN s = 1..n /\ \A k \in 1..n : s[k] \in Tlvs
  OBVIOUS
<1>2. View(buf, s) = [k \in 1..n |-> Shown(buf, s[k])]
  BY <1>1 DEF View
<1> HIDE DEF n
<1>3. \A k \in 1..n : Shown(buf, s[k]) \in {Shown(buf, t) : t \in Tlvs}
  BY <1>1
<1>4. [k \in 1..n |-> Shown(buf, s[k])] \in Seq({Shown(buf, t) : t \in Tlvs})
  BY <1>1, <1>3
<1>5. Len([k \in 1..n |-> Shown(buf, s[k])]) = n
  BY <1>1
<1> QED
  BY <1>2, <1>4, <1>5 DEF n

\* One sequence and behind it another.
IsTwo(v, w, u) ==
  /\ Len(u) = Len(v) + Len(w) /\ \A k \in 1..Len(v) : u[k] = v[k]
  /\ \A k \in 1..Len(w) : u[Len(v) + k] = w[k]

LEMMA TwoAre ==
  ASSUME NEW S, NEW v \in Seq(S), NEW w \in Seq(S), NEW u \in Seq(S), IsTwo(v, w, u)
  PROVE  v \o w = u
BY SMTT(30) DEF IsTwo

LEMMA ViewJoins ==
  ASSUME NEW buf, NEW s \in Seq(Tlvs), NEW t \in Seq(Tlvs)
  PROVE  View(buf, s \o t) = View(buf, s) \o View(buf, t)
<1> DEFINE S == {Shown(buf, x) : x \in Tlvs}
           v == View(buf, s)
           w == View(buf, t)
           u == View(buf, s \o t)
           m == Len(s)
           n == Len(t)
<1>1. /\ v \in Seq(S) /\ Len(v) = m /\ \A k \in 1..m : v[k] = Shown(buf, s[k])
      /\ w \in Seq(S) /\ Len(w) = n /\ \A k \in 1..n : w[k] = Shown(buf, t[k])
  BY ViewIs
<1>2. /\ s \o t \in Seq(Tlvs) /\ Len(s \o t) = m + n /\ m \in Nat /\ n \in Nat
      /\ \A k \in 1..m : (s \o t)[k] = s[k]
      /\ \A k \in 1..n : (s \o t)[m + k] = t[k]
  BY ConcatIs
<1>3. u \in Seq(S) /\ Len(u) = m + n /\ \A k \in 1..(m + n) : u[k] = Shown(buf, (s \o t)[k])
  BY <1>2, ViewIs, ZenonT(30)
<1> HIDE DEF S, v, w, u, m, n
<1>4. ASSUME NEW k \in 1..m PROVE u[k] = v[k]
  <2>1. k \in 1..(m + n)
    BY <1>2
  <2>2. v[k] = Shown(buf, s[k])
    BY <1>1, Zenon
  <2>3. (s \o t)[k] = s[k]
    BY <1>2, Zenon
  <2>4. u[k] = Shown(buf, (s \o t)[k])
    BY <1>3, <2>1, Zenon
  <2> QED
    BY <2>2, <2>3, <2>4, Zenon
<1>5. ASSUME NEW k \in 1..n PROVE u[m + k] = w[k]
  <2>1. m + k \in 1..(m + n)
    BY <1>2
  <2> QED
    BY <1>1, <1>2, <1>3, <2>1, SMTT(30)
<1>6. v \o w = u
  <2>1. Len(v) = m /\ Len(w) = n /\ v \in Seq(S) /\ w \in Seq(S) /\ u \in Seq(S) /\ Len(u) = m + n
    BY <1>1, <1>3, Zenon
  <2>2. Len(u) = Len(v) + Len(w)
    BY <2>1, Zenon
  <2>3. ASSUME NEW k \in 1..Len(v) PROVE u[k] = v[k]
    BY <1>4, <2>1, Zenon
  <2>4. ASSUME NEW k \in 1..Len(w) PROVE u[Len(v) + k] = w[k]
    BY <1>5, <2>1, Zenon
  <2>5. IsTwo(v, w, u)
    BY <2>2, <2>3, <2>4, Zenon DEF IsTwo
  <2> QED
    BY <2>1, <2>5, TwoAre, Zenon
<1> QED
  BY <1>6 DEF u, v, w

LEMMA ViewOne ==
  ASSUME NEW buf, NEW t \in Tlvs
  PROVE  View(buf, <<t>>) = <<Shown(buf, t)>> /\ <<t>> \in Seq(Tlvs)
BY DEF View

LEMMA ViewFlattens ==
  ASSUME NEW buf, NEW s \in Seq(Seq(Tlvs)), NEW g, Joins(Views(buf, s), g)
  PROVE  FlattenSeq(s) \in Seq(Tlvs) /\ View(buf, FlattenSeq(s)) = g[Len(s)]
<1> DEFINE n == Len(s)
<1>1. n \in Nat /\ DOMAIN s = 1..n /\ \A k \in 1..n : s[k] \in Seq(Tlvs)
  OBVIOUS
<1>2. PICK f : Joins(s, f)
  BY SomeJoins
<1>3. FlattenSeq(s) = f[n] /\ \A k \in 0..n : f[k] \in Seq(Tlvs)
  BY <1>2, FlattenIs, JoinsAre
<1>4. g[0] = <<>> /\ \A k \in 1..n : g[k] = g[k - 1] \o View(buf, s[k])
  <2> DEFINE v == Views(buf, s)
  <2>1. v = [k \in 1..n |-> View(buf, s[k])]
    BY <1>1 DEF Views
  <2> HIDE DEF n
  <2>2. Len(v) = n
    BY <1>1, <2>1
  <2>3. g[0] = <<>> /\ \A k \in 1..n : g[k] = g[k - 1] \o v[k]
    BY <2>2, Zenon DEF Joins
  <2> HIDE DEF v
  <2>4. \A k \in 1..n : v[k] = View(buf, s[k])
    BY <2>1
  <2> QED
    BY <2>3, <2>4, Zenon
<1>5. f[0] = <<>> /\ \A k \in 1..n : f[k] = f[k - 1] \o s[k]
  BY <1>2, Zenon DEF Joins
<1> HIDE DEF n
<1> DEFINE S == {k \in Nat : k \in 0..n => View(buf, f[k]) = g[k]}
<1>6. 0 \in S
  <2>1. View(buf, <<>>) = <<>>
    BY DEF View
  <2> QED
    BY <1>4, <1>5, <2>1
<1>7. ASSUME NEW k \in Nat, k \in S PROVE k + 1 \in S
  <2>1. ASSUME k + 1 \in 0..n PROVE View(buf, f[k + 1]) = g[k + 1]
    <3>1. k + 1 \in 1..n /\ k \in 0..n /\ (k + 1) - 1 = k
      BY <1>1, <2>1
    <3>2. View(buf, f[k]) = g[k] /\ f[k] \in Seq(Tlvs) /\ s[k + 1] \in Seq(Tlvs)
      BY <1>1, <1>3, <1>7, <3>1
    <3>3. f[k + 1] = f[(k + 1) - 1] \o s[k + 1] /\ g[k + 1] = g[(k + 1) - 1] \o View(buf, s[k + 1])
      BY <1>4, <1>5, <3>1, Zenon
    <3>4. View(buf, f[k] \o s[k + 1]) = View(buf, f[k]) \o View(buf, s[k + 1])
      BY <3>2, ViewJoins
    <3> QED
      BY <3>1, <3>2, <3>3, <3>4, Zenon
  <2> QED
    BY <2>1
<1>8. Nat \subseteq S
  BY <1>6, <1>7, Counted
<1>9. View(buf, f[n]) = g[n] /\ f[n] \in Seq(Tlvs)
  <2>1. n \in 0..n
    BY <1>1
  <2> QED
    BY <1>1, <1>3, <1>8, <2>1
<1> QED
  BY <1>3, <1>9, Zenon DEF n

-----------------------------------------------------------------------------
(***************************************************************************)
(* Pieces of DER: a TLV that is visited as its nodes, with n levels of     *)
(* them at most, and a row of such TLVs.                                   *)
(***************************************************************************)
Nodes  == [tag : Nat, content : Octets]
Pieces == [bytes : Octets, nodes : Seq(Nodes)]

IsVisited(buf, i, p, n) ==
  LET t == ReadTlv(buf, i)
  IN /\ t \in Tlvs /\ t # Nothing /\ t.end = i + Len(p.bytes)
     /\ \A left \in n..(MaxDepth + 1) :
          Visits(buf)[left][t] \in Seq(Tlvs) /\ View(buf, Visits(buf)[left][t]) = p.nodes

IsTlv(b) == \E tag \in Nat, content \in Octets : b = TLV(tag, content) /\ Len(content) <= Max3

Reads(p, n) ==
  /\ p \in Pieces /\ p.bytes # <<>> /\ IsTlv(p.bytes)
  /\ \A buf \in Octets, i \in Nat : Sits(p.bytes, buf, i) => IsVisited(buf, i, p, n)

BytesOf(parts) == [k \in 1..Len(parts) |-> parts[k].bytes]
NodesOf(parts) == [k \in 1..Len(parts) |-> parts[k].nodes]

IsForest(p, parts, n) ==
  /\ p \in Pieces /\ parts \in Seq(Pieces) /\ IsRow(p.bytes, BytesOf(parts))
  /\ \A k \in 1..Len(parts) : Reads(parts[k], n)
  /\ \E g : Joins(NodesOf(parts), g) /\ g[Len(parts)] = p.nodes

Forest(p, n) == \E parts : IsForest(p, parts, n)

LEMMA ReadsMore ==
  ASSUME NEW p, NEW n \in Nat, NEW m \in Nat, n <= m, Reads(p, n)
  PROVE  Reads(p, m)
<1>1. m..(MaxDepth + 1) \subseteq n..(MaxDepth + 1)
  BY DEF MaxDepth
<1>2. ASSUME NEW buf, NEW i, IsVisited(buf, i, p, n) PROVE IsVisited(buf, i, p, m)
  BY <1>1, <1>2, Zenon DEF IsVisited
<1> QED
  BY <1>2, Zenon DEF Reads

LEMMA ForestMore ==
  ASSUME NEW p, NEW n \in Nat, NEW m \in Nat, n <= m, Forest(p, n)
  PROVE  Forest(p, m)
<1>1. PICK parts : IsForest(p, parts, n)
  BY Zenon DEF Forest
<1>2. \A k \in 1..Len(parts) : Reads(parts[k], m)
  BY <1>1, ReadsMore, Zenon DEF IsForest
<1>3. IsForest(p, parts, m)
  BY <1>1, <1>2, Zenon DEF IsForest
<1> QED
  BY <1>3, Zenon DEF Forest

\* The children of a TLV that holds a forest are visited as its nodes.
LEMMA ForestIsRead ==
  ASSUME NEW p, NEW n \in Nat, Forest(p, n), NEW buf \in Octets, NEW tlv, tlv.from \in Nat,
         Holds(buf, tlv, p.bytes), NEW left \in n..(MaxDepth + 1),
         NEW s, s = Below(buf, left, Children(buf, tlv))
  PROVE  FlattenSeq(s) \in Seq(Tlvs) /\ View(buf, FlattenSeq(s)) = p.nodes
<1>1. PICK parts : IsForest(p, parts, n)
  BY Zenon DEF Forest
<1> DEFINE items == BytesOf(parts)
           m     == Len(parts)
           i     == tlv.from
           V(k)  == Visits(buf)[left][ReadTlv(buf, i + items[k])]
<1>2. p \in Pieces /\ parts \in Seq(Pieces) /\ IsRow(p.bytes, items) /\ m \in Nat
  BY <1>1 DEF IsForest
<1>3. PICK c : Row(p.bytes, items, c)
  BY <1>2, Zenon DEF IsRow
<1>4. PICK g : Joins(NodesOf(parts), g) /\ g[m] = p.nodes
  BY <1>1, Zenon DEF IsForest
<1>5. Len(items) = m /\ \A k \in 1..m : items[k] = parts[k].bytes
  <2> HIDE DEF m
  <2> QED
    BY <1>2 DEF BytesOf, m
<1>6. c \in [0..m -> Nat] /\ \A k \in 1..m : c[k] = c[k - 1] + Len(items[k]) /\ Sits(items[k], p.bytes, c[k - 1])
  BY <1>3, <1>5 DEF Row
<1>7. p.bytes \in Octets /\ i + Len(p.bytes) <= Len(buf) /\ Shows(p.bytes, buf, i) /\ Len(p.bytes) \in Nat /\ Len(buf) \in Nat
  BY <1>2 DEF Pieces, Holds, Sits, Octets
<1> HIDE DEF items, m, i
<1>8. ASSUME NEW k \in 1..m
      PROVE  /\ Sits(items[k], buf, i + c[k - 1]) /\ items[k] # <<>>
             /\ i + c[k - 1] \in Nat /\ IsVisited(buf, i + c[k - 1], parts[k], n)
             /\ (i + c[k - 1]) + Len(items[k]) = i + c[k]
  <2>1. Reads(parts[k], n) /\ items[k] = parts[k].bytes
    BY <1>1, <1>5, Zenon DEF IsForest, m
  <2>2. items[k] \in Octets /\ items[k] # <<>>
    BY <2>1 DEF Reads, Pieces
  <2>3. k - 1 \in 0..m /\ k \in 0..m
    BY <1>2
  <2>4. c[k - 1] \in Nat /\ c[k] = c[k - 1] + Len(items[k]) /\ Sits(items[k], p.bytes, c[k - 1]) /\ Len(items[k]) \in Nat /\ i \in Nat
    <3>1. Len(items[k]) \in Nat
      BY <2>2 DEF Octets
    <3> QED
      BY <1>6, <2>3, <3>1 DEF i
  <2>5. Shows(items[k], buf, i + c[k - 1])
    BY <1>7, <2>2, <2>4, SitsWithin DEF i
  <2>6. c[k - 1] + Len(items[k]) <= Len(p.bytes)
    BY <2>4, Zenon DEF Sits
  <2> DEFINE x == c[k - 1]  y == Len(items[k])  z == Len(p.bytes)  w == Len(buf)
  <2>7. (i + x) + y <= w /\ i + x \in Nat /\ (i + x) + y = i + c[k]
    <3>1. x \in Nat /\ y \in Nat /\ z \in Nat /\ w \in Nat /\ i \in Nat /\ x + y <= z /\ i + z <= w /\ c[k] = x + y
      BY <1>7, <2>4, <2>6, Zenon
    <3> HIDE DEF x, y, z, w
    <3> QED
      BY ONLY <3>1
  <2>8. Sits(items[k], buf, i + c[k - 1])
    BY <2>5, <2>7, Zenon DEF Sits
  <2>9. IsVisited(buf, i + c[k - 1], parts[k], n)
    BY <2>1, <2>7, <2>8, Zenon DEF Reads
  <2> QED
    BY <2>2, <2>7, <2>8, <2>9, Zenon
<1>9. Readable(buf, items, c, i)
  <2>1. ASSUME NEW k \in 1..m PROVE items[k] # <<>> /\ ReadTlv(buf, i + c[k - 1]) # Nothing /\ ReadTlv(buf, i + c[k - 1]).end = i + c[k]
    <3>1. ReadTlv(buf, i + c[k - 1]) # Nothing /\ ReadTlv(buf, i + c[k - 1]).end = (i + c[k - 1]) + Len(parts[k].bytes)
      BY <1>8, Zenon DEF IsVisited
    <3> QED
      BY <1>5, <1>8, <3>1, Zenon
  <2> QED
    BY <1>5, <2>1, Zenon DEF Readable
<1>10. Children(buf, tlv) = ReadAt(buf, items, c, i)
  <2>1. Readable(buf, items, c, tlv.from)
    BY <1>9, Zenon DEF i
  <2> DEFINE b == p.bytes
  <2>2. Row(b, items, c) /\ Holds(buf, tlv, b)
    BY <1>3, Zenon
  <2> HIDE DEF b
  <2>3. Children(buf, tlv) = ReadAt(buf, items, c, tlv.from)
    BY <2>1, <2>2, ChildrenUntil
  <2> QED
    BY <2>3, Zenon DEF i
<1>11. s = [k \in 1..m |-> Visits(buf)[left][ReadTlv(buf, i + c[k - 1])]]
  <2> DEFINE kids == ReadAt(buf, items, c, i)
  <2>1. kids = [k \in 1..m |-> ReadTlv(buf, i + c[k - 1])]
    BY <1>5, Zenon DEF ReadAt
  <2> HIDE DEF kids
  <2>2. s = [k \in DOMAIN kids |-> Visits(buf)[left][kids[k]]]
    BY <1>10, Zenon DEF Below, kids
  <2>3. DOMAIN kids = 1..m /\ \A k \in 1..m : kids[k] = ReadTlv(buf, i + c[k - 1])
    BY <2>1
  <2> QED
    BY <2>2, <2>3
<1>12. ASSUME NEW k \in 1..m
       PROVE  Visits(buf)[left][ReadTlv(buf, i + c[k - 1])] \in Seq(Tlvs)
              /\ View(buf, Visits(buf)[left][ReadTlv(buf, i + c[k - 1])]) = parts[k].nodes
  BY <1>8, Zenon DEF IsVisited
<1> DEFINE e(k) == Visits(buf)[left][ReadTlv(buf, i + c[k - 1])]
<1>13. s = [k \in 1..m |-> e(k)] /\ \A k \in 1..m : e(k) \in Seq(Tlvs) /\ View(buf, e(k)) = parts[k].nodes
  BY <1>11, <1>12, Zenon
<1> HIDE DEF e
<1>14. s \in Seq(Seq(Tlvs)) /\ Len(s) = m /\ DOMAIN s = 1..m /\ \A k \in 1..m : s[k] = e(k)
  BY <1>2, <1>13
<1>15. Views(buf, s) = NodesOf(parts)
  <2>1. Views(buf, s) = [k \in 1..m |-> View(buf, s[k])]
    BY <1>14, Zenon DEF Views
  <2>2. NodesOf(parts) = [k \in 1..m |-> parts[k].nodes]
    BY Zenon DEF NodesOf, m
  <2>3. \A k \in 1..m : View(buf, s[k]) = parts[k].nodes
    BY <1>13, <1>14, Zenon
  <2> QED
    BY <2>1, <2>2, <2>3
<1>16. Joins(Views(buf, s), g) /\ g[m] = p.nodes
  BY <1>4, <1>15, Zenon DEF m
<1> QED
  BY <1>14, <1>16, ViewFlattens, Zenon

-----------------------------------------------------------------------------
(***************************************************************************)
(* A TLV at offset i is read, t being where it is.                         *)
(***************************************************************************)
IsBeheld(buf, i, tag, content, t) ==
  /\ ReadTlv(buf, i) = t /\ t \in Tlvs /\ t # Nothing /\ t.tag = tag
  /\ t.from \in Nat /\ t.from <= t.end /\ t.end = i + Len(TLV(tag, content)) /\ t.end <= Len(buf)
  /\ t.end = t.from + Len(content)
  /\ Content(buf, t) = content /\ Sits(content, buf, t.from)

LEMMA TlvIsBeheld ==
  ASSUME NEW tag \in Nat, NEW content \in Octets, Len(content) <= Max3,
         NEW buf \in Octets, NEW i \in Nat, Sits(TLV(tag, content), buf, i)
  PROVE  IsBeheld(buf, i, tag, content, Behold(tag, content, i))
<1> DEFINE t == Behold(tag, content, i)
<1> HIDE DEF t
<1>1. t = Behold(tag, content, i)
  BY DEF t
<1> QED
  BY <1>1, TlvIsRead DEF IsBeheld

\* A node that holds a forest is visited as itself, and then as the forest.
LEMMA NodeIsRead ==
  ASSUME NEW p, NEW n \in Nat, Forest(p, n), NEW buf \in Octets,
         NEW t \in Tlvs, t.from \in Nat, Constructed(t.tag), Holds(buf, t, p.bytes),
         NEW left \in (n + 1)..(MaxDepth + 1)
  PROVE  /\ Visits(buf)[left][t] \in Seq(Tlvs)
         /\ View(buf, Visits(buf)[left][t]) = <<Shown(buf, t)>> \o p.nodes
<1>1. left \in 1..(MaxDepth + 1) /\ left - 1 \in n..(MaxDepth + 1)
  BY DEF MaxDepth
<1> DEFINE below == left - 1
           s == Below(buf, below, Children(buf, t))
           f == FlattenSeq(s)
<1>2. Visits(buf)[left][t] = <<t>> \o f
  <2>1. KidsOf(buf, t) = Children(buf, t)
    BY Zenon DEF KidsOf
  <2> QED
    BY <1>1, <2>1, VisitIs, Zenon
<1>3. f \in Seq(Tlvs) /\ View(buf, f) = p.nodes
  <2>1. below \in n..(MaxDepth + 1)
    BY <1>1
  <2> HIDE DEF below, s
  <2>2. s = Below(buf, below, Children(buf, t))
    BY DEF s
  <2> QED
    BY <2>1, <2>2, ForestIsRead
<1> HIDE DEF f
<1>4. View(buf, <<t>>) = <<Shown(buf, t)>> /\ <<t>> \in Seq(Tlvs)
  BY ViewOne, Zenon
<1>5. <<t>> \o f \in Seq(Tlvs)
  BY <1>3, <1>4, ConcatProperties
<1>6. View(buf, <<t>> \o f) = View(buf, <<t>>) \o View(buf, f)
  BY <1>3, <1>4, ViewJoins, Zenon
<1> QED
  BY <1>2, <1>3, <1>4, <1>5, <1>6, Zenon

LEMMA NodeReads ==
  ASSUME NEW p, NEW n \in Nat, Forest(p, n), NEW tag \in Nat, Constructed(tag), Len(p.bytes) <= Max3
  PROVE  Reads(Node(tag, p), n + 1)
<1> DEFINE q == Node(tag, p)
           b == TLV(tag, p.bytes)
           head == [tag |-> tag, content |-> p.bytes]
<1>1. p \in Pieces /\ p.bytes \in Octets /\ p.nodes \in Seq(Nodes)
  BY DEF Forest, IsForest, Pieces
<1>2. q.bytes = b /\ q.nodes = <<head>> \o p.nodes /\ q = [bytes |-> b, nodes |-> <<head>> \o p.nodes]
  BY DEF Node, Piece
<1>3. b \in Octets /\ b # <<>>
  BY <1>1, TlvIs, Zenon
<1>4. head \in Nodes
  BY <1>1 DEF Nodes
<1> HIDE DEF q, b, head
<1>5. q \in Pieces
  <2>1. <<head>> \o p.nodes \in Seq(Nodes)
    BY <1>1, <1>4
  <2> QED
    BY <1>2, <1>3, <2>1 DEF Pieces
<1>6. ASSUME NEW buf \in Octets, NEW i \in Nat, Sits(b, buf, i) PROVE IsVisited(buf, i, q, n + 1)
  <2> DEFINE content == p.bytes
             t == Behold(tag, content, i)
  <2>1. content \in Octets /\ Len(content) <= Max3 /\ Sits(TLV(tag, content), buf, i)
    BY <1>1, <1>6, Zenon DEF b
  <2> HIDE DEF content, t
  <2>2. /\ ReadTlv(buf, i) = t /\ t \in Tlvs /\ t # Nothing /\ t.tag = tag
        /\ t.from \in Nat /\ t.end = i + Len(TLV(tag, content)) /\ t.end = t.from + Len(content)
        /\ Content(buf, t) = content /\ Sits(content, buf, t.from)
    <3>1. IsBeheld(buf, i, tag, content, t)
      BY <2>1, TlvIsBeheld, Zenon DEF t
    <3> QED
      BY <3>1, Zenon DEF IsBeheld
  <2>3. ASSUME NEW left \in (n + 1)..(MaxDepth + 1)
        PROVE  Visits(buf)[left][t] \in Seq(Tlvs) /\ View(buf, Visits(buf)[left][t]) = q.nodes
    <3>1. Shown(buf, t) = head
      BY <2>2, Zenon DEF Shown, head, content
    <3>2. Holds(buf, t, p.bytes)
      <4>1. Holds(buf, t, content)
        BY <2>1, <2>2, HoldsAll
      <4> QED
        BY <4>1, Zenon DEF content
    <3>3. Constructed(t.tag)
      BY <2>2, Zenon
    <3> QED
      BY <1>2, <2>2, <3>1, <3>2, <3>3, NodeIsRead, Zenon
  <2>4. t.end = i + Len(q.bytes)
    BY <1>2, <2>2, Zenon DEF b, content
  <2> QED
    BY <2>2, <2>3, <2>4, Zenon DEF IsVisited
<1>7. Reads(q, n + 1)
  <2>1. IsTlv(q.bytes)
    BY <1>1, <1>2, Zenon DEF IsTlv, b
  <2> QED
    BY <1>2, <1>3, <1>5, <1>6, <2>1, Zenon DEF Reads
<1> QED
  BY <1>7, Zenon DEF q

LEMMA PrimitiveReads ==
  ASSUME NEW tag \in Nat, ~Constructed(tag), NEW content \in Octets, Len(content) <= Max3
  PROVE  Reads(Primitive(tag, content), 1)
<1> DEFINE q == Primitive(tag, content)
           b == TLV(tag, content)
           head == [tag |-> tag, content |-> content]
<1>1. q.bytes = b /\ q.nodes = <<head>> /\ q = [bytes |-> b, nodes |-> <<head>>]
  BY DEF Primitive, Piece
<1>2. b \in Octets /\ b # <<>>
  BY TlvIs, Zenon
<1>3. head \in Nodes
  BY DEF Nodes
<1> HIDE DEF q, b, head
<1>4. q \in Pieces
  BY <1>1, <1>2, <1>3 DEF Pieces
<1>5. ASSUME NEW buf \in Octets, NEW i \in Nat, Sits(b, buf, i) PROVE IsVisited(buf, i, q, 1)
  <2> DEFINE t == Behold(tag, content, i)
  <2> HIDE DEF t
  <2>1. /\ ReadTlv(buf, i) = t /\ t \in Tlvs /\ t # Nothing /\ t.tag = tag
        /\ t.end = i + Len(TLV(tag, content)) /\ Content(buf, t) = content
    <3>1. IsBeheld(buf, i, tag, content, t)
      <4>1. Sits(TLV(tag, content), buf, i)
        BY <1>5, Zenon DEF b
      <4> QED
        BY <4>1, TlvIsBeheld, Zenon DEF t
    <3> QED
      BY <3>1, Zenon DEF IsBeheld
  <2>2. ASSUME NEW left \in 1..(MaxDepth + 1)
        PROVE  Visits(buf)[left][t] \in Seq(Tlvs) /\ View(buf, Visits(buf)[left][t]) = q.nodes
    <3>1. Visits(buf)[left][t] = <<t>> \o FlattenSeq(Below(buf, left - 1, KidsOf(buf, t)))
      BY <2>1, VisitIs, Zenon
    <3>2. FlattenSeq(Below(buf, left - 1, KidsOf(buf, t))) = <<>>
      <4>1. KidsOf(buf, t) = <<>>
        BY <2>1, Zenon DEF KidsOf
      <4>2. Below(buf, left - 1, <<>>) = <<>>
        BY DEF Below
      <4>3. FlattenSeq(<<>>) = <<>>
        BY DEF FlattenSeq
      <4> QED
        BY <4>1, <4>2, <4>3, Zenon
    <3>3. View(buf, <<t>>) = <<Shown(buf, t)>> /\ <<t>> \in Seq(Tlvs)
      BY <2>1, ViewOne, Zenon
    <3>4. Shown(buf, t) = head
      BY <2>1, Zenon DEF Shown, head
    <3>5. <<t>> \o <<>> = <<t>>
      BY <3>3
    <3> QED
      BY <1>1, <3>1, <3>2, <3>3, <3>4, <3>5, Zenon
  <2>3. t.end = i + Len(q.bytes)
    BY <1>1, <2>1, Zenon DEF b
  <2> QED
    BY <2>1, <2>2, <2>3, Zenon DEF IsVisited
<1>6. Reads(q, 1)
  <2>1. IsTlv(q.bytes)
    BY <1>1, Zenon DEF IsTlv, b
  <2> QED
    BY <1>1, <1>2, <1>4, <1>5, <2>1, Zenon DEF Reads
<1> QED
  BY <1>6, Zenon DEF q

-----------------------------------------------------------------------------
(***************************************************************************)
(* What a TLV holds is no longer than the TLV.                             *)
(***************************************************************************)
LEMMA LengthOctetsGiven ==
  ASSUME NEW n \in Nat
  PROVE  LengthOctets(n) \in Octets
<1>1. N2(n) \in Octets /\ N3(n) \in Octets
  BY N2Is, N3Is
<1>2. <<n>> \in Octets /\ <<129, n>> \in Octets /\ <<130>> \in Octets /\ <<131>> \in Octets
  BY SMT DEF Octets
<1>3. <<130>> \o N2(n) \in Octets /\ <<131>> \o N3(n) \in Octets
  BY <1>1, <1>2, OctetsJoin, Zenon
<1> QED
  BY <1>2, <1>3, SMT DEF LengthOctets

LEMMA TlvHolds ==
  ASSUME NEW tag \in Nat, NEW content \in Octets
  PROVE  TLV(tag, content) \in Octets /\ Len(content) <= Len(TLV(tag, content))
<1> DEFINE l == LengthOctets(Len(content))
           h == <<tag>> \o l
           b == h \o content
<1>1. Len(content) \in Nat
  BY DEF Octets
<1>2. l \in Octets /\ <<tag>> \in Octets
  BY <1>1, LengthOctetsGiven, OneOctet, Zenon
<1> HIDE DEF l
<1>3. h \in Octets
  BY <1>2, OctetsJoin, Zenon
<1>4. TLV(tag, content) = b
  BY Zenon DEF TLV, l
<1> HIDE DEF h
<1>5. b \in Octets /\ Len(b) = Len(h) + Len(content) /\ Len(h) \in Nat /\ Len(content) \in Nat
  BY <1>3, OctetsJoin, Zenon
<1> HIDE DEF b
<1>6. Len(content) <= Len(b)
  BY <1>5
<1> QED
  BY <1>4, <1>5, <1>6, Zenon
-----------------------------------------------------------------------------
(***************************************************************************)
(* A forest that grows by one more TLV.                                    *)
(***************************************************************************)
LEMMA ForestEmpty ==
  ASSUME NEW n
  PROVE  Forest(Empty, n)
<1> DEFINE parts == <<>>
           g == [k \in {0} |-> <<>>]
<1>1. Empty \in Pieces /\ Empty.bytes = <<>> /\ Empty.nodes = <<>>
  BY DEF Empty, Piece, Pieces, Octets
<1>2. parts \in Seq(Pieces) /\ BytesOf(parts) = <<>> /\ NodesOf(parts) = <<>> /\ Len(parts) = 0
  BY DEF BytesOf, NodesOf
<1>3. Joins(<<>>, g) /\ g[0] = <<>>
  BY DEF Joins
<1> HIDE DEF parts, g
<1>4. \A k \in 1..Len(parts) : Reads(parts[k], n)
  BY <1>2
<1>5. IsForest(Empty, parts, n)
  BY <1>1, <1>2, <1>3, <1>4, RowEmpty, Zenon DEF IsForest
<1> QED
  BY <1>5, Zenon DEF Forest

LEMMA ForestGrows ==
  ASSUME NEW p, NEW q, NEW n, Forest(p, n), Reads(q, n)
  PROVE  Forest(Beside(p, q), n)
<1>1. PICK parts : IsForest(p, parts, n)
  BY Zenon DEF Forest
<1> DEFINE m    == Len(parts)
           more == Append(parts, q)
           both == Beside(p, q)
<1>2. p \in Pieces /\ parts \in Seq(Pieces) /\ IsRow(p.bytes, BytesOf(parts)) /\ q \in Pieces /\ m \in Nat
  BY <1>1 DEF IsForest, Reads
<1>3. p.bytes \in Octets /\ q.bytes \in Octets /\ p.nodes \in Seq(Nodes) /\ q.nodes \in Seq(Nodes)
  BY <1>2 DEF Pieces
<1>4. PICK g : Joins(NodesOf(parts), g) /\ g[m] = p.nodes
  BY <1>1, Zenon DEF IsForest
<1>5. both.bytes = p.bytes \o q.bytes /\ both.nodes = p.nodes \o q.nodes /\ both \in Pieces
  <2>1. p.bytes \o q.bytes \in Octets
    BY <1>3, OctetsJoin, Zenon
  <2>2. p.nodes \o q.nodes \in Seq(Nodes)
    BY <1>3, ConcatProperties
  <2> QED
    BY <2>1, <2>2 DEF Beside, Piece, Pieces
<1>6. /\ more \in Seq(Pieces) /\ Len(more) = m + 1 /\ more[m + 1] = q
      /\ \A k \in 1..m : more[k] = parts[k]
  BY <1>2, AppendProperties
<1> HIDE DEF m, more, both
<1>7. IsRow(both.bytes, BytesOf(more))
  <2> DEFINE old == BytesOf(parts)
             new == BytesOf(more)
             item == q.bytes
  <2>1. old = [k \in 1..m |-> parts[k].bytes]
    BY Zenon DEF BytesOf, m
  <2>2. new = [k \in 1..(m + 1) |-> more[k].bytes]
    BY <1>6, Zenon DEF BytesOf
  <2> HIDE DEF old, new
  <2>3. old \in Seq(Octets) /\ Len(old) = m
    <3>1. \A k \in 1..m : parts[k] \in Pieces
      BY <1>2 DEF m
    <3>2. \A k \in 1..m : parts[k].bytes \in Octets
      BY <3>1 DEF Pieces
    <3> QED
      BY <1>2, <2>1, <3>2
  <2>4. DOMAIN new = 1..(m + 1) /\ Function(new)
    BY <2>2, Zenon DEF Function
  <2>5. ASSUME NEW k \in 1..m PROVE new[k] = old[k]
    <3>1. k \in 1..(m + 1)
      BY <1>2
    <3> QED
      BY <1>6, <2>1, <2>2, <3>1
  <2>6. new[m + 1] = item
    <3>1. m + 1 \in 1..(m + 1)
      BY <1>2
    <3> QED
      BY <1>6, <2>2, <3>1
  <2>7. Append(old, item) = new
    <3> HIDE DEF item
    <3>1. item \in Octets
      BY <1>3 DEF item
    <3> QED
      BY <1>2, <2>3, <2>4, <2>5, <2>6, <3>1, AppendIs, Zenon
  <2>8. IsRow(p.bytes \o item, Append(old, item))
    BY <1>2, <1>3, RowGrows DEF old
  <2> QED
    BY <1>5, <2>7, <2>8, Zenon DEF new
<1>8. ASSUME NEW k \in 1..Len(more) PROVE Reads(more[k], n)
  <2>1. CASE k = m + 1
    BY <1>6, <2>1
  <2>2. CASE k # m + 1
    <3>1. k \in 1..m
      BY <1>2, <1>6, <2>2
    <3> QED
      BY <1>1, <1>6, <3>1 DEF IsForest, m
  <2> QED
    BY <2>1, <2>2
<1>9. \E h : Joins(NodesOf(more), h) /\ h[m + 1] = both.nodes
  <2> DEFINE h == [k \in 0..(m + 1) |-> IF k = m + 1 THEN both.nodes ELSE g[k]]
             v == NodesOf(parts)
             w == NodesOf(more)
  <2>1. v = [k \in 1..m |-> parts[k].nodes] /\ w = [k \in 1..(m + 1) |-> more[k].nodes]
    BY <1>6, Zenon DEF NodesOf, m
  <2>2. Len(v) = m /\ Len(w) = m + 1
    <3> HIDE DEF v, w
    <3> QED
      BY <1>2, <2>1
  <2>3. g[0] = <<>> /\ \A k \in 1..m : g[k] = g[k - 1] \o v[k]
    BY <1>4, <2>2, Zenon DEF Joins
  <2> HIDE DEF v, w
  <2>4. w[m + 1] = q.nodes /\ \A k \in 1..m : w[k] = v[k]
    <3>1. m + 1 \in 1..(m + 1) /\ \A k \in 1..m : k \in 1..(m + 1)
      BY <1>2
    <3> QED
      BY <1>6, <2>1, <3>1
  <2>5. h[m + 1] = both.nodes /\ \A k \in 0..m : h[k] = g[k]
    BY <1>2
  <2> HIDE DEF h
  <2>6. ASSUME NEW k \in 1..(m + 1) PROVE h[k] = h[k - 1] \o w[k]
    <3>1. CASE k = m + 1
      <4>1. k - 1 = m /\ m \in 0..m
        BY <1>2, <3>1
      <4>2. h[k - 1] = p.nodes
        BY <1>4, <2>5, <4>1, Zenon
      <4> QED
        BY <1>5, <2>4, <2>5, <3>1, <4>2, Zenon
    <3>2. CASE k # m + 1
      <4>1. k \in 1..m /\ k \in 0..m /\ k - 1 \in 0..m
        BY <1>2, <3>2
      <4> QED
        BY <2>3, <2>4, <2>5, <4>1, Zenon
    <3> QED
      BY <3>1, <3>2
  <2>7. h[0] = <<>>
    <3>1. 0 \in 0..m
      BY <1>2
    <3> QED
      BY <2>3, <2>5, <3>1, Zenon
  <2>8. Joins(w, h)
    BY <2>2, <2>6, <2>7, Zenon DEF Joins
  <2> QED
    BY <2>5, <2>8, Zenon DEF w
<1>10. IsForest(both, more, n)
  BY <1>5, <1>6, <1>7, <1>8, <1>9, Zenon DEF IsForest
<1> QED
  BY <1>10, Zenon DEF Forest, both

LEMMA ForestOne ==
  ASSUME NEW p, NEW n, Reads(p, n)
  PROVE  Forest(p, n)
<1>1. p \in Pieces
  BY Zenon DEF Reads
<1>2. Beside(Empty, p) = p
  <2>1. p = [bytes |-> p.bytes, nodes |-> p.nodes] /\ p.bytes \in Seq(Nat) /\ p.nodes \in Seq(Nodes)
    BY <1>1 DEF Pieces, Octets
  <2>2. <<>> \o p.bytes = p.bytes /\ <<>> \o p.nodes = p.nodes
    BY <2>1
  <2>3. Beside(Empty, p) = [bytes |-> <<>> \o p.bytes, nodes |-> <<>> \o p.nodes]
    BY DEF Beside, Empty, Piece
  <2> QED
    BY <2>1, <2>2, <2>3
<1>3. Forest(Beside(Empty, p), n)
  BY ForestEmpty, ForestGrows, Zenon
<1> QED
  BY <1>2, <1>3, Zenon

-----------------------------------------------------------------------------
(***************************************************************************)
(* What an open node holds: a forest, of which every cut leaves a forest   *)
(* that is its beginning, and behind it nothing or a TLV that is not whole.*)
(***************************************************************************)
Broken(buf, i) == \E b : IsTlv(b) /\ Shows(b, buf, i) /\ Len(buf) < i + Len(b)

IsPart(q, p, n, l) ==
  /\ Forest(q, n) /\ IsPrefix(q.nodes, p.nodes)
  /\ Sits(q.bytes, Cut(p.bytes, l), 0)
  /\ Len(q.bytes) = l \/ Broken(Cut(p.bytes, l), Len(q.bytes))

Grove(p, n) == Forest(p, n) /\ \A l \in 0..Len(p.bytes) : \E q : IsPart(q, p, n, l)

LEMMA ForestIs ==
  ASSUME NEW p, NEW n, Forest(p, n)
  PROVE  p \in Pieces /\ p.bytes \in Octets /\ p.nodes \in Seq(Nodes) /\ Len(p.bytes) \in Nat
BY DEF Forest, IsForest, Pieces, Octets

LEMMA TlvIsOctets == ASSUME NEW b, IsTlv(b) PROVE b \in Octets /\ Len(b) \in Nat
<1>1. PICK tag \in Nat, content \in Octets : b = TLV(tag, content) /\ Len(content) <= Max3
  BY DEF IsTlv
<1>2. b \in Octets
  BY <1>1, TlvIs
<1> QED
  BY <1>2 DEF Octets

LEMMA PartIsMore ==
  ASSUME NEW q, NEW p, NEW n \in Nat, NEW m \in Nat, n <= m, NEW l, IsPart(q, p, n, l)
  PROVE  IsPart(q, p, m, l)
<1>1. Forest(q, m)
  BY ForestMore, Zenon DEF IsPart
<1> QED
  BY <1>1, Zenon DEF IsPart

LEMMA GroveMore ==
  ASSUME NEW p, NEW n \in Nat, NEW m \in Nat, n <= m, Grove(p, n)
  PROVE  Grove(p, m)
<1>1. Forest(p, m)
  BY ForestMore, Zenon DEF Grove
<1>2. ASSUME NEW l \in 0..Len(p.bytes) PROVE \E q : IsPart(q, p, m, l)
  BY PartIsMore, Zenon DEF Grove
<1> QED
  BY <1>1, <1>2, Zenon DEF Grove

\* A whole forest is a part of itself.
LEMMA PartIsAll ==
  ASSUME NEW p, NEW n, Forest(p, n)
  PROVE  IsPart(p, p, n, Len(p.bytes))
<1> DEFINE b == p.bytes
<1>1. b \in Octets /\ p.nodes \in Seq(Nodes) /\ Len(b) \in Nat
  BY ForestIs
<1>2. IsPrefix(p.nodes, p.nodes)
  BY <1>1 DEF IsPrefix
<1> HIDE DEF b
<1>3. Cut(b, Len(b)) = b
  BY <1>1 DEF Cut, Octets
<1>4. Sits(b, Cut(b, Len(b)), 0)
  BY <1>1, <1>3, SitsWhole
<1> QED
  BY <1>2, <1>4, Zenon DEF IsPart, b

LEMMA GroveEmpty == ASSUME NEW n PROVE Grove(Empty, n)
<1>1. Forest(Empty, n) /\ Len(Empty.bytes) = 0
  BY ForestEmpty DEF Empty, Piece
<1>2. ASSUME NEW l \in 0..Len(Empty.bytes) PROVE \E q : IsPart(q, Empty, n, l)
  <2>1. l = Len(Empty.bytes)
    BY <1>1
  <2> QED
    BY <1>1, <2>1, PartIsAll, Zenon
<1> QED
  BY <1>1, <1>2, Zenon DEF Grove

\* Of octets behind others, a cut takes none of the second, or all of the first.
LEMMA CutOfBoth ==
  ASSUME NEW b \in Octets, NEW c \in Octets, NEW l \in 0..Len(b \o c)
  PROVE  /\ l <= Len(b) => Cut(b \o c, l) = Cut(b, l)
         /\ Len(b) <= l => Sits(b, Cut(b \o c, l), 0) /\ Shows(c, Cut(b \o c, l), Len(b))
<1> DEFINE s == b \o c
           x == Cut(s, l)
<1>1. /\ s \in Octets /\ Len(s) = Len(b) + Len(c) /\ Len(b) \in Nat /\ Len(c) \in Nat
      /\ \A k \in 1..Len(b) : s[k] = b[k]
      /\ \A k \in 1..Len(c) : s[Len(b) + k] = c[k]
  BY ConcatIs DEF Octets
<1>2. x \in Octets /\ Len(x) = l /\ Shows(s, x, 0) /\ l \in Nat
  <2>1. l \in 0..Len(s)
    BY Zenon
  <2> HIDE DEF s
  <2> QED
    BY <1>1, <2>1, CutShows
<1>3. ASSUME l <= Len(b) PROVE x = Cut(b, l)
  <2> HIDE DEF s
  <2>1. \A k \in 1..l : s[k] = b[k]
    BY <1>1, <1>2, <1>3
  <2>2. SubSeq(s, 1, l) = [k \in 1..l |-> s[k]] /\ SubSeq(b, 1, l) = [k \in 1..l |-> b[k]]
    BY <1>1, <1>2, <1>3 DEF Octets
  <2> QED
    BY <2>1, <2>2 DEF Cut
<1>4. Shows(b, x, 0) /\ Shows(c, x, 0 + Len(b))
  BY <1>2, ShowsParts, Zenon
<1>5. ASSUME Len(b) <= l PROVE Sits(b, x, 0) /\ Shows(c, x, Len(b))
  <2>1. 0 + Len(b) = Len(b) /\ 0 + Len(b) <= Len(x)
    BY <1>1, <1>2, <1>5
  <2> QED
    BY <1>4, <2>1, Zenon DEF Sits
<1> QED
  BY <1>3, <1>5, Zenon

LEMMA PrefixOfBoth ==
  ASSUME NEW s \in Seq(Nodes), NEW t \in Seq(Nodes), NEW u \in Seq(Nodes), IsPrefix(s, t)
  PROVE  IsPrefix(s, t \o u) /\ IsPrefix(t, t \o u)
<1>1. /\ t \o u \in Seq(Nodes) /\ Len(t \o u) = Len(t) + Len(u) /\ Len(s) <= Len(t)
      /\ \A k \in 1..Len(t) : (t \o u)[k] = t[k]
  BY DEF IsPrefix
<1>2. ASSUME NEW n \in 0..Len(t) PROVE SubSeq(t \o u, 1, n) = SubSeq(t, 1, n)
  <2> DEFINE v == t \o u
  <2>1. v \in Seq(Nodes) /\ n <= Len(v) /\ \A k \in 1..n : v[k] = t[k]
    BY <1>1
  <2> HIDE DEF v
  <2>2. SubSeq(v, 1, n) = [k \in 1..n |-> v[k]] /\ SubSeq(t, 1, n) = [k \in 1..n |-> t[k]]
    BY <2>1
  <2>3. SubSeq(v, 1, n) = SubSeq(t, 1, n)
    BY <2>1, <2>2
  <2> QED
    BY <2>3 DEF v
<1>3. Len(s) \in 0..Len(t) /\ Len(t) \in 0..Len(t) /\ Len(s) <= Len(t \o u) /\ Len(t) <= Len(t \o u)
  BY <1>1
<1> QED
  BY <1>2, <1>3, Zenon DEF IsPrefix

\* A forest that grows by one more tree.
LEMMA GroveGrows ==
  ASSUME NEW p, NEW x, NEW n, Grove(p, n), Reads(x, n)
  PROVE  Grove(Beside(p, x), n)
<1> DEFINE both == Beside(p, x)
           b == p.bytes
           c == x.bytes
<1>1. Forest(p, n) /\ Forest(both, n)
  BY ForestGrows, Zenon DEF Grove
<1>2. /\ b \in Octets /\ p.nodes \in Seq(Nodes) /\ Len(b) \in Nat
      /\ c \in Octets /\ x.nodes \in Seq(Nodes) /\ Len(c) \in Nat /\ IsTlv(c)
  BY <1>1, ForestIs DEF Reads, Pieces, Octets
<1>3. both.bytes = b \o c /\ both.nodes = p.nodes \o x.nodes
  BY DEF Beside, Piece
<1>4. Len(b \o c) = Len(b) + Len(c)
  BY <1>2, OctetsJoin, Zenon
<1> HIDE DEF both, b, c
<1>5. ASSUME NEW l \in 0..Len(b \o c) PROVE \E q : IsPart(q, both, n, l)
  <2> DEFINE y == Cut(b \o c, l)
  <2>1. /\ l <= Len(b) => y = Cut(b, l)
        /\ Len(b) <= l => Sits(b, y, 0) /\ Shows(c, y, Len(b))
    BY <1>2, CutOfBoth
  <2>2. y \in Octets /\ Len(y) = l
    <3>1. b \o c \in Octets
      BY <1>2, OctetsJoin, Zenon
    <3> QED
      BY <3>1, CutShows
  <2>3. y = Cut(both.bytes, l)
    BY <1>3, Zenon
  <2> HIDE DEF y
  <2>4. CASE l <= Len(b)
    <3>1. l \in 0..Len(b)
      BY <2>4
    <3>2. PICK q : IsPart(q, p, n, l)
      BY <3>1, Zenon DEF Grove, b
    <3>3. q.nodes \in Seq(Nodes) /\ IsPrefix(q.nodes, p.nodes)
      BY <3>2, ForestIs, Zenon DEF IsPart
    <3>4. IsPrefix(q.nodes, both.nodes)
      BY <1>2, <1>3, <3>3, PrefixOfBoth, Zenon
    <3>5. IsPart(q, both, n, l)
      BY <2>1, <2>3, <2>4, <3>2, <3>4, Zenon DEF IsPart, b
    <3> QED
      BY <3>5
  <2>5. CASE Len(b) <= l /\ l # Len(b \o c)
    <3>1. Len(y) < Len(b) + Len(c)
      BY <1>2, <1>4, <2>2, <2>5
    <3>2. Broken(y, Len(b))
      BY <1>2, <2>1, <2>5, <3>1, Zenon DEF Broken
    <3>3. IsPrefix(p.nodes, both.nodes)
      <4>1. IsPrefix(p.nodes, p.nodes)
        BY <1>2 DEF IsPrefix
      <4> QED
        BY <1>2, <1>3, <4>1, PrefixOfBoth, Zenon
    <3>4. IsPart(p, both, n, l)
      BY <1>1, <2>1, <2>3, <2>5, <3>2, <3>3, Zenon DEF IsPart, b
    <3> QED
      BY <3>4
  <2>6. CASE l = Len(b \o c)
    BY <1>1, <1>3, <2>6, PartIsAll, Zenon
  <2>7. l <= Len(b) \/ Len(b) <= l
    BY <1>2
  <2> QED
    BY <2>4, <2>5, <2>6, <2>7, Zenon
<1>6. Grove(both, n)
  BY <1>1, <1>3, <1>5, Zenon DEF Grove
<1> QED
  BY <1>6, Zenon DEF both

LEMMA OctetStringIs == OctetString \in Nat /\ ~Constructed(OctetString)
BY DEF OctetString, Constructed

LEMMA LeavesAre ==
  ASSUME NEW l \in Leaves
  PROVE  Reads(l, 1)
<1>1. ASSUME NEW tag \in Nat, ~Constructed(tag), NEW content \in Octets, Len(content) <= 200
      PROVE  Reads(Primitive(tag, content), 1)
  <2> DEFINE n == Len(content)
  <2>1. n \in Nat /\ n <= 200
    BY <1>1 DEF Octets
  <2> HIDE DEF n
  <2>2. n <= Max3
    BY <2>1, SMT DEF Max3
  <2> QED
    BY <1>1, <2>2, PrimitiveReads DEF n
<1>2. <<85, 29, 1>> \in Octets /\ Len(<<85, 29, 1>>) <= 200 /\ <<>> \in Octets /\ Len(<<>>) <= 200
  BY DEF Octets
<1>3. Bytes(130) \in Octets /\ Len(Bytes(130)) <= 200
  BY BytesAre
<1>4. OID \in Nat /\ ~Constructed(OID) /\ 5 \in Nat /\ ~Constructed(5)
  BY DEF OID, Constructed
<1>5. CASE l = Oid(1)
  BY <1>1, <1>2, <1>4, <1>5 DEF Oid
<1>6. CASE l = Primitive(OctetString, Bytes(130))
  BY <1>1, <1>3, <1>6, OctetStringIs
<1>7. CASE l = Primitive(5, <<>>)
  BY <1>1, <1>2, <1>4, <1>7
<1> QED
  BY <1>5, <1>6, <1>7 DEF Leaves

Opens == [inner : Pieces, levels : 1..MaxDepth]
Trees == [kind : {"tree"}, open : Seq(Opens)]

IsOpen(node)    == Grove(node.inner, node.levels) /\ Len(node.inner.bytes) <= Max3
OpenNodes(open) == open \in Seq(Opens) /\ open # <<>> /\ \A k \in 1..Len(open) : IsOpen(open[k])

TreeInv == doc.kind = "tree" => doc \in Trees /\ OpenNodes(doc.open)

LEMMA OpenedIs == Opened \in Opens /\ IsOpen(Opened)
<1>1. Empty \in Pieces /\ Len(Empty.bytes) = 0
  BY DEF Empty, Piece, Pieces, Octets
<1>2. Opened.inner = Empty /\ Opened.levels = 1 /\ Opened \in Opens
  BY <1>1 DEF Opened, Opens, MaxDepth
<1>3. 0 <= Max3
  BY SMT DEF Max3
<1> QED
  BY <1>1, <1>2, <1>3, GroveEmpty, Zenon DEF IsOpen

LEMMA TreeInit == ReadersInit => TreeInv
<1> SUFFICES ASSUME ReadersInit, doc.kind = "tree" PROVE doc \in Trees /\ OpenNodes(doc.open)
  BY DEF TreeInv
<1>1. doc \in [kind : {"tree"}, open : {<<Opened>>}]
  BY DEF ReadersInit
<1> DEFINE open == <<Opened>>
<1>2. open \in Seq(Opens) /\ open # <<>> /\ Len(open) = 1 /\ open[1] = Opened
  BY OpenedIs
<1> HIDE DEF open
<1>3. \A k \in 1..Len(open) : open[k] = Opened
  BY <1>2
<1>4. OpenNodes(open)
  BY <1>2, <1>3, OpenedIs, Zenon DEF OpenNodes
<1>5. doc.open = open /\ doc \in Trees
  BY <1>1, <1>2 DEF Trees, open
<1> QED
  BY <1>4, <1>5

\* A piece that can be read, put into the innermost open node.
LEMMA PutKeeps ==
  ASSUME doc \in Trees, NEW open, OpenNodes(open), NEW levels \in 1..MaxDepth,
         NEW piece, Reads(piece, levels), Put(open, piece, levels)
  PROVE  TreeInv'
<1> DEFINE n     == Len(open)
           node  == open[n]
           inner == Beside(node.inner, piece)
           most  == IF levels > node.levels THEN levels ELSE node.levels
           next  == [inner |-> inner, levels |-> most]
           more  == [open EXCEPT ![n] = next]
<1>1. open \in Seq(Opens) /\ n \in Nat /\ n # 0 /\ n \in 1..n
  <2>1. open \in Seq(Opens) /\ open # <<>>
    BY DEF OpenNodes
  <2> QED
    BY <2>1, EmptySeq
<1>2. node \in Opens /\ IsOpen(node)
  BY <1>1 DEF OpenNodes
<1>3. Last(open) = node
  BY DEF Last
<1>4. Len(inner.bytes) <= Max3 /\ doc' = [doc EXCEPT !.open = more]
  BY <1>3, Zenon DEF Put, Grow
<1>5. node.levels \in Nat /\ node.levels \in 1..MaxDepth /\ levels \in Nat /\ most \in 1..MaxDepth /\ most \in Nat
      /\ levels <= most /\ node.levels <= most
  <2> DEFINE h == node.levels
  <2>1. h \in 1..MaxDepth
    BY <1>2 DEF Opens
  <2> HIDE DEF h
  <2>2. h \in Nat /\ levels \in Nat
    BY <2>1 DEF MaxDepth
  <2>3. most = IF levels > h THEN levels ELSE h
    BY DEF h
  <2> HIDE DEF most
  <2>4. most \in 1..MaxDepth /\ most \in Nat /\ levels <= most /\ h <= most
    BY <2>1, <2>2, <2>3
  <2> QED
    BY <2>1, <2>2, <2>4 DEF h
<1> HIDE DEF node, most
<1>6. Grove(node.inner, most) /\ Reads(piece, most)
  <2>1. Grove(node.inner, node.levels)
    BY <1>2, Zenon DEF IsOpen
  <2>2. Grove(node.inner, most)
    BY <1>5, <2>1, GroveMore, Zenon
  <2>3. Reads(piece, most)
    BY <1>5, ReadsMore, Zenon
  <2> QED
    BY <2>2, <2>3
<1>7. Grove(inner, most)
  BY <1>6, GroveGrows, Zenon
<1>8. inner \in Pieces
  BY <1>7, ForestIs, Zenon DEF Grove
<1> HIDE DEF inner
<1>9. next \in Opens /\ IsOpen(next)
  <2>1. next \in Opens /\ next.inner = inner /\ next.levels = most
    BY <1>5, <1>8 DEF Opens
  <2> QED
    BY <1>4, <1>7, <2>1, Zenon DEF IsOpen
<1> HIDE DEF next, n
<1>10. /\ more \in Seq(Opens) /\ Len(more) = n /\ more[n] = next
       /\ \A k \in 1..n : k # n => more[k] = open[k]
  BY <1>1, <1>9 DEF n
<1> HIDE DEF more
<1>11. \A k \in 1..n : IsOpen(more[k])
  <2>1. \A k \in 1..n : IsOpen(open[k])
    BY Zenon DEF OpenNodes, n
  <2> QED
    BY <1>9, <1>10, <2>1, Zenon
<1>12. OpenNodes(more)
  <2>1. more # <<>>
    BY <1>1, <1>10
  <2> QED
    BY <1>10, <1>11, <2>1, Zenon DEF OpenNodes
<1>13. doc' \in Trees /\ doc'.open = more
  BY <1>4, <1>10 DEF Trees
<1> QED
  BY <1>12, <1>13, Zenon DEF TreeInv

LEMMA OpenRest ==
  ASSUME NEW open, OpenNodes(open)
  PROVE  /\ Last(open) \in Opens /\ IsOpen(Last(open))
         /\ Front(open) # <<>> => OpenNodes(Front(open))
<1> DEFINE n == Len(open)
           rest == Front(open)
<1>1. open \in Seq(Opens) /\ n \in Nat /\ n # 0 /\ \A k \in 1..n : IsOpen(open[k])
  <2>1. open \in Seq(Opens) /\ open # <<>> /\ \A k \in 1..n : IsOpen(open[k])
    BY Zenon DEF OpenNodes
  <2> QED
    BY <2>1, EmptySeq
<1>2. n \in 1..n /\ Last(open) = open[n]
  BY <1>1 DEF Last
<1>3. open[n] \in Opens
  BY <1>1, <1>2
<1>4. /\ rest \in Seq(Opens) /\ Len(rest) = n - 1
      /\ \A k \in 1..(n - 1) : rest[k] = open[k] /\ k \in 1..n
  <2> DEFINE m == n - 1
  <2>1. m \in 0..n /\ m \in Nat /\ rest = SubSeq(open, 1, m)
    BY <1>1 DEF Front
  <2> HIDE DEF m, rest
  <2>2. rest \in Seq(Opens) /\ Len(rest) = m /\ \A k \in 1..m : rest[k] = open[k]
    BY <1>1, <2>1
  <2>3. \A k \in 1..m : k \in 1..n
    BY <1>1, <2>1
  <2> QED
    BY <2>2, <2>3 DEF m
<1> HIDE DEF n, rest
<1>5. \A k \in 1..Len(rest) : IsOpen(rest[k])
  BY <1>1, <1>4, Zenon
<1>6. rest # <<>> => OpenNodes(rest)
  BY <1>4, <1>5, Zenon DEF OpenNodes
<1> QED
  BY <1>1, <1>2, <1>3, <1>6, Zenon DEF rest

LEMMA TreeNext == ASSUME KindInv, TreeInv, ReadersNext PROVE TreeInv'
<1>1. ASSUME doc.kind # "tree" PROVE TreeInv'
  BY <1>1, KindNext, Zenon DEF TreeInv
<1>2. ASSUME doc.kind = "tree" PROVE TreeInv'
  <2> DEFINE open == doc.open
             node == Last(open)
             rest == Front(open)
  <2>1. doc \in Trees /\ OpenNodes(open)
    BY <1>2, Zenon DEF TreeInv
  <2>2. \/ Grow("tree", [doc EXCEPT !.open = Append(@, Opened)])
        \/ \E l \in Leaves : Put(open, l, 1)
        \/ /\ rest # <<>>
           /\ \/ \E tag \in {Sequence, ExtensionsField} :
                   node.levels < MaxDepth /\ Put(rest, Node(tag, node.inner), node.levels + 1)
              \/ Put(rest, Primitive(OctetString, node.inner.bytes), 1)
    <3>1. GrowTree
      BY <1>2 DEF ReadersNext, AddExtension, AddEntry, AddPiece, Grow
    <3> QED
      BY <3>1, Zenon DEF GrowTree
  <2>3. 1 \in 1..MaxDepth
    BY DEF MaxDepth
  <2> HIDE DEF open
  <2>4. CASE Grow("tree", [doc EXCEPT !.open = Append(@, Opened)])
    <3> DEFINE more == Append(open, Opened)
               n == Len(open)
    <3>1. doc' = [doc EXCEPT !.open = more]
      <4>1. doc' = [doc EXCEPT !.open = Append(@, Opened)]
        BY <2>4, Zenon DEF Grow
      <4> QED
        BY <2>1, <4>1 DEF Trees, open
    <3>2. open \in Seq(Opens) /\ \A k \in 1..n : IsOpen(open[k])
      BY <2>1, Zenon DEF OpenNodes
    <3>3. /\ more \in Seq(Opens) /\ Len(more) = n + 1 /\ n \in Nat /\ more[n + 1] = Opened /\ more # <<>>
          /\ \A k \in 1..n : more[k] = open[k]
      BY <3>2, OpenedIs, AppendProperties
    <3> HIDE DEF more, n
    <3>4. ASSUME NEW k \in 1..(n + 1) PROVE IsOpen(more[k])
      <4>1. CASE k = n + 1
        BY <3>3, <4>1, OpenedIs, Zenon
      <4>2. CASE k # n + 1
        <5>1. k \in 1..n
          BY <3>3, <4>2
        <5> QED
          BY <3>2, <3>3, <5>1, Zenon
      <4> QED
        BY <4>1, <4>2
    <3>5. OpenNodes(more)
      BY <3>3, <3>4, Zenon DEF OpenNodes
    <3>6. doc' \in Trees /\ doc'.open = more
      BY <2>1, <3>1, <3>3 DEF Trees
    <3> QED
      BY <3>5, <3>6, Zenon DEF TreeInv
  <2>5. CASE \E l \in Leaves : Put(open, l, 1)
    BY <2>1, <2>3, <2>5, LeavesAre, PutKeeps
  <2> DEFINE inner == node.inner
             h == node.levels
  <2>6. h \in 1..MaxDepth /\ h \in Nat /\ Grove(inner, h) /\ Forest(inner, h) /\ Len(inner.bytes) <= Max3
        /\ inner.bytes \in Octets
    <3>1. node \in Opens /\ IsOpen(node)
      BY <2>1, OpenRest, Zenon
    <3>2. h \in 1..MaxDepth /\ h \in Nat
      BY <3>1 DEF Opens
    <3>3. Grove(inner, h) /\ Forest(inner, h) /\ Len(inner.bytes) <= Max3
      BY <3>1, Zenon DEF IsOpen, Grove
    <3> QED
      BY <3>2, <3>3, ForestIs, Zenon
  <2>7. ASSUME rest # <<>> PROVE OpenNodes(rest)
    BY <2>1, <2>7, OpenRest, Zenon
  <2>8. ASSUME rest # <<>>, NEW tag \in {Sequence, ExtensionsField}, h < MaxDepth, Put(rest, Node(tag, inner), h + 1)
        PROVE  TreeInv'
    <3>1. tag \in Nat /\ Constructed(tag)
      BY DEF Sequence, ExtensionsField, Constructed
    <3> HIDE DEF node, rest, inner, h
    <3>2. Reads(Node(tag, inner), h + 1)
      BY <2>6, <3>1, NodeReads, Zenon
    <3>3. h + 1 \in 1..MaxDepth
      BY <2>6, <2>8, SMTT(30) DEF MaxDepth
    <3>4. OpenNodes(rest)
      BY <2>7, <2>8, Zenon
    <3> QED
      BY <2>1, <2>8, <3>2, <3>3, <3>4, PutKeeps
  <2>9. ASSUME rest # <<>>, Put(rest, Primitive(OctetString, inner.bytes), 1)
        PROVE  TreeInv'
    <3> HIDE DEF node, rest, inner, h
    <3>1. Reads(Primitive(OctetString, inner.bytes), 1)
      BY <2>6, OctetStringIs, PrimitiveReads, Zenon
    <3>2. OpenNodes(rest)
      BY <2>7, <2>9, Zenon
    <3> QED
      BY <2>1, <2>3, <2>9, <3>1, <3>2, PutKeeps
  <2> QED
    BY <2>2, <2>4, <2>5, <2>8, <2>9, Zenon
<1> QED
  BY <1>1, <1>2, Zenon

\* A tree is read back as its nodes, and refused when it is cut.
LEMMA TreeIsReadBack ==
  ASSUME NEW t, NEW h \in 0..MaxDepth, Reads(t, h + 1)
  PROVE  TreeReadsBack(t)
<1> DEFINE b == t.bytes
           top == ReadTlv(b, 0)
           nodes == Walk(b)
<1>1. b \in Octets /\ 0 \in Nat /\ Sits(b, b, 0)
  <2>1. b \in Octets
    BY DEF Reads, Pieces
  <2> QED
    BY <2>1, SitsWhole
<1>2. IsVisited(b, 0, t, h + 1)
  BY <1>1, Zenon DEF Reads
<1>3. MaxDepth + 1 \in (h + 1)..(MaxDepth + 1)
  BY DEF MaxDepth
<1>4. nodes \in Seq(Tlvs) /\ View(b, nodes) = t.nodes
  <2>1. top # Nothing /\ Visits(b)[MaxDepth + 1][top] \in Seq(Tlvs) /\ View(b, Visits(b)[MaxDepth + 1][top]) = t.nodes
    BY <1>2, <1>3, Zenon DEF IsVisited
  <2>2. nodes = Visits(b)[MaxDepth + 1][top]
    BY <2>1, Zenon DEF Walk
  <2> QED
    BY <2>1, <2>2, Zenon
<1>5. Visited(b) = t.nodes
  <2>1. Visited(b) = [k \in DOMAIN nodes |-> [tag |-> nodes[k].tag, content |-> Content(b, nodes[k])]]
    BY Zenon DEF Visited
  <2>2. View(b, nodes) = [k \in DOMAIN nodes |-> [tag |-> nodes[k].tag, content |-> Content(b, nodes[k])]]
    BY Zenon DEF View, Shown
  <2> QED
    BY <1>4, <2>1, <2>2, Zenon
<1>6. CollectOids(b) = LET oids == SelectSeq(t.nodes, LAMBDA n : n.tag = OID)
                       IN [i \in DOMAIN oids |-> oids[i].content]
  BY <1>5, Zenon DEF CollectOids
<1>7. ASSUME NEW n \in 0..(Len(b) - 1) PROVE ReadTlv(Cut(b, n), 0) = Nothing
  <2>1. PICK tag \in Nat, content \in Octets : b = TLV(tag, content) /\ Len(content) <= Max3
    BY Zenon DEF IsTlv, Reads
  <2> HIDE DEF b
  <2> QED
    BY <2>1, TlvIsCut
<1> QED
  BY <1>5, <1>6, <1>7, Zenon DEF TreeReadsBack

\* A TLV that goes on behind the end of the buffer cannot be read.
LEMMA BrokenIsNothing ==
  ASSUME NEW buf \in Octets, NEW i \in Nat, Broken(buf, i)
  PROVE  ReadTlv(buf, i) = Nothing
<1>1. PICK b : IsTlv(b) /\ Shows(b, buf, i) /\ Len(buf) < i + Len(b)
  BY Zenon DEF Broken
<1>2. PICK tag \in Nat, content \in Octets : b = TLV(tag, content) /\ Len(content) <= Max3
  BY <1>1, Zenon DEF IsTlv
<1> DEFINE m    == Len(content)
           h    == Header(tag, m)
           from == i + (1 + Size(m))
<1>3. /\ b = h \o content /\ Len(b) = (1 + Size(m)) + m
      /\ h \in Octets /\ m \in Nat /\ Size(m) \in 1..4
  BY <1>2, TlvIs, Zenon
<1>4. Shows(h, buf, i)
  BY <1>1, <1>3, ShowsParts, Zenon
<1> HIDE DEF h
<1>5. from \in Nat /\ i + Len(b) = from + m /\ Len(buf) \in Nat
  BY <1>3 DEF Octets
<1>6. m <= Max3
  BY <1>2, Zenon
<1> HIDE DEF m
<1>7. ReadTlv(buf, i) = IF from + m <= Len(buf) THEN [tag |-> tag, from |-> from, end |-> from + m] ELSE Nothing
  BY <1>3, <1>4, <1>6, HeaderIsRead, Zenon DEF h
<1>8. ~(from + m <= Len(buf))
  <2> HIDE DEF from
  <2>1. from \in Nat /\ m \in Nat /\ Len(buf) \in Nat /\ Len(buf) < from + m
    BY <1>1, <1>3, <1>5
  <2> QED
    BY ONLY <2>1
<1> QED
  BY <1>7, <1>8, Zenon

\* A node whose content was cut is visited up to the tree that is not whole.
LEMMA CutNodeIsRead ==
  ASSUME NEW p, NEW n \in 1..MaxDepth, Grove(p, n), Len(p.bytes) <= Max3, NEW l \in 0..(Len(p.bytes) - 1),
         NEW seen, seen = Visited(TLV(Sequence, Cut(p.bytes, l)))
  PROVE  seen # <<>> /\ IsPrefix(Tail(seen), p.nodes)
<1> DEFINE x   == Cut(p.bytes, l)
           b   == TLV(Sequence, x)
           t   == Behold(Sequence, x, 0)
           top == ReadTlv(b, 0)
           nodes == Walk(b)
<1>1. Forest(p, n) /\ p.bytes \in Octets /\ p.nodes \in Seq(Nodes) /\ Len(p.bytes) \in Nat
  BY ForestIs, Zenon DEF Grove
<1>2. l \in 0..Len(p.bytes) /\ l \in Nat
  BY <1>1
<1>3. x \in Octets /\ Len(x) = l
  BY <1>1, <1>2, CutShows
<1>4. PICK q : IsPart(q, p, n, l)
  BY <1>2, Zenon DEF Grove
<1> DEFINE c == q.bytes
<1>5. /\ Forest(q, n) /\ c \in Octets /\ Len(c) \in Nat /\ q.nodes \in Seq(Nodes) /\ IsPrefix(q.nodes, p.nodes)
      /\ Sits(c, x, 0) /\ (Len(c) = l \/ Broken(x, Len(c)))
  BY <1>4, ForestIs, Zenon DEF IsPart
<1> HIDE DEF x
<1>6. l <= Max3
  <2> DEFINE m == Max3
             k == Len(p.bytes)
  <2>1. m \in Nat
    BY SMT DEF Max3
  <2>2. k <= m /\ k \in Nat /\ l \in 0..(k - 1)
    BY <1>1, Zenon
  <2> HIDE DEF m, k
  <2>3. l <= m
    BY <2>1, <2>2
  <2> QED
    BY <2>3 DEF m
<1>7. Sequence \in Nat /\ Constructed(Sequence)
  BY DEF Sequence, Constructed
<1>8. b \in Octets /\ Sits(b, b, 0) /\ Len(b) \in Nat
  <2>1. b \in Octets
    BY <1>3, <1>7, TlvHolds, Zenon
  <2> QED
    BY <2>1, SitsWhole DEF Octets
<1>9. IsBeheld(b, 0, Sequence, x, t)
  <2> DEFINE o == 0
  <2>1. o \in Nat /\ Sits(TLV(Sequence, x), b, o) /\ Len(x) <= Max3
    BY <1>3, <1>6, <1>8, Zenon
  <2> HIDE DEF b, o
  <2>2. IsBeheld(b, o, Sequence, x, Behold(Sequence, x, o))
    BY <1>3, <1>7, <1>8, <2>1, TlvIsBeheld, Zenon
  <2> QED
    BY <2>2 DEF o
<1> HIDE DEF t, b
<1>10. /\ top = t /\ t \in Tlvs /\ t # Nothing /\ t.tag = Sequence /\ t.from \in Nat
       /\ t.end = t.from + l /\ Content(b, t) = x /\ Sits(x, b, t.from) /\ t.end = Len(b)
  <2>1. t.end = 0 + Len(b)
    BY <1>9, Zenon DEF IsBeheld, b
  <2>2. t.end = Len(b)
    BY <1>8, <2>1
  <2> QED
    BY <1>3, <1>9, <2>2, Zenon DEF IsBeheld
<1> DEFINE i == t.from
           j == Len(c)
<1>11. /\ i \in Nat /\ j \in Nat /\ j <= l /\ Len(b) = i + l /\ i + j \in Nat /\ t.end \in Nat
       /\ i + j <= t.end /\ i + j <= Len(b) /\ (j = l => t.end = i + j)
  <2>1. 0 + j <= Len(x)
    BY <1>5, Zenon DEF Sits
  <2> QED
    BY <1>2, <1>3, <1>5, <1>10, <2>1
<1> HIDE DEF i, c
<1>12. Sits(c, b, i)
  <2>1. Shows(x, b, i)
    BY <1>10, Zenon DEF Sits, i
  <2>2. Shows(c, b, i + 0)
    <3>1. 0 \in Nat
      OBVIOUS
    <3> QED
      BY <1>3, <1>5, <1>8, <1>11, <2>1, <3>1, SitsWithin, Zenon
  <2>3. i + 0 = i
    BY <1>11
  <2> QED
    BY <1>11, <2>2, <2>3, Zenon DEF Sits
<1>13. ASSUME j # l PROVE ReadTlv(b, i + j) = Nothing
  <2>1. PICK d : IsTlv(d) /\ Shows(d, x, j) /\ Len(x) < j + Len(d)
    BY <1>5, <1>13, Zenon DEF Broken
  <2>2. d \in Octets /\ Len(d) \in Nat
    BY <2>1, TlvIsOctets
  <2>3. ASSUME NEW k \in 1..Len(d), (i + j) + k <= Len(b) PROVE b[(i + j) + k] = d[k]
    <3>1. j + k \in 1..Len(x) /\ j + k <= Len(x) /\ i + (j + k) = (i + j) + k /\ i + (j + k) <= Len(b)
      BY <1>2, <1>3, <1>11, <2>2, <2>3
    <3>2. x[j + k] = d[k]
      BY <2>1, <3>1, Zenon DEF Shows
    <3>3. b[i + (j + k)] = x[j + k]
      BY <1>10, <3>1, Zenon DEF Sits, Shows, i
    <3> QED
      BY <3>1, <3>2, <3>3, Zenon
  <2>4. Len(b) < (i + j) + Len(d)
    BY <1>2, <1>3, <1>11, <2>1, <2>2
  <2>5. Broken(b, i + j)
    BY <2>1, <2>3, <2>4, Zenon DEF Broken, Shows
  <2> QED
    BY <1>8, <1>11, <2>5, BrokenIsNothing, Zenon
<1>14. Holds(b, t, c)
  BY <1>11, <1>12, <1>13, Zenon DEF Holds, i
<1>15. nodes = Visits(b)[MaxDepth + 1][t]
  BY <1>10, Zenon DEF Walk
<1>16. nodes \in Seq(Tlvs) /\ View(b, nodes) = <<Shown(b, t)>> \o q.nodes
  <2>1. n \in Nat /\ MaxDepth + 1 \in (n + 1)..(MaxDepth + 1)
    BY DEF MaxDepth
  <2>2. Constructed(t.tag) /\ Holds(b, t, q.bytes)
    BY <1>7, <1>10, <1>14, Zenon DEF c
  <2> DEFINE left == MaxDepth + 1
  <2>3. left \in (n + 1)..(MaxDepth + 1)
    BY <2>1
  <2> HIDE DEF left
  <2>4. /\ Visits(b)[left][t] \in Seq(Tlvs)
        /\ View(b, Visits(b)[left][t]) = <<Shown(b, t)>> \o q.nodes
    BY <1>5, <1>8, <1>10, <2>1, <2>2, <2>3, NodeIsRead
  <2> QED
    BY <1>15, <2>4, Zenon DEF left
<1>17. seen = View(b, nodes)
  <2>1. Visited(b) = [k \in DOMAIN nodes |-> [tag |-> nodes[k].tag, content |-> Content(b, nodes[k])]]
    BY Zenon DEF Visited
  <2>2. View(b, nodes) = [k \in DOMAIN nodes |-> [tag |-> nodes[k].tag, content |-> Content(b, nodes[k])]]
    BY Zenon DEF View, Shown
  <2> QED
    BY <2>1, <2>2, Zenon DEF b, x
<1>18. seen # <<>> /\ Tail(seen) = q.nodes
  <2> DEFINE first == Shown(b, t)
             rest  == q.nodes
  <2>1. seen = <<first>> \o rest /\ rest \in Seq(Nodes)
    BY <1>5, <1>16, <1>17, Zenon
  <2>2. first \in Nodes
    BY <1>3, <1>10 DEF Shown, Nodes, Tlvs
  <2> HIDE DEF first, rest
  <2>3. seen # <<>> /\ Tail(seen) = rest
    BY <2>1, <2>2
  <2> QED
    BY <2>3 DEF rest
<1> QED
  BY <1>5, <1>18, Zenon

\* What an open node holds is read back.
LEMMA NodeIsReadBack ==
  ASSUME NEW p, NEW n \in 1..MaxDepth, Grove(p, n), Len(p.bytes) <= Max3
  PROVE  NodeReadsBack(p)
<1>1. Forest(p, n) /\ p.bytes \in Octets
  BY ForestIs, Zenon DEF Grove
<1>2. n \in Nat /\ n \in 0..MaxDepth /\ 0 \in 0..MaxDepth /\ 0 + 1 = 1
  BY DEF MaxDepth
<1>3. Sequence \in Nat /\ Constructed(Sequence)
  BY DEF Sequence, Constructed
<1>4. TreeReadsBack(Node(Sequence, p))
  <2>1. Reads(Node(Sequence, p), n + 1)
    BY <1>1, <1>2, <1>3, NodeReads, Zenon
  <2> QED
    BY <1>2, <2>1, TreeIsReadBack, Zenon
<1>5. TreeReadsBack(Primitive(OctetString, p.bytes))
  <2>1. Reads(Primitive(OctetString, p.bytes), 0 + 1)
    BY <1>1, <1>2, OctetStringIs, PrimitiveReads
  <2> QED
    BY <1>2, <2>1, TreeIsReadBack, Zenon
<1> QED
  BY <1>4, <1>5, CutNodeIsRead, Zenon DEF NodeReadsBack

-----------------------------------------------------------------------------
(***************************************************************************)
(* A list of timestamps: a row of entries with two bytes of length each.   *)
(***************************************************************************)
IsStamps(items) == \A k \in 1..Len(items) : \E b \in Octets : items[k] = P2(b)

IsSctList(list, count) ==
  /\ list \in Octets /\ Len(list) <= Max2 - 2
  /\ \E items : IsRow(list, items) /\ IsStamps(items) /\ Len(items) = count

Scts   == [kind : {"scts"}, count : Nat, list : Octets]
SctInv == doc.kind = "scts" => doc \in Scts /\ IsSctList(doc.list, doc.count)

LEMMA SctInit == ReadersInit => SctInv
<1> SUFFICES ASSUME ReadersInit, doc.kind = "scts" PROVE doc \in Scts /\ IsSctList(doc.list, doc.count)
  BY DEF SctInv
<1>1. doc \in [kind : {"scts"}, count : {0}, list : {<<>>}]
  BY DEF ReadersInit
<1>2. <<>> \in Octets /\ Len(<<>>) = 0
  BY DEF Octets
<1>3. doc.count = 0 /\ doc.list = <<>>
  BY <1>1
<1>4. Len(<<>>) <= Max2 - 2
  BY <1>2, SMT DEF Max2
<1>5. IsStamps(<<>>)
  BY <1>2 DEF IsStamps
<1>6. IsSctList(<<>>, 0)
  BY <1>2, <1>4, <1>5, RowEmpty, Zenon DEF IsSctList
<1> QED
  BY <1>1, <1>2, <1>3, <1>6 DEF Scts

LEMMA SctNext == ASSUME KindInv, SctInv, ReadersNext PROVE SctInv'
<1>1. ASSUME doc.kind # "scts" PROVE SctInv'
  BY <1>1, KindNext, Zenon DEF SctInv
<1>2. ASSUME doc.kind = "scts" PROVE SctInv'
  <2>1. PICK n \in {0, 7, 119} :
          LET list == doc.list \o P2(Bytes(n))
          IN Len(list) <= Max2 - 2 /\ doc' = [doc EXCEPT !.count = @ + 1, !.list = list]
    <3>1. AddEntry
      BY <1>2 DEF ReadersNext, GrowTree, AddExtension, AddPiece, Grow
    <3> QED
      BY <1>2, <3>1 DEF AddEntry, Grow
  <2>2. doc \in Scts /\ IsSctList(doc.list, doc.count)
    BY <1>2, Zenon DEF SctInv
  <2> DEFINE old  == doc.list
             item == P2(Bytes(n))
             list == old \o item
  <2>3. PICK items : IsRow(old, items) /\ IsStamps(items) /\ Len(items) = doc.count
    BY <2>2, Zenon DEF IsSctList
  <2>4. item \in Octets /\ Bytes(n) \in Octets /\ old \in Octets /\ doc.count \in Nat
    <3>1. Bytes(n) \in Octets
      BY BytesAre
    <3> QED
      BY <2>2, <3>1, PrefixedAre DEF Scts
  <2> DEFINE more == Append(items, item)
  <2>7. items \in Seq(Octets)
    BY <2>3, Zenon DEF IsRow, Row
  <2>8. \E b \in Octets : item = P2(b)
    BY <2>4, Zenon
  <2> HIDE DEF item, old
  <2>5. list \in Octets
    BY <2>4, OctetsJoin, Zenon
  <2>6. IsRow(list, more)
    BY <2>3, <2>4, RowGrows, Zenon
  <2> HIDE DEF list
  <2>9. Len(more) = Len(items) + 1 /\ more[Len(items) + 1] = item /\ \A k \in 1..Len(items) : more[k] = items[k]
    BY <2>4, <2>7, AppendProperties
  <2> HIDE DEF more
  <2>10. IsStamps(more)
    <3>1. ASSUME NEW k \in 1..Len(more) PROVE \E b \in Octets : more[k] = P2(b)
      <4>1. CASE k = Len(items) + 1
        BY <2>8, <2>9, <4>1, Zenon
      <4>2. CASE k # Len(items) + 1
        <5>1. k \in 1..Len(items)
          BY <2>7, <2>9, <4>2
        <5>2. PICK b \in Octets : items[k] = P2(b)
          BY <2>3, <5>1, Zenon DEF IsStamps
        <5>3. more[k] = items[k]
          BY <2>9, <5>1, Zenon
        <5> QED
          BY <5>2, <5>3, Zenon
      <4> QED
        BY <4>1, <4>2
    <3> QED
      BY <3>1, Zenon DEF IsStamps
  <2>11. Len(list) <= Max2 - 2 /\ doc' = [doc EXCEPT !.count = @ + 1, !.list = list]
    BY <2>1, Zenon DEF list, old, item
  <2>12. doc' \in Scts /\ doc'.list = list /\ doc'.count = doc.count + 1
    <3> DEFINE more2 == doc.count + 1
    <3>1. more2 \in Nat
      BY <2>4
    <3>2. doc' = [doc EXCEPT !.count = more2, !.list = list]
      BY <2>11, Zenon
    <3> HIDE DEF more2
    <3>3. doc' \in Scts /\ doc'.list = list /\ doc'.count = more2
      BY <2>2, <2>5, <3>1, <3>2 DEF Scts
    <3> QED
      BY <3>3, Zenon DEF more2
  <2>13. IsSctList(list, doc.count + 1)
    BY <2>3, <2>5, <2>6, <2>9, <2>10, <2>11, Zenon DEF IsSctList
  <2> QED
    BY <2>12, <2>13, Zenon DEF SctInv
<1> QED
  BY <1>1, <1>2, Zenon

LEMMA SctsAreCounted ==
  ASSUME NEW list, NEW count \in Nat, IsSctList(list, count)
  PROVE  CountSct(SctList(list)) = IF count > 65 THEN 65 ELSE count
<1> DEFINE value   == SctList(list)
           buf     == P2(list)
           outer   == ReadTlv(value, 0)
           inside  == IF outer = Nothing THEN <<>> ELSE Content(value, outer)
           Total(b) == 2 + U16(b, 0)
           End(b)  == IF Total(b) < Len(b) THEN Total(b) ELSE Len(b)
           After(b) == [i \in {i \in 0..End(b) : i + 2 <= End(b)} |-> i + 2 + U16(b, i)]
           Count(b) == Len(Stops(b, After(b), 2))
           n       == Len(list)
           next    == After(buf)
<1>1. PICK items : IsRow(list, items) /\ IsStamps(items) /\ Len(items) = count
  BY Zenon DEF IsSctList
<1>2. PICK c : Row(list, items, c)
  BY <1>1, Zenon DEF IsRow
<1>3. list \in Octets /\ n \in Nat /\ buf \in Octets /\ Len(buf) = 2 + n
  BY PrefixedAre DEF IsSctList, Octets
<1>4. inside = buf /\ outer # Nothing /\ outer.tag = OctetString
  <2> DEFINE t == Behold(OctetString, buf, 0)
  <2>1. Len(buf) <= Max3
    <3>1. n <= Max2 - 2
      BY Zenon DEF IsSctList
    <3> HIDE DEF n, buf
    <3> QED
      BY <1>3, <3>1, SMT DEF Max2, Max3
  <2>2. value = TLV(OctetString, buf)
    BY Zenon DEF SctList
  <2> HIDE DEF buf, value, t
  <2>3. value \in Octets /\ Sits(TLV(OctetString, buf), value, 0) /\ 0 \in Nat
    <3>1. value \in Octets
      BY <1>3, <2>1, <2>2, OctetStringIs, TlvIs, Zenon
    <3> QED
      BY <2>2, <3>1, SitsWhole, Zenon
  <2>4. IsBeheld(value, 0, OctetString, buf, t)
    BY <1>3, <2>1, <2>3, OctetStringIs, TlvIsBeheld, Zenon DEF t
  <2>5. outer = t /\ t # Nothing /\ t.tag = OctetString /\ Content(value, t) = buf
    BY <2>4, Zenon DEF IsBeheld
  <2> QED
    BY <2>5, Zenon
<1> HIDE DEF n
<1>5. Sits(list, buf, 2) /\ U16(buf, 0) = n
  <2>1. Sits(P2(list), buf, 0) /\ 0 \in Nat
    BY <1>3, SitsWhole
  <2>2. U16(buf, 0) = Len(list) /\ Sits(list, buf, 0 + 2)
    <3> HIDE DEF buf
    <3> QED
      BY <1>3, <2>1, P2Sits, Zenon
  <2> QED
    BY <2>2 DEF n
<1> HIDE DEF buf
<1>6. End(buf) = 2 + n
  BY <1>3, <1>5
<1> DEFINE stop == End(buf)
<1>7. next = [i \in {i \in 0..stop : i + 2 <= stop} |-> i + 2 + U16(buf, i)]
  BY Zenon
<1> HIDE DEF next, stop
<1>8. stop = 2 + n
  BY <1>6, Zenon DEF stop
<1>9. c \in [0..count -> Nat] /\ count \in Nat /\ c[count] = n
      /\ \A k \in 1..count : c[k] = c[k - 1] + Len(items[k]) /\ Sits(items[k], list, c[k - 1])
  BY <1>1, <1>2 DEF Row, n
<1>10. ASSUME NEW k \in 1..count PROVE items[k] # <<>> /\ 2 + c[k - 1] \in DOMAIN next /\ next[2 + c[k - 1]] = 2 + c[k]
  <2>1. PICK b \in Octets : items[k] = P2(b)
    BY <1>1, Zenon DEF IsStamps
  <2>2. P2(b) \in Octets /\ Len(P2(b)) = 2 + Len(b) /\ Len(b) \in Nat
    BY PrefixedAre
  <2>3. c[k - 1] \in Nat /\ c[k] = c[k - 1] + (2 + Len(b)) /\ Sits(P2(b), list, c[k - 1])
    <3>1. k - 1 \in 0..count
      BY <1>9
    <3> QED
      BY <1>9, <2>1, <2>2, <3>1
  <2>4. c[k - 1] + (2 + Len(b)) <= n
    BY <2>2, <2>3, Zenon DEF Sits, n
  <2>5. Sits(P2(b), buf, 2 + c[k - 1])
    <3>1. Shows(P2(b), buf, 2 + c[k - 1])
      <4>1. 2 \in Nat /\ Shows(list, buf, 2)
        BY <1>5 DEF Sits
      <4> QED
        BY <1>3, <2>2, <2>3, <4>1, SitsWithin, Zenon
    <3>2. (2 + c[k - 1]) + Len(P2(b)) <= Len(buf)
      <4> DEFINE x == c[k - 1]  y == Len(b)
      <4>1. x \in Nat /\ y \in Nat /\ x + (2 + y) <= n /\ Len(buf) = 2 + n /\ n \in Nat /\ Len(P2(b)) = 2 + y
        BY <1>3, <2>2, <2>3, <2>4, Zenon
      <4> HIDE DEF x, y
      <4>2. (2 + x) + Len(P2(b)) <= Len(buf)
        BY ONLY <4>1
      <4> QED
        BY <4>2 DEF x
    <3> QED
      BY <3>1, <3>2, Zenon DEF Sits
  <2>6. U16(buf, 2 + c[k - 1]) = Len(b)
    <3>1. 2 + c[k - 1] \in Nat
      BY <2>3
    <3> QED
      BY <1>3, <2>5, <3>1, P2Sits, Zenon
  <2>7. items[k] # <<>>
    <3>1. Len(items[k]) # 0
      BY <2>1, <2>2
    <3> QED
      BY <3>1
  <2> DEFINE x == c[k - 1]
             y == Len(b)
  <2>8. x \in Nat /\ y \in Nat /\ x + (2 + y) <= n /\ n \in Nat /\ U16(buf, 2 + x) = y /\ c[k] = x + (2 + y)
    BY <1>3, <2>2, <2>3, <2>4, <2>6, Zenon
  <2> HIDE DEF x, y
  <2>9. 2 + x \in {i \in 0..stop : i + 2 <= stop}
    BY <1>8, <2>8
  <2>10. 2 + x \in DOMAIN next /\ next[2 + x] = (2 + x) + 2 + U16(buf, 2 + x)
    BY <1>7, <2>9
  <2>11. (2 + x) + 2 + U16(buf, 2 + x) = 2 + c[k]
    BY <2>8
  <2> QED
    BY <2>7, <2>10, <2>11, Zenon DEF x
<1>11. Walks(next, items, c, 2)
  BY <1>1, <1>10, Zenon DEF Walks
<1>12. 2 + n \notin DOMAIN next
  BY <1>3, <1>7, <1>8
<1>13. Stops(buf, next, 2) = Begins(items, c, 2)
  <2>1. 2 + Len(list) <= Len(buf) /\ 2 + Len(list) \notin DOMAIN next /\ 2 \in Nat
    BY <1>3, <1>12 DEF n
  <2> QED
    BY <1>2, <1>3, <1>11, <2>1, RowStops
<1>14. Len(Stops(buf, next, 2)) = count
  <2>1. Stops(buf, next, 2) = [k \in 1..count |-> 2 + c[k - 1]]
    BY <1>1, <1>13, Zenon DEF Begins
  <2> QED
    BY <1>9, <2>1
<1>15. ~(Len(buf) < 2)
  BY <1>3
<1>16. CountSct(value) = IF Len(inside) < 2 \/ outer.tag # OctetString THEN 0 ELSE IF Count(inside) > 65 THEN 65 ELSE Count(inside)
  BY Zenon DEF CountSct
<1>17. Count(inside) = count
  <2>1. Count(buf) = count
    BY <1>14, Zenon DEF next
  <2> HIDE DEF Count, inside
  <2> QED
    BY <1>4, <2>1, Zenon
<1> HIDE DEF Count, inside, outer, value
<1>18. CountSct(value) = IF count > 65 THEN 65 ELSE count
  BY <1>4, <1>15, <1>16, <1>17, Zenon
<1> QED
  BY <1>18, Zenon DEF value

-----------------------------------------------------------------------------
(***************************************************************************)
(* A key usage: bits with the first one highest, a ninth in a byte of its  *)
(* own.                                                                    *)
(***************************************************************************)
LEMMA MasksAre ==
  /\ Mask(0) = 128 /\ Mask(1) = 64 /\ Mask(2) = 32 /\ Mask(3) = 16 /\ Mask(4) = 8
  /\ Mask(5) = 4 /\ Mask(6) = 2 /\ Mask(7) = 1 /\ Mask(8) = 128
BY SMT DEF Mask

Binary == {0, 1}

\* A number that is the sum of these bits, and the bits that are read of it.
SumOf(f, x0, x1, x2, x3, x4, x5, x6, x7) ==
  f = 128 * x0 + 64 * x1 + 32 * x2 + 16 * x3 + 8 * x4 + 4 * x5 + 2 * x6 + x7

HasBits(f, x0, x1, x2, x3, x4, x5, x6, x7) ==
  /\ (f \div 128) % 2 = x0 /\ (f \div 64) % 2 = x1 /\ (f \div 32) % 2 = x2
  /\ (f \div 16) % 2 = x3 /\ (f \div 8) % 2 = x4 /\ (f \div 4) % 2 = x5
  /\ (f \div 2) % 2 = x6 /\ (f \div 1) % 2 = x7 /\ f \in Nat

LEMMA BitsAre ==
  ASSUME NEW x0 \in Binary, NEW x1 \in Binary, NEW x2 \in Binary, NEW x3 \in Binary,
         NEW x4 \in Binary, NEW x5 \in Binary, NEW x6 \in Binary, NEW x7 \in Binary,
         NEW f, SumOf(f, x0, x1, x2, x3, x4, x5, x6, x7)
  PROVE  HasBits(f, x0, x1, x2, x3, x4, x5, x6, x7)
<1> USE DEF SumOf, Binary
<1>1. f \div 128 = x0
  BY SMT
<1>2. f \div 64 = 2 * x0 + x1
  BY SMT
<1>3. f \div 32 = 2 * (2 * x0 + x1) + x2
  BY SMT
<1>4. f \div 16 = 2 * (4 * x0 + 2 * x1 + x2) + x3
  BY SMT
<1>5. f \div 8 = 2 * (8 * x0 + 4 * x1 + 2 * x2 + x3) + x4
  BY SMT
<1>6. f \div 4 = 2 * (16 * x0 + 8 * x1 + 4 * x2 + 2 * x3 + x4) + x5
  BY SMT
<1>7. f \div 2 = 2 * (32 * x0 + 16 * x1 + 8 * x2 + 4 * x3 + 2 * x4 + x5) + x6
  BY SMT
<1>8. f \div 1 = 2 * (64 * x0 + 32 * x1 + 16 * x2 + 8 * x3 + 4 * x4 + 2 * x5 + x6) + x7
  BY SMT
<1>9. f \in Nat
  BY SMT
<1> QED
  BY <1>1, <1>2, <1>3, <1>4, <1>5, <1>6, <1>7, <1>8, <1>9, SMT DEF HasBits

LEMMA UsageIsRead ==
  ASSUME NEW usage \in SUBSET (0..8)
  PROVE  KeyUsage(UsageBits(usage)) = usage
<1> DEFINE Bit(n) == IF n \in usage THEN Mask(n) ELSE 0
           x(n)   == IF n \in usage THEN 1 ELSE 0
           first  == Bit(0) + Bit(1) + Bit(2) + Bit(3) + Bit(4) + Bit(5) + Bit(6) + Bit(7)
           top    == Bit(8)
           content == IF 8 \in usage THEN <<7, first, top>> ELSE <<0, first>>
           value  == TLV(BitString, content)
           tlv    == ReadTlv(value, 0)
           bits   == SubSeq(value, tlv.from + 2, tlv.end)
<1>1. UsageBits(usage) = value
  BY Zenon DEF UsageBits
<1>2. ASSUME NEW n \in 0..8 PROVE x(n) \in {0, 1} /\ (x(n) = 1 <=> n \in usage) /\ x(n) \in Int
  OBVIOUS
<1>3. /\ Bit(0) = 128 * x(0) /\ Bit(1) = 64 * x(1) /\ Bit(2) = 32 * x(2) /\ Bit(3) = 16 * x(3)
      /\ Bit(4) = 8 * x(4) /\ Bit(5) = 4 * x(5) /\ Bit(6) = 2 * x(6) /\ Bit(7) = x(7) /\ Bit(8) = 128 * x(8)
  BY MasksAre, SMT
<1> HIDE DEF x, Bit
<1>4. /\ x(0) \in {0, 1} /\ x(1) \in {0, 1} /\ x(2) \in {0, 1} /\ x(3) \in {0, 1} /\ x(4) \in {0, 1}
      /\ x(5) \in {0, 1} /\ x(6) \in {0, 1} /\ x(7) \in {0, 1} /\ x(8) \in {0, 1}
  BY <1>2
<1>5. first = 128 * x(0) + 64 * x(1) + 32 * x(2) + 16 * x(3) + 8 * x(4) + 4 * x(5) + 2 * x(6) + x(7)
  BY <1>3, <1>4, SMT
<1> HIDE DEF first
<1>6. /\ (first \div 128) % 2 = x(0) /\ (first \div 64) % 2 = x(1) /\ (first \div 32) % 2 = x(2)
      /\ (first \div 16) % 2 = x(3) /\ (first \div 8) % 2 = x(4) /\ (first \div 4) % 2 = x(5)
      /\ (first \div 2) % 2 = x(6) /\ (first \div 1) % 2 = x(7) /\ first \in Nat
  <2>1. SumOf(first, x(0), x(1), x(2), x(3), x(4), x(5), x(6), x(7))
    BY <1>5, SMT DEF SumOf
  <2>2. /\ x(0) \in Binary /\ x(1) \in Binary /\ x(2) \in Binary /\ x(3) \in Binary
        /\ x(4) \in Binary /\ x(5) \in Binary /\ x(6) \in Binary /\ x(7) \in Binary
    BY <1>4 DEF Binary
  <2>3. HasBits(first, x(0), x(1), x(2), x(3), x(4), x(5), x(6), x(7))
    BY <2>1, <2>2, BitsAre, Zenon
  <2> QED
    BY <2>3, SMT DEF HasBits
<1>7. 8 \in usage => top = 128
  BY <1>2, <1>3, SMT
<1> HIDE DEF top
<1>8. content \in Octets /\ Len(content) = (IF 8 \in usage THEN 3 ELSE 2) /\ content[2] = first /\ (8 \in usage => content[3] = top)
  <2>1. CASE 8 \in usage
    <3>1. content = <<7, first, top>> /\ top \in Nat
      BY <1>7, <2>1, SMT
    <3> HIDE DEF content
    <3> QED
      BY <1>6, <2>1, <3>1 DEF Octets
  <2>2. CASE 8 \notin usage
    <3>1. content = <<0, first>>
      BY <2>2
    <3> HIDE DEF content
    <3> QED
      BY <1>6, <2>2, <3>1 DEF Octets
  <2> QED
    BY <2>1, <2>2
<1> HIDE DEF content
<1> DEFINE t == Behold(BitString, content, 0)
<1> HIDE DEF t
<1>9. IsBeheld(value, 0, BitString, content, t) /\ value \in Octets
  <2>1. Len(content) <= Max3
    BY <1>8, SMT DEF Max3
  <2>2. BitString \in Nat
    BY DEF BitString
  <2>3. value \in Octets
    BY <1>8, <2>1, <2>2, TlvIs, Zenon
  <2>4. Sits(value, value, 0) /\ 0 \in Nat
    BY <2>3, SitsWhole
  <2> QED
    BY <1>8, <2>1, <2>2, <2>3, <2>4, TlvIsBeheld DEF t
<1> DEFINE from == t.from
           n    == Len(content)
<1>10. tlv = t /\ tlv # Nothing /\ tlv.tag = BitString /\ from \in Nat /\ t.end = from + n /\ from + n <= Len(value)
       /\ Shows(content, value, from)
  BY <1>9, Zenon DEF IsBeheld, Sits
<1>11. bits = SubSeq(value, from + 2, from + n)
  BY <1>10, Zenon
<1> HIDE DEF from, tlv
<1>12. ASSUME NEW k \in 1..n PROVE value[from + k] = content[k]
  <2>1. from + k <= Len(value)
    BY <1>8, <1>9, <1>10 DEF Octets, n
  <2> QED
    BY <1>10, <2>1, Zenon DEF Shows, n
<1>13. n = (IF 8 \in usage THEN 3 ELSE 2)
  BY <1>8 DEF n
<1> HIDE DEF n, value
<1>14. Len(bits) = n - 1 /\ \A k \in 1..(n - 1) : bits[k] = value[from + (k + 1)]
  <2>1. Len(value) \in Nat /\ value \in Seq(Nat)
    BY <1>9 DEF Octets
  <2> HIDE DEF bits
  <2>2. n \in Nat /\ n >= 2
    BY <1>13
  <2>3. Len(bits) = n - 1
    BY <1>10, <1>11, <2>1, <2>2
  <2>4. \A k \in 1..(n - 1) : bits[k] = value[from + (k + 1)]
    BY <1>10, <1>11, <2>1, <2>2
  <2> QED
    BY <2>3, <2>4
<1> HIDE DEF bits
<1>15. bits[1] = first /\ Len(bits) = (IF 8 \in usage THEN 2 ELSE 1) /\ (8 \in usage => bits[2] = 128)
  <2>1. bits[1] = first
    <3>1. 1 \in 1..(n - 1) /\ 1 + 1 \in 1..n /\ 1 + 1 = 2
      BY <1>13
    <3>2. bits[1] = value[from + (1 + 1)] /\ value[from + (1 + 1)] = content[1 + 1]
      BY <1>12, <1>14, <3>1, Zenon
    <3> QED
      BY <1>8, <3>1, <3>2
  <2>2. ASSUME 8 \in usage PROVE bits[2] = 128
    <3>1. 2 \in 1..(n - 1) /\ 2 + 1 \in 1..n /\ 2 + 1 = 3
      BY <1>13, <2>2
    <3>2. bits[2] = value[from + (2 + 1)] /\ value[from + (2 + 1)] = content[2 + 1]
      BY <1>12, <1>14, <3>1, Zenon
    <3> QED
      BY <1>7, <1>8, <2>2, <3>1, <3>2
  <2> QED
    BY <1>13, <1>14, <2>1, <2>2
<1> DEFINE Set(b) == b \div 8 < Len(bits) /\ (bits[b \div 8 + 1] \div Mask(b)) % 2 = 1
<1>16. ASSUME NEW b \in 0..7 PROVE Set(b) <=> b \in usage
  <2>1. b \div 8 = 0 /\ 0 + 1 = 1 /\ 0 < Len(bits)
    BY <1>15
  <2>2. Set(b) <=> (first \div Mask(b)) % 2 = 1
    BY <1>15, <2>1
  <2>3. (first \div Mask(b)) % 2 = x(b)
    <3>1. b \in {0, 1, 2, 3, 4, 5, 6, 7}
      OBVIOUS
    <3> QED
      BY <1>6, <3>1, MasksAre, SMT
  <2>4. b \in 0..8
    OBVIOUS
  <2> HIDE DEF Set
  <2> QED
    BY <1>2, <2>2, <2>3, <2>4
<1>17. Set(8) <=> 8 \in usage
  <2>1. 8 \div 8 = 1 /\ 1 + 1 = 2
    OBVIOUS
  <2>2. CASE 8 \in usage
    <3>1. bits[2] = 128 /\ 1 < Len(bits) /\ (128 \div 128) % 2 = 1
      BY <1>15, <2>2, SMT
    <3> QED
      BY <2>1, <2>2, <3>1, MasksAre, SMT
  <2>3. CASE 8 \notin usage
    BY <1>15, <2>1, <2>3
  <2> QED
    BY <2>2, <2>3
<1>18. KeyUsage(value) = {b \in 0..8 : Set(b)}
  <2>1. ~(ReadTlv(value, 0) = Nothing \/ ReadTlv(value, 0).tag # BitString)
    BY <1>10, Zenon DEF tlv
  <2> QED
    BY <2>1, Zenon DEF KeyUsage, bits, tlv
<1> HIDE DEF Set
<1>19. {b \in 0..8 : Set(b)} = usage
  <2>1. ASSUME NEW b \in 0..8 PROVE Set(b) <=> b \in usage
    <3>1. b \in 0..7 \/ b = 8
      OBVIOUS
    <3> QED
      BY <1>16, <1>17, <3>1
  <2> QED
    BY <2>1
<1> QED
  BY <1>1, <1>18, <1>19, Zenon DEF value

Usages   == [kind : {"usage"}, usage : SUBSET (0..8)]
UsageInv == doc.kind = "usage" => doc \in Usages

LEMMA UsageInit == ReadersInit => UsageInv
BY DEF ReadersInit, UsageInv, Usages

LEMMA UsageNext == ASSUME KindInv, UsageInv, ReadersNext PROVE UsageInv'
<1>1. CASE doc.kind = "usage"
  BY <1>1 DEF ReadersNext, GrowTree, AddExtension, AddEntry, AddPiece, Grow
<1>2. CASE doc.kind # "usage"
  BY <1>2, KindNext, Zenon DEF UsageInv
<1> QED
  BY <1>1, <1>2

-----------------------------------------------------------------------------
(***************************************************************************)
(* Nodes that are written one behind the other, and read as the children   *)
(* of the TLV around them.                                                 *)
(***************************************************************************)
Written(d) == TLV(d.tag, d.content)

Fits(d) == d \in Nodes /\ Len(d.content) <= Max3

WrittenOf(ds) == [k \in 1..Len(ds) |-> Written(ds[k])]

IsCoded(b, ds) == ds \in Seq(Nodes) /\ IsRow(b, WrittenOf(ds)) /\ \A k \in 1..Len(ds) : Fits(ds[k])

IsKid(buf, t, d) ==
  /\ t # Nothing /\ t.tag = d.tag /\ t.from \in Nat /\ t.end = t.from + Len(d.content)
  /\ Content(buf, t) = d.content /\ Sits(d.content, buf, t.from)

AreKids(buf, kids, ds) ==
  /\ kids = [k \in 1..Len(ds) |-> kids[k]]
  /\ \A k \in 1..Len(ds) : IsKid(buf, kids[k], ds[k])

LEMMA WrittenIs ==
  ASSUME NEW d, Fits(d)
  PROVE  Written(d) \in Octets /\ Written(d) # <<>> /\ d.tag \in Nat /\ d.content \in Octets
<1>1. d.tag \in Nat /\ d.content \in Octets /\ Len(d.content) <= Max3
  <2>1. d.tag \in Nat /\ d.content \in Octets
    BY DEF Fits, Nodes
  <2> QED
    BY <2>1, Zenon DEF Fits
<1> QED
  BY <1>1, TlvIs, Zenon DEF Written

LEMMA WrittenIsRead ==
  ASSUME NEW d, Fits(d), NEW buf \in Octets, NEW i \in Nat, Sits(Written(d), buf, i)
  PROVE  IsKid(buf, ReadTlv(buf, i), d) /\ ReadTlv(buf, i) # Nothing /\ ReadTlv(buf, i).end = i + Len(Written(d))
<1> DEFINE tag == d.tag
           content == d.content
           t == Behold(tag, content, i)
<1>1. tag \in Nat /\ content \in Octets /\ Len(content) <= Max3
  BY WrittenIs, Zenon DEF Fits
<1>2. Sits(TLV(tag, content), buf, i)
  BY Zenon DEF Written
<1> HIDE DEF tag, content, t
<1>3. IsBeheld(buf, i, tag, content, t)
  BY <1>1, <1>2, TlvIsBeheld, Zenon DEF t
<1>4. ReadTlv(buf, i) = t /\ t # Nothing /\ t.tag = tag /\ t.from \in Nat /\ t.end = i + Len(TLV(tag, content))
      /\ t.end = t.from + Len(content) /\ Content(buf, t) = content /\ Sits(content, buf, t.from)
  BY <1>3, Zenon DEF IsBeheld
<1> QED
  BY <1>4, Zenon DEF IsKid, Written, tag, content

LEMMA CodedAreRead ==
  ASSUME NEW b, NEW ds, IsCoded(b, ds), NEW buf \in Octets, NEW tlv, tlv.from \in Nat,
         Sits(b, buf, tlv.from), tlv.end = tlv.from + Len(b)
  PROVE  AreKids(buf, Children(buf, tlv), ds)
<1> DEFINE items == WrittenOf(ds)
           m     == Len(ds)
           i     == tlv.from
<1>1. PICK c : Row(b, items, c)
  BY DEF IsCoded, IsRow
<1>2. m \in Nat /\ ds \in Seq(Nodes)
  BY DEF IsCoded
<1> HIDE DEF m, i
<1>3. Len(items) = m /\ \A k \in 1..m : items[k] = Written(ds[k])
  BY <1>2 DEF WrittenOf, m
<1> HIDE DEF items
<1>4. /\ b \in Octets /\ c \in [0..m -> Nat]
      /\ \A k \in 1..m : c[k] = c[k - 1] + Len(items[k]) /\ Sits(items[k], b, c[k - 1])
  BY <1>1, <1>3 DEF Row
<1>5. i + Len(b) <= Len(buf) /\ Shows(b, buf, i) /\ Len(b) \in Nat /\ Len(buf) \in Nat /\ i \in Nat
  BY <1>4 DEF Sits, Octets, i
<1>6. ASSUME NEW k \in 1..m
      PROVE  /\ items[k] # <<>> /\ IsKid(buf, ReadTlv(buf, i + c[k - 1]), ds[k])
             /\ ReadTlv(buf, i + c[k - 1]) # Nothing /\ ReadTlv(buf, i + c[k - 1]).end = i + c[k]
  <2>1. Fits(ds[k]) /\ items[k] = Written(ds[k])
    BY <1>3, Zenon DEF IsCoded, m
  <2>2. items[k] \in Octets /\ items[k] # <<>>
    BY <2>1, WrittenIs, Zenon
  <2>3. k - 1 \in 0..m /\ k \in 0..m
    BY <1>2
  <2>4. c[k - 1] \in Nat /\ c[k] = c[k - 1] + Len(items[k]) /\ Sits(items[k], b, c[k - 1]) /\ Len(items[k]) \in Nat
    <3>1. Len(items[k]) \in Nat
      BY <2>2 DEF Octets
    <3> QED
      BY <1>4, <2>3, <3>1
  <2>5. Shows(items[k], buf, i + c[k - 1])
    BY <1>4, <1>5, <2>2, <2>4, SitsWithin, Zenon
  <2>6. c[k - 1] + Len(items[k]) <= Len(b)
    BY <2>4, Zenon DEF Sits
  <2> DEFINE x == c[k - 1]  y == Len(items[k])  z == Len(b)  w == Len(buf)
  <2>7. (i + x) + y <= w /\ i + x \in Nat /\ (i + x) + y = i + c[k]
    <3>1. x \in Nat /\ y \in Nat /\ z \in Nat /\ w \in Nat /\ i \in Nat /\ x + y <= z /\ i + z <= w /\ c[k] = x + y
      BY <1>5, <2>4, <2>6, Zenon
    <3> HIDE DEF x, y, z, w
    <3> QED
      BY ONLY <3>1
  <2>8. Sits(Written(ds[k]), buf, i + c[k - 1]) /\ i + c[k - 1] \in Nat
    BY <2>1, <2>5, <2>7, Zenon DEF Sits
  <2>9. /\ IsKid(buf, ReadTlv(buf, i + c[k - 1]), ds[k]) /\ ReadTlv(buf, i + c[k - 1]) # Nothing
        /\ ReadTlv(buf, i + c[k - 1]).end = (i + c[k - 1]) + Len(Written(ds[k]))
    BY <2>1, <2>8, WrittenIsRead, Zenon
  <2> QED
    BY <2>1, <2>2, <2>7, <2>9, Zenon
<1>7. Readable(buf, items, c, tlv.from)
  BY <1>3, <1>6, Zenon DEF Readable, i
<1>8. Children(buf, tlv) = ReadAt(buf, items, c, tlv.from)
  BY <1>1, <1>7, ChildrenAre
<1>9. Children(buf, tlv) = [k \in 1..m |-> ReadTlv(buf, i + c[k - 1])]
  BY <1>3, <1>8, Zenon DEF ReadAt, i
<1> DEFINE kids == Children(buf, tlv)
<1> HIDE DEF kids
<1>10. kids = [k \in 1..m |-> ReadTlv(buf, i + c[k - 1])]
  BY <1>9 DEF kids
<1>11. kids = [k \in 1..m |-> kids[k]] /\ \A k \in 1..m : kids[k] = ReadTlv(buf, i + c[k - 1])
  BY <1>10
<1>12. \A k \in 1..m : IsKid(buf, kids[k], ds[k])
  BY <1>6, <1>11, Zenon
<1> QED
  BY <1>11, <1>12, Zenon DEF AreKids, m, kids

\* The same of a TLV that is itself one that was read.
LEMMA KidsAreRead ==
  ASSUME NEW d, NEW ds, IsCoded(d.content, ds), NEW buf \in Octets, NEW tlv, IsKid(buf, tlv, d)
  PROVE  AreKids(buf, Children(buf, tlv), ds)
<1> DEFINE b == d.content
<1>1. IsCoded(b, ds) /\ tlv.from \in Nat /\ Sits(b, buf, tlv.from) /\ tlv.end = tlv.from + Len(b)
  BY Zenon DEF IsKid
<1> HIDE DEF b
<1> QED
  BY <1>1, CodedAreRead

LEMMA CodedEmpty == IsCoded(<<>>, <<>>)
<1>1. WrittenOf(<<>>) = <<>> /\ <<>> \in Seq(Nodes) /\ Len(<<>>) = 0
  BY DEF WrittenOf
<1>2. \A k \in 1..Len(<<>>) : Fits(<<>>[k])
  BY <1>1
<1> QED
  BY <1>1, <1>2, RowEmpty, Zenon DEF IsCoded

LEMMA CodedGrows ==
  ASSUME NEW b, NEW ds, IsCoded(b, ds), NEW d, Fits(d)
  PROVE  IsCoded(b \o Written(d), Append(ds, d))
<1> DEFINE m    == Len(ds)
           more == Append(ds, d)
           item == Written(d)
           old  == WrittenOf(ds)
           new  == WrittenOf(more)
<1>1. ds \in Seq(Nodes) /\ IsRow(b, old) /\ m \in Nat /\ d \in Nodes /\ \A k \in 1..m : Fits(ds[k])
  <2>1. ds \in Seq(Nodes) /\ IsRow(b, old) /\ d \in Nodes /\ \A k \in 1..m : Fits(ds[k])
    BY Zenon DEF IsCoded, Fits
  <2> QED
    BY <2>1
<1>2. more \in Seq(Nodes) /\ Len(more) = m + 1 /\ more[m + 1] = d /\ \A k \in 1..m : more[k] = ds[k]
  BY <1>1, AppendProperties
<1>3. item \in Octets /\ \A k \in 1..m : Written(ds[k]) \in Octets
  BY <1>1, WrittenIs, Zenon
<1> HIDE DEF m, more, item
<1>4. old = [k \in 1..m |-> Written(ds[k])] /\ new = [k \in 1..(m + 1) |-> Written(more[k])]
  BY <1>2, Zenon DEF WrittenOf, m
<1> HIDE DEF old, new
<1>5. old \in Seq(Octets) /\ Len(old) = m
  BY <1>1, <1>3, <1>4
<1>6. DOMAIN new = 1..(m + 1) /\ Function(new)
  BY <1>4, Zenon DEF Function
<1>7. ASSUME NEW k \in 1..m PROVE new[k] = old[k]
  <2>1. k \in 1..(m + 1)
    BY <1>1
  <2> QED
    BY <1>2, <1>4, <2>1
<1>8. new[m + 1] = item
  <2>1. m + 1 \in 1..(m + 1)
    BY <1>1
  <2> QED
    BY <1>2, <1>4, <2>1 DEF item
<1>9. Append(old, item) = new
  BY <1>1, <1>3, <1>5, <1>6, <1>7, <1>8, AppendIs, Zenon
<1>10. IsRow(b \o item, new)
  BY <1>1, <1>3, <1>9, RowGrows, Zenon
<1>11. ASSUME NEW k \in 1..Len(more) PROVE Fits(more[k])
  <2>1. CASE k = m + 1
    BY <1>2, <2>1
  <2>2. CASE k # m + 1
    <3>1. k \in 1..m
      BY <1>1, <1>2, <2>2
    <3> QED
      BY <1>1, <1>2, <3>1, Zenon
  <2> QED
    BY <2>1, <2>2
<1> QED
  BY <1>2, <1>10, <1>11, Zenon DEF IsCoded, new, more, item

\* One more at the end.
More(s, x, a) == Len(a) = Len(s) + 1 /\ a[Len(s) + 1] = x /\ \A k \in 1..Len(s) : a[k] = s[k]

LEMMA AppendIsMore ==
  ASSUME NEW S, NEW s \in Seq(S), NEW x \in S
  PROVE  Append(s, x) \in Seq(S) /\ More(s, x, Append(s, x))
<1> DEFINE a == Append(s, x)
<1>1. a \in Seq(S) /\ Len(a) = Len(s) + 1 /\ a[Len(s) + 1] = x
  BY AppendProperties
<1>2. \A k \in 1..Len(s) : a[k] = s[k]
  BY AppendProperties
<1> QED
  BY <1>1, <1>2, Zenon DEF More

LEMMA AppendFew ==
  ASSUME NEW S, NEW d \in S, NEW e \in S, NEW f \in S
  PROVE  Append(<<>>, d) = <<d>> /\ Append(<<d>>, e) = <<d, e>> /\ Append(<<d, e>>, f) = <<d, e, f>>
<1>1. Append(<<>>, d) = <<d>>
  OBVIOUS
<1>2. Append(<<d>>, e) = <<d, e>>
  <2> DEFINE s == <<d>>
             a == Append(s, e)
             b == <<d, e>>
  <2>1. s \in Seq(S) /\ Len(s) = 1 /\ s[1] = d
    OBVIOUS
  <2>2. b \in Seq(S) /\ Len(b) = 2 /\ b[1] = d /\ b[2] = e
    OBVIOUS
  <2> HIDE DEF s, b
  <2>3. a \in Seq(S) /\ Len(a) = 2 /\ a[1] = d /\ a[2] = e
    BY <2>1, AppendProperties, SMTT(30)
  <2> HIDE DEF a
  <2>4. \A k \in 1..Len(a) : a[k] = b[k]
    <3>1. \A k \in 1..2 : k = 1 \/ k = 2
      OBVIOUS
    <3> QED
      BY <2>2, <2>3, <3>1
  <2>5. a = b
    BY <2>2, <2>3, <2>4, SeqEqual
  <2> QED
    BY <2>5 DEF s, a, b
<1>3. Append(<<d, e>>, f) = <<d, e, f>>
  <2> DEFINE s == <<d, e>>
             a == Append(s, f)
             b == <<d, e, f>>
  <2>1. s \in Seq(S) /\ Len(s) = 2 /\ s[1] = d /\ s[2] = e
    OBVIOUS
  <2>2. b \in Seq(S) /\ Len(b) = 3 /\ b[1] = d /\ b[2] = e /\ b[3] = f
    OBVIOUS
  <2> HIDE DEF s, b
  <2>3. a \in Seq(S) /\ Len(a) = 3 /\ a[1] = d /\ a[2] = e /\ a[3] = f
    <3>1. /\ a \in Seq(S) /\ Len(a) = Len(s) + 1 /\ a[Len(s) + 1] = f
          /\ \A k \in 1..Len(s) : a[k] = s[k]
      <4>1. a \in Seq(S) /\ More(s, f, a)
        BY <2>1, AppendIsMore, Zenon
      <4> HIDE DEF a
      <4> QED
        BY <4>1, Zenon DEF More
    <3> HIDE DEF a
    <3>2. 1 \in 1..2 /\ 2 \in 1..2 /\ 2 + 1 = 3
      OBVIOUS
    <3> QED
      BY <2>1, <3>1, <3>2, Zenon
  <2> HIDE DEF a
  <2>4. \A k \in 1..Len(a) : a[k] = b[k]
    <3>1. \A k \in 1..3 : k = 1 \/ k = 2 \/ k = 3
      OBVIOUS
    <3> QED
      BY <2>2, <2>3, <3>1
  <2>5. a = b
    BY <2>2, <2>3, <2>4, SeqEqual
  <2> QED
    BY <2>5 DEF s, a, b
<1> QED
  BY <1>1, <1>2, <1>3

LEMMA CodedFew ==
  ASSUME NEW d, Fits(d), NEW e, Fits(e), NEW f, Fits(f)
  PROVE  /\ IsCoded(Written(d), <<d>>)
         /\ IsCoded(Written(d) \o Written(e), <<d, e>>)
         /\ IsCoded((Written(d) \o Written(e)) \o Written(f), <<d, e, f>>)
         /\ IsCoded(Written(d) \o (Written(e) \o Written(f)), <<d, e, f>>)
<1> DEFINE a == Written(d)
           b == Written(e)
           c == Written(f)
<1>1. a \in Seq(Nat) /\ b \in Seq(Nat) /\ c \in Seq(Nat)
  BY WrittenIs, Zenon DEF Octets
<1>2. IsCoded(<<>> \o a, Append(<<>>, d))
  BY CodedEmpty, CodedGrows, Zenon
<1>3. <<>> \o a = a
  <2> HIDE DEF a
  <2> QED
    BY <1>1
<1>4. Append(<<>>, d) = <<d>> /\ Append(<<d>>, e) = <<d, e>> /\ Append(<<d, e>>, f) = <<d, e, f>>
  <2>1. d \in Nodes /\ e \in Nodes /\ f \in Nodes
    BY Zenon DEF Fits
  <2> QED
    BY <2>1, AppendFew, Zenon
<1>5. IsCoded(a, <<d>>)
  BY <1>2, <1>3, <1>4, Zenon
<1>6. IsCoded(a \o b, <<d, e>>)
  <2>1. IsCoded(a \o b, Append(<<d>>, e))
    <3> HIDE DEF a
    <3> QED
      BY <1>5, CodedGrows, Zenon
  <2> QED
    BY <1>4, <2>1, Zenon
<1>7. IsCoded((a \o b) \o c, <<d, e, f>>)
  <2> DEFINE ab == a \o b
             two == <<d, e>>
  <2>1. IsCoded(ab, two)
    BY <1>6
  <2> HIDE DEF ab, two
  <2>2. IsCoded(ab \o c, Append(two, f))
    BY <2>1, CodedGrows, Zenon
  <2> QED
    BY <1>4, <2>2, Zenon DEF ab, two
<1>8. (a \o b) \o c = a \o (b \o c)
  <2> HIDE DEF a, b, c
  <2> QED
    BY <1>1
<1> QED
  BY <1>5, <1>6, <1>7, <1>8, Zenon

-----------------------------------------------------------------------------
(***************************************************************************)
(* A certificate, as the nodes that it is written of.                      *)
(***************************************************************************)
Small(b) == b \in Octets /\ Len(b) <= Max3

LEMMA SmallTlv ==
  ASSUME NEW tag \in Nat, NEW content \in Octets, Small(TLV(tag, content))
  PROVE  Small(content)
<1> DEFINE m == Max3
           x == Len(content)
           y == Len(TLV(tag, content))
<1>1. x <= y /\ y <= m /\ TLV(tag, content) \in Octets
  BY TlvHolds, Zenon DEF Small
<1>2. x \in Nat /\ y \in Nat /\ m \in Nat
  BY <1>1, SMT DEF Octets, Max3
<1> HIDE DEF x, y, m
<1>3. x <= m
  BY <1>1, <1>2
<1> QED
  BY <1>3, Zenon DEF Small, x, m

LEMMA SmallParts ==
  ASSUME NEW a \in Octets, NEW b \in Octets, Small(a \o b)
  PROVE  Small(a) /\ Small(b)
<1> DEFINE m == Max3
           x == Len(a)
           y == Len(b)
<1>1. Len(a \o b) = x + y /\ x \in Nat /\ y \in Nat
  BY OctetsJoin, Zenon
<1>2. Len(a \o b) <= m
  BY Zenon DEF Small
<1>3. m \in Nat
  BY SMT DEF Max3
<1> HIDE DEF x, y, m
<1>4. x <= m /\ y <= m
  BY <1>1, <1>2, <1>3
<1> QED
  BY <1>4, Zenon DEF Small, x, y, m

LEMMA SmallIs ==
  ASSUME NEW b \in Octets, Len(b) <= 1000
  PROVE  Small(b)
<1>1. Len(b) \in Nat
  BY DEF Octets
<1> QED
  BY <1>1, SMT DEF Small, Max3

LEMMA SmallFits ==
  ASSUME NEW tag \in Nat, NEW content, Small(content)
  PROVE  Fits([tag |-> tag, content |-> content])
BY DEF Small, Fits, Nodes

\* What is small enough stays so.
LEMMA TlvAdds ==
  ASSUME NEW tag \in Nat, NEW content \in Octets, Len(content) <= 900
  PROVE  /\ TLV(tag, content) \in Octets /\ Len(TLV(tag, content)) <= Len(content) + 5
         /\ Len(TLV(tag, content)) \in Nat /\ Len(content) \in Nat
<1> DEFINE n == Len(content)
           b == TLV(tag, content)
<1>1. n \in Nat /\ n <= 900
  BY DEF Octets
<1>2. n <= Max3
  <2> HIDE DEF n
  <2> QED
    BY <1>1, SMT DEF Max3
<1>3. b \in Octets /\ Len(b) = (1 + Size(n)) + n /\ Size(n) \in 1..4
  BY <1>2, TlvIs, Zenon
<1> HIDE DEF n, b
<1>4. Len(b) <= n + 5 /\ Len(b) \in Nat
  BY <1>1, <1>3
<1> QED
  BY <1>1, <1>3, <1>4, Zenon DEF n, b

LEMMA TagsAre ==
  OID \in Nat /\ OctetString \in Nat /\ Boolean \in Nat /\ BitString \in Nat /\ Sequence \in Nat /\ ExtensionsField \in Nat
BY DEF OID, OctetString, Boolean, BitString, Sequence, ExtensionsField

\* The n-th extension.
OidNode(n)   == [tag |-> OID, content |-> <<85, 29, n>>]
FlagNode(e)  == [tag |-> Boolean, content |-> IF e.critical = "yes" THEN <<255>> ELSE <<0>>]
ValueNode(e) == [tag |-> OctetString, content |-> e.value]

Inside(n, e) ==
  IF e.critical = "absent" THEN Written(OidNode(n)) \o Written(ValueNode(e))
  ELSE Written(OidNode(n)) \o (Written(FlagNode(e)) \o Written(ValueNode(e)))

PartsOf(n, e) ==
  IF e.critical = "absent" THEN <<OidNode(n), ValueNode(e)>> ELSE <<OidNode(n), FlagNode(e), ValueNode(e)>>

ExtNode(n, e) == [tag |-> Sequence, content |-> Inside(n, e)]

LEMMA OidIs == ASSUME NEW n PROVE Oid(n).bytes = Written(OidNode(n))
BY DEF Oid, Primitive, Piece, Written, OidNode

LEMMA ExtensionOfIs ==
  ASSUME NEW n, NEW e
  PROVE  ExtensionOf(n, e).bytes = Written(ExtNode(n, e))
<1> DEFINE value == Primitive(OctetString, e.value)
           flag  == Primitive(Boolean, IF e.critical = "yes" THEN <<255>> ELSE <<0>>)
           rest  == IF e.critical = "absent" THEN value ELSE Beside(flag, value)
           inner == Beside(Oid(n), rest)
<1>1. value.bytes = Written(ValueNode(e)) /\ flag.bytes = Written(FlagNode(e))
  BY DEF Primitive, Piece, Written, ValueNode, FlagNode
<1>2. ExtensionOf(n, e) = Node(Sequence, inner)
  BY Zenon DEF ExtensionOf
<1> HIDE DEF value, flag
<1>3. rest.bytes = IF e.critical = "absent" THEN value.bytes ELSE flag.bytes \o value.bytes
  BY DEF Beside, Piece
<1> HIDE DEF rest
<1>4. inner.bytes = Oid(n).bytes \o rest.bytes
  BY DEF Beside, Piece
<1> HIDE DEF inner
<1>5. inner.bytes = Inside(n, e)
  BY <1>1, <1>3, <1>4, OidIs, Zenon DEF Inside
<1>6. Node(Sequence, inner).bytes = TLV(Sequence, inner.bytes)
  BY DEF Node, Piece
<1>7. Written(ExtNode(n, e)) = TLV(Sequence, Inside(n, e))
  BY DEF Written, ExtNode
<1> QED
  BY <1>2, <1>5, <1>6, <1>7, Zenon

LEMMA PartsFit ==
  ASSUME NEW n \in Nat, NEW e, e.value \in Octets
  PROVE  /\ Fits(OidNode(n)) /\ Fits(FlagNode(e))
         /\ Inside(n, e) \in Octets
         /\ Small(Inside(n, e)) => Fits(ValueNode(e)) /\ IsCoded(Inside(n, e), PartsOf(n, e))
<1> DEFINE flag == IF e.critical = "yes" THEN <<255>> ELSE <<0>>
           a == Written(OidNode(n))
           b == Written(FlagNode(e))
           c == Written(ValueNode(e))
<1>1. <<85, 29, n>> \in Octets /\ Len(<<85, 29, n>>) <= 1000 /\ flag \in Octets /\ Len(flag) <= 1000
  BY SMT DEF Octets
<1>2. Fits(OidNode(n)) /\ Fits(FlagNode(e))
  <2> HIDE DEF flag
  <2>1. Fits([tag |-> Boolean, content |-> flag])
    BY <1>1, SmallIs, SmallFits, TagsAre, Zenon
  <2>2. Fits([tag |-> OID, content |-> <<85, 29, n>>])
    <3> DEFINE oid == <<85, 29, n>>
    <3>1. oid \in Octets /\ Len(oid) <= 1000
      BY <1>1
    <3> HIDE DEF oid
    <3>2. Fits([tag |-> OID, content |-> oid])
      BY <3>1, SmallIs, SmallFits, TagsAre, Zenon
    <3> QED
      BY <3>2 DEF oid
  <2> QED
    BY <2>1, <2>2, Zenon DEF OidNode, FlagNode, flag
<1>3. c = TLV(OctetString, e.value)
  BY DEF Written, ValueNode
<1>4. a \in Octets /\ b \in Octets /\ c \in Octets
  BY <1>2, <1>3, WrittenIs, TlvHolds, TagsAre, Zenon
<1> HIDE DEF a, b, c
<1>5. b \o c \in Octets
  BY <1>4, OctetsJoin, Zenon
<1>6. a \o c \in Octets /\ a \o (b \o c) \in Octets
  BY <1>4, <1>5, OctetsJoin, Zenon
<1>7. Inside(n, e) = (IF e.critical = "absent" THEN a \o c ELSE a \o (b \o c)) /\ Inside(n, e) \in Octets
  BY <1>6, Zenon DEF Inside, a, b, c
<1>8. ASSUME Small(Inside(n, e)) PROVE Fits(ValueNode(e)) /\ IsCoded(Inside(n, e), PartsOf(n, e))
  <2>1. Small(c)
    <3>1. CASE e.critical = "absent"
      BY <1>4, <1>7, <1>8, <3>1, SmallParts, Zenon
    <3>2. CASE e.critical # "absent"
      <4>1. Small(b \o c)
        BY <1>4, <1>5, <1>7, <1>8, <3>2, SmallParts, Zenon
      <4> QED
        BY <1>4, <4>1, SmallParts, Zenon
    <3> QED
      BY <3>1, <3>2, Zenon
  <2>2. Small(e.value)
    BY <1>3, <2>1, SmallTlv, TagsAre, Zenon
  <2>3. Fits(ValueNode(e))
    BY <2>2, SmallFits, TagsAre, Zenon DEF ValueNode
  <2>4. IsCoded(a \o c, <<OidNode(n), ValueNode(e)>>)
    BY <1>2, <2>3, CodedFew, Zenon DEF a, c
  <2>5. IsCoded(a \o (b \o c), <<OidNode(n), FlagNode(e), ValueNode(e)>>)
    BY <1>2, <2>3, CodedFew, Zenon DEF a, b, c
  <2> QED
    BY <1>7, <2>3, <2>4, <2>5, Zenon DEF PartsOf
<1> QED
  BY <1>2, <1>7, <1>8, Zenon

\* An extension that is read gives its name and what it says.
IsExtension(buf, t, n, e) ==
  LET parts == Children(buf, t)
  IN /\ parts # <<>> /\ parts[1].tag = OID /\ Content(buf, parts[1]) = <<85, 29, n>>
     /\ Extension(buf, parts) = [critical |-> e.critical = "yes", value |-> e.value]

LEMMA ExtensionIsRead ==
  ASSUME NEW n \in Nat, NEW e, e.value \in Octets, Small(Inside(n, e)),
         NEW buf \in Octets, NEW t, IsKid(buf, t, ExtNode(n, e))
  PROVE  IsExtension(buf, t, n, e)
<1> DEFINE parts == Children(buf, t)
           ds    == PartsOf(n, e)
<1>1. IsCoded(Inside(n, e), ds)
  BY PartsFit, Zenon
<1>2. AreKids(buf, parts, ds)
  <2>1. ExtNode(n, e).content = Inside(n, e)
    BY DEF ExtNode
  <2> HIDE DEF ds
  <2> DEFINE d == ExtNode(n, e)
  <2>2. IsCoded(d.content, ds) /\ IsKid(buf, t, d)
    BY <1>1, <2>1, Zenon
  <2> HIDE DEF d
  <2> QED
    BY <2>2, KidsAreRead
<1> HIDE DEF parts
<1>3. CASE e.critical = "absent"
  <2>1. ds = <<OidNode(n), ValueNode(e)>>
    BY <1>3, Zenon DEF PartsOf
  <2>2. Len(ds) = 2 /\ ds[1] = OidNode(n) /\ ds[2] = ValueNode(e)
    BY <2>1
  <2> HIDE DEF ds
  <2>3. parts = [k \in 1..2 |-> parts[k]] /\ IsKid(buf, parts[1], OidNode(n)) /\ IsKid(buf, parts[2], ValueNode(e))
    <3>1. 1 \in 1..2 /\ 2 \in 1..2
      OBVIOUS
    <3> QED
      BY <1>2, <2>2, <3>1, Zenon DEF AreKids
  <2>4. Len(parts) = 2 /\ parts # <<>>
    <3>1. DOMAIN parts = 1..2 /\ 1 \in 1..2 /\ parts = [k \in 1..2 |-> parts[k]]
      BY <2>3
    <3>2. Len(parts) = 2
      BY <3>1, LenProperties
    <3> QED
      BY <3>1
  <2>5. parts[1].tag = OID /\ Content(buf, parts[1]) = <<85, 29, n>> /\ Content(buf, parts[2]) = e.value
    BY <2>3 DEF IsKid, OidNode, ValueNode
  <2>6. Extension(buf, parts) = [critical |-> FALSE, value |-> e.value]
    <3> DEFINE p == Len(parts) = 3 /\ U8(buf, parts[2].from) # 0
    <3>1. p = FALSE
      BY <2>4
    <3>2. Content(buf, Last(parts)) = e.value
      BY <2>4, <2>5, Zenon DEF Last
    <3>3. Extension(buf, parts) = [critical |-> p, value |-> Content(buf, Last(parts))]
      BY Zenon DEF Extension
    <3> QED
      BY <3>1, <3>2, <3>3, Zenon
  <2>7. (e.critical = "yes") = FALSE
    BY <1>3
  <2> QED
    BY <2>4, <2>5, <2>6, <2>7, Zenon DEF IsExtension, parts
<1>4. CASE e.critical # "absent"
  <2>1. ds = <<OidNode(n), FlagNode(e), ValueNode(e)>>
    BY <1>4, Zenon DEF PartsOf
  <2>2. Len(ds) = 3 /\ ds[1] = OidNode(n) /\ ds[2] = FlagNode(e) /\ ds[3] = ValueNode(e)
    BY <2>1
  <2> HIDE DEF ds
  <2>3. /\ parts = [k \in 1..3 |-> parts[k]] /\ IsKid(buf, parts[1], OidNode(n))
        /\ IsKid(buf, parts[2], FlagNode(e)) /\ IsKid(buf, parts[3], ValueNode(e))
    <3>1. 1 \in 1..3 /\ 2 \in 1..3 /\ 3 \in 1..3
      OBVIOUS
    <3> QED
      BY <1>2, <2>2, <3>1, Zenon DEF AreKids
  <2>4. Len(parts) = 3 /\ parts # <<>>
    <3>1. DOMAIN parts = 1..3 /\ 1 \in 1..3 /\ parts = [k \in 1..3 |-> parts[k]]
      BY <2>3
    <3>2. Len(parts) = 3
      BY <3>1, LenProperties
    <3> QED
      BY <3>1
  <2>5. parts[1].tag = OID /\ Content(buf, parts[1]) = <<85, 29, n>> /\ Content(buf, parts[3]) = e.value
    BY <2>3 DEF IsKid, OidNode, ValueNode
  <2> DEFINE flag == IF e.critical = "yes" THEN 255 ELSE 0
             from == parts[2].from
  <2>6. U8(buf, from) = flag
    <3>1. Sits(FlagNode(e).content, buf, from) /\ from \in Nat
      BY <2>3, Zenon DEF IsKid
    <3>2. FlagNode(e).content = <<flag>> /\ flag \in Nat
      BY DEF FlagNode
    <3> HIDE DEF flag, from
    <3>3. Sits(<<flag>>, buf, from)
      BY <3>1, <3>2, Zenon
    <3> QED
      BY <3>1, <3>2, <3>3, U8Sits
  <2>7. (U8(buf, from) # 0) = (e.critical = "yes")
    <3>1. CASE e.critical = "yes"
      BY <2>6, <3>1
    <3>2. CASE e.critical # "yes"
      BY <2>6, <3>2
    <3> QED
      BY <3>1, <3>2
  <2>8. Extension(buf, parts) = [critical |-> U8(buf, from) # 0, value |-> e.value]
    <3>1. (Len(parts) = 3 /\ U8(buf, from) # 0) = (U8(buf, from) # 0)
      BY <2>4, Zenon
    <3>2. Content(buf, Last(parts)) = e.value
      BY <2>4, <2>5, Zenon DEF Last
    <3>3. Extension(buf, parts) = [critical |-> Len(parts) = 3 /\ U8(buf, from) # 0, value |-> Content(buf, Last(parts))]
      BY Zenon DEF Extension
    <3> DEFINE p == Len(parts) = 3 /\ U8(buf, from) # 0
               q == U8(buf, from) # 0
    <3>4. p = q
      BY <3>1
    <3> QED
      BY <3>2, <3>3, <3>4, Zenon
  <2> QED
    BY <2>4, <2>5, <2>7, <2>8, Zenon DEF IsExtension, parts
<1> QED
  BY <1>3, <1>4, Zenon

NumberNode    == [tag |-> 2, content |-> Bytes(1)]
NameNode(n)   == [tag |-> Sequence, content |-> Written(OidNode(n))]
SignatureNode == [tag |-> BitString, content |-> Bytes(9)]
ListNode(b)   == [tag |-> Sequence, content |-> b]
AllNode(b)    == [tag |-> ExtensionsField, content |-> Written(ListNode(b))]

Lead == Written(NumberNode) \o Written(NameNode(99))
TbsContent(exts, b) == IF exts = <<>> THEN Lead ELSE Lead \o Written(AllNode(b))
TbsNode(exts, b)    == [tag |-> Sequence, content |-> TbsContent(exts, b)]

Body(exts, b)     == Written(TbsNode(exts, b)) \o (Written(NameNode(98)) \o Written(SignatureNode))
CertNode(exts, b) == [tag |-> Sequence, content |-> Body(exts, b)]

LEMMA CertificateIs ==
  ASSUME NEW d
  PROVE  CertificateOf(d) = Written(CertNode(d.extensions, d.list.bytes))
<1> DEFINE b      == d.list.bytes
           exts   == d.extensions
           number == Primitive(2, Bytes(1))
           name   == Node(Sequence, Oid(99))
           tbs    == Beside(number, name)
           list   == Node(Sequence, d.list)
           all    == Node(ExtensionsField, list)
           some   == IF exts = <<>> THEN tbs ELSE Beside(tbs, all)
           first  == Node(Sequence, some)
           second == Node(Sequence, Oid(98))
           third  == Primitive(BitString, Bytes(9))
           rest   == Beside(second, third)
           body   == Beside(first, rest)
<1>1. CertificateOf(d) = Node(Sequence, body).bytes
  BY Zenon DEF CertificateOf
<1>2. ASSUME NEW tag, NEW p PROVE Node(tag, p).bytes = TLV(tag, p.bytes)
  BY DEF Node, Piece
<1>3. ASSUME NEW p, NEW q PROVE Beside(p, q).bytes = p.bytes \o q.bytes
  BY DEF Beside, Piece
<1>4. number.bytes = Written(NumberNode) /\ third.bytes = Written(SignatureNode)
  BY DEF Primitive, Piece, Written, NumberNode, SignatureNode
<1>5. ASSUME NEW n PROVE Node(Sequence, Oid(n)).bytes = Written(NameNode(n))
  <2>1. Written(NameNode(n)) = TLV(Sequence, Written(OidNode(n)))
    BY DEF Written, NameNode
  <2> QED
    BY <1>2, <2>1, OidIs, Zenon
<1>14. name.bytes = Written(NameNode(99)) /\ second.bytes = Written(NameNode(98))
  BY <1>5
<1> HIDE DEF number, third, name, second
<1>6. list.bytes = Written(ListNode(b))
  <2>1. Written(ListNode(b)) = TLV(Sequence, b)
    BY DEF Written, ListNode
  <2> QED
    BY <1>2, <2>1, Zenon
<1> HIDE DEF list
<1>7. all.bytes = Written(AllNode(b))
  <2>1. Written(AllNode(b)) = TLV(ExtensionsField, Written(ListNode(b)))
    BY DEF Written, AllNode
  <2> QED
    BY <1>2, <1>6, <2>1, Zenon
<1> HIDE DEF all
<1>8. tbs.bytes = Lead
  <2>1. tbs.bytes = number.bytes \o name.bytes
    BY <1>3, Zenon
  <2>2. Lead = Written(NumberNode) \o Written(NameNode(99))
    BY DEF Lead
  <2> HIDE DEF tbs
  <2> QED
    BY <1>4, <1>14, <2>1, <2>2
<1> HIDE DEF tbs
<1>9. some.bytes = TbsContent(exts, b)
  <2>1. CASE exts = <<>>
    BY <1>8, <2>1, Zenon DEF TbsContent
  <2>2. CASE exts # <<>>
    BY <1>3, <1>7, <1>8, <2>2, Zenon DEF TbsContent
  <2> QED
    BY <2>1, <2>2
<1> HIDE DEF some
<1>10. first.bytes = Written(TbsNode(exts, b))
  <2>1. Written(TbsNode(exts, b)) = TLV(Sequence, TbsContent(exts, b))
    BY DEF Written, TbsNode
  <2> QED
    BY <1>2, <1>9, <2>1, Zenon
<1> HIDE DEF first
<1>11. rest.bytes = Written(NameNode(98)) \o Written(SignatureNode)
  <2>1. rest.bytes = second.bytes \o third.bytes
    BY <1>3, Zenon
  <2> HIDE DEF rest
  <2> QED
    BY <1>4, <1>14, <2>1
<1> HIDE DEF rest
<1>12. body.bytes = Body(exts, b)
  BY <1>3, <1>10, <1>11, Zenon DEF Body
<1> HIDE DEF body
<1>13. Written(CertNode(exts, b)) = TLV(Sequence, Body(exts, b))
  BY DEF Written, CertNode
<1> QED
  BY <1>1, <1>2, <1>12, <1>13, Zenon DEF exts, b

LEMMA PiecesFit ==
  /\ Fits(NumberNode) /\ Fits(NameNode(98)) /\ Fits(NameNode(99)) /\ Fits(SignatureNode)
  /\ Lead \in Octets /\ Len(Lead) <= 30
  /\ Len(Written(NameNode(98))) <= 20 /\ Len(Written(SignatureNode)) <= 20
<1>1. Bytes(1) \in Octets /\ Len(Bytes(1)) = 1 /\ Bytes(9) \in Octets /\ Len(Bytes(9)) = 9
  BY BytesAre
<1>2. ASSUME NEW n \in Nat
      PROVE  Fits(NameNode(n)) /\ Written(NameNode(n)) \in Octets /\ Len(Written(NameNode(n))) <= 20
  <2> DEFINE oid == <<85, 29, n>>
             b   == TLV(OID, oid)
             w   == TLV(Sequence, b)
  <2>1. oid \in Octets /\ Len(oid) = 3
    BY DEF Octets
  <2>2. Written(OidNode(n)) = b
    BY DEF Written, OidNode
  <2> HIDE DEF oid
  <2>3. Len(oid) <= 900
    BY <2>1
  <2>4. b \in Octets /\ Len(b) <= Len(oid) + 5 /\ Len(b) \in Nat
    BY <2>1, <2>3, TlvAdds, TagsAre, Zenon
  <2> HIDE DEF b
  <2>5. Len(b) <= 900 /\ Len(b) <= 1000
    BY <2>1, <2>4
  <2>6. w \in Octets /\ Len(w) <= Len(b) + 5 /\ Len(w) \in Nat
    BY <2>4, <2>5, TlvAdds, TagsAre, Zenon
  <2> HIDE DEF w
  <2>7. Len(w) <= 20
    BY <2>1, <2>4, <2>6
  <2>8. Written(NameNode(n)) = w
    <3>1. Written(NameNode(n)) = TLV(Sequence, Written(OidNode(n)))
      BY DEF Written, NameNode
    <3> QED
      BY <2>2, <3>1, Zenon DEF w
  <2>9. Fits(NameNode(n))
    <3>1. Fits([tag |-> Sequence, content |-> b])
      BY <2>4, <2>5, SmallIs, SmallFits, TagsAre, Zenon
    <3> QED
      BY <2>2, <3>1, Zenon DEF NameNode
  <2> QED
    BY <2>6, <2>7, <2>8, <2>9, Zenon
<1>3. Fits(NameNode(98)) /\ Fits(NameNode(99)) /\ Written(NameNode(99)) \in Octets
      /\ Len(Written(NameNode(99))) <= 20 /\ Len(Written(NameNode(98))) <= 20
  BY <1>2
<1>4. Fits(NumberNode) /\ Written(NumberNode) \in Octets /\ Len(Written(NumberNode)) <= 6
  <2> DEFINE one == Bytes(1)
  <2>1. Written(NumberNode) = TLV(2, one)
    BY DEF Written, NumberNode
  <2>2. one \in Octets /\ Len(one) = 1 /\ Len(one) <= 900 /\ Len(one) <= 1000 /\ 2 \in Nat
    BY <1>1
  <2> HIDE DEF one
  <2>3. TLV(2, one) \in Octets /\ Len(TLV(2, one)) <= Len(one) + 5 /\ Len(TLV(2, one)) \in Nat
    BY <2>2, TlvAdds, Zenon
  <2>4. Fits([tag |-> 2, content |-> one])
    BY <2>2, SmallIs, SmallFits, Zenon
  <2>5. Len(one) + 5 = 6
    BY <2>2
  <2> QED
    BY <2>1, <2>3, <2>4, <2>5, Zenon DEF NumberNode, one
<1>5. Fits(SignatureNode) /\ Len(Written(SignatureNode)) <= 20
  <2> DEFINE nine == Bytes(9)
             w == TLV(BitString, nine)
  <2>1. Written(SignatureNode) = w
    BY DEF Written, SignatureNode
  <2>2. nine \in Octets /\ Len(nine) = 9
    BY <1>1, Zenon
  <2> HIDE DEF nine
  <2>6. Len(nine) <= 900 /\ Len(nine) <= 1000
    BY <2>2
  <2>3. w \in Octets /\ Len(w) <= Len(nine) + 5 /\ Len(w) \in Nat
    BY <2>2, <2>6, TlvAdds, TagsAre, Zenon
  <2>4. Fits([tag |-> BitString, content |-> nine])
    BY <2>2, <2>6, SmallIs, SmallFits, TagsAre, Zenon
  <2> HIDE DEF w
  <2>5. Len(w) <= 20
    BY <2>2, <2>3
  <2> QED
    BY <2>1, <2>4, <2>5, Zenon DEF SignatureNode, nine
<1>6. Lead \in Octets /\ Len(Lead) <= 30
  <2> DEFINE x == Written(NumberNode)
             y == Written(NameNode(99))
  <2>1. x \o y \in Octets /\ Len(x \o y) = Len(x) + Len(y) /\ Len(x) \in Nat /\ Len(y) \in Nat
    BY <1>3, <1>4, OctetsJoin, Zenon
  <2>2. Len(x) <= 6 /\ Len(y) <= 20
    BY <1>3, <1>4
  <2> HIDE DEF x, y
  <2>3. Len(x \o y) <= 30
    BY <2>1, <2>2
  <2> QED
    BY <2>1, <2>3, Zenon DEF Lead, x, y
<1> QED
  BY <1>3, <1>4, <1>5, <1>6

LEMMA CertificateParts ==
  ASSUME NEW exts, NEW b \in Octets
  PROVE  /\ Written(ListNode(b)) \in Octets /\ Written(AllNode(b)) \in Octets
         /\ TbsContent(exts, b) \in Octets /\ Written(TbsNode(exts, b)) \in Octets
         /\ Written(NameNode(98)) \o Written(SignatureNode) \in Octets
         /\ Body(exts, b) \in Octets /\ Written(CertNode(exts, b)) \in Octets
<1> DEFINE list == Written(ListNode(b))
           all  == Written(AllNode(b))
           tbs  == TbsContent(exts, b)
           x    == Written(TbsNode(exts, b))
           y    == Written(NameNode(98))
           z    == Written(SignatureNode)
<1>1. list \in Octets
  <2>1. list = TLV(Sequence, b)
    BY DEF Written, ListNode
  <2> QED
    BY <2>1, TlvHolds, TagsAre, Zenon
<1>2. all \in Octets
  <2>1. all = TLV(ExtensionsField, list)
    BY DEF Written, AllNode
  <2> QED
    BY <1>1, <2>1, TlvHolds, TagsAre, Zenon
<1>3. tbs \in Octets
  BY <1>2, PiecesFit, OctetsJoin, Zenon DEF TbsContent
<1>4. x \in Octets
  <2>1. x = TLV(Sequence, tbs)
    BY DEF Written, TbsNode
  <2> QED
    BY <1>3, <2>1, TlvHolds, TagsAre, Zenon
<1>5. y \in Octets /\ z \in Octets
  BY PiecesFit, WrittenIs, Zenon
<1> HIDE DEF list, all, tbs, x, y, z
<1>6. y \o z \in Octets
  BY <1>5, OctetsJoin, Zenon
<1> DEFINE body == Body(exts, b)
<1>7. body \in Octets
  BY <1>4, <1>6, OctetsJoin, Zenon DEF Body, x, y, z
<1>8. Written(CertNode(exts, b)) = TLV(Sequence, body)
  BY DEF Written, CertNode
<1> HIDE DEF body
<1>9. Written(CertNode(exts, b)) \in Octets
  BY <1>7, <1>8, TlvHolds, TagsAre, Zenon
<1> QED
  BY <1>1, <1>2, <1>3, <1>4, <1>6, <1>7, <1>9, Zenon DEF list, all, tbs, x, y, z, body

LEMMA CertificateFits ==
  ASSUME NEW exts, NEW b \in Octets, Small(Written(CertNode(exts, b)))
  PROVE  /\ Written(CertNode(exts, b)) \in Octets /\ Fits(CertNode(exts, b)) /\ Fits(TbsNode(exts, b))
         /\ exts # <<>> => Fits(AllNode(b)) /\ Fits(ListNode(b)) /\ Small(b)
<1> DEFINE list == Written(ListNode(b))
           all  == Written(AllNode(b))
           tbs  == TbsContent(exts, b)
           x    == Written(TbsNode(exts, b))
           yz   == Written(NameNode(98)) \o Written(SignatureNode)
           body == Body(exts, b)
           cert == Written(CertNode(exts, b))
<1>1. /\ list \in Octets /\ all \in Octets /\ tbs \in Octets /\ x \in Octets
      /\ yz \in Octets /\ body \in Octets /\ cert \in Octets
  BY CertificateParts, Zenon
<1>2. list = TLV(Sequence, b) /\ all = TLV(ExtensionsField, list)
  BY DEF Written, ListNode, AllNode
<1>3. x = TLV(Sequence, tbs) /\ cert = TLV(Sequence, body)
  BY DEF Written, TbsNode, CertNode
<1>4. (exts # <<>> => tbs = Lead \o all) /\ body = x \o yz
  BY Zenon DEF TbsContent, Body
<1>5. CertNode(exts, b) = [tag |-> Sequence, content |-> body] /\ TbsNode(exts, b) = [tag |-> Sequence, content |-> tbs]
  BY Zenon DEF CertNode, TbsNode
<1>6. AllNode(b) = [tag |-> ExtensionsField, content |-> list] /\ ListNode(b) = [tag |-> Sequence, content |-> b]
  BY Zenon DEF AllNode, ListNode
<1>7. Small(cert)
  OBVIOUS
<1> HIDE DEF list, all, tbs, x, yz, body, cert
<1>8. Small(body)
  BY <1>1, <1>3, <1>7, SmallTlv, TagsAre, Zenon
<1>9. Small(x)
  BY <1>1, <1>4, <1>8, SmallParts, Zenon
<1>10. Small(tbs)
  BY <1>1, <1>3, <1>9, SmallTlv, TagsAre, Zenon
<1>11. Fits(CertNode(exts, b)) /\ Fits(TbsNode(exts, b))
  BY <1>5, <1>8, <1>10, SmallFits, TagsAre, Zenon
<1>12. ASSUME exts # <<>> PROVE Fits(AllNode(b)) /\ Fits(ListNode(b)) /\ Small(b)
  <2>1. Small(all)
    BY <1>1, <1>4, <1>10, <1>12, PiecesFit, SmallParts, Zenon
  <2>2. Small(list)
    BY <1>1, <1>2, <2>1, SmallTlv, TagsAre, Zenon
  <2>3. Small(b)
    BY <1>1, <1>2, <2>2, SmallTlv, TagsAre, Zenon
  <2> QED
    BY <1>6, <2>2, <2>3, SmallFits, TagsAre, Zenon
<1> QED
  BY <1>1, <1>11, <1>12, Zenon DEF cert

\* The certificate without an extension is small.
LEMMA CertificateIsSmall ==
  ASSUME NEW b
  PROVE  Small(Written(CertNode(<<>>, b)))
<1> DEFINE x    == Written(TbsNode(<<>>, b))
           y    == Written(NameNode(98))
           z    == Written(SignatureNode)
           body == Body(<<>>, b)
           cert == Written(CertNode(<<>>, b))
<1>1. x = TLV(Sequence, Lead)
  <2>1. TbsContent(<<>>, b) = Lead
    BY Zenon DEF TbsContent
  <2> QED
    BY <2>1 DEF Written, TbsNode
<1>2. cert = TLV(Sequence, body)
  BY DEF Written, CertNode
<1>3. body = x \o (y \o z)
  BY Zenon DEF Body
<1>4. Lead \in Octets /\ Len(Lead) <= 30 /\ Len(y) <= 20 /\ Len(z) <= 20 /\ y \in Octets /\ z \in Octets
  BY PiecesFit, WrittenIs
<1> HIDE DEF x, y, z, body, cert
<1>5. x \in Octets /\ Len(x) <= 35 /\ Len(x) \in Nat
  <2>1. Len(Lead) \in Nat /\ Len(Lead) <= 30 /\ Len(Lead) <= 900
    BY <1>4 DEF Octets
  <2>2. x \in Octets /\ Len(x) <= Len(Lead) + 5 /\ Len(x) \in Nat
    BY <1>1, <1>4, <2>1, TlvAdds, TagsAre, Zenon
  <2> QED
    BY <2>1, <2>2
<1>6. y \o z \in Octets /\ Len(y \o z) = Len(y) + Len(z) /\ Len(y) \in Nat /\ Len(z) \in Nat
  BY <1>4, OctetsJoin, Zenon
<1> DEFINE yz == y \o z
<1>7. yz \in Octets /\ Len(yz) <= 40 /\ Len(yz) \in Nat
  <2>1. Len(yz) = Len(y) + Len(z)
    BY <1>6, Zenon
  <2>2. yz \in Octets
    BY <1>6, Zenon
  <2> HIDE DEF yz
  <2> QED
    BY <1>4, <1>6, <2>1, <2>2
<1> HIDE DEF yz
<1>8. body \in Octets /\ Len(body) = Len(x) + Len(yz)
  BY <1>3, <1>5, <1>7, OctetsJoin, Zenon DEF yz
<1>9. Len(body) <= 900
  BY <1>5, <1>7, <1>8
<1>10. cert \in Octets /\ Len(cert) <= Len(body) + 5 /\ Len(cert) \in Nat /\ Len(body) \in Nat
  BY <1>2, <1>8, <1>9, TlvAdds, TagsAre, Zenon
<1>11. Len(cert) <= 1000
  BY <1>9, <1>10
<1> QED
  BY <1>10, <1>11, SmallIs, Zenon DEF cert

\* What is read of nodes by their number.
LEMMA FewKids ==
  ASSUME NEW buf, NEW kids, NEW d, NEW e, NEW f
  PROVE  /\ AreKids(buf, kids, <<d>>) => Len(kids) = 1 /\ kids # <<>> /\ IsKid(buf, kids[1], d)
         /\ AreKids(buf, kids, <<d, e>>) => Len(kids) = 2 /\ IsKid(buf, kids[1], d) /\ IsKid(buf, kids[2], e)
         /\ AreKids(buf, kids, <<d, e, f>>) => /\ Len(kids) = 3 /\ IsKid(buf, kids[1], d)
                                               /\ IsKid(buf, kids[2], e) /\ IsKid(buf, kids[3], f)
<1>1. ASSUME NEW ds, NEW m \in Nat, Len(ds) = m, AreKids(buf, kids, ds)
      PROVE  Len(kids) = m /\ \A k \in 1..m : IsKid(buf, kids[k], ds[k])
  <2>1. kids = [k \in 1..m |-> kids[k]] /\ \A k \in 1..m : IsKid(buf, kids[k], ds[k])
    BY <1>1, Zenon DEF AreKids
  <2>2. DOMAIN kids = 1..m
    BY <2>1
  <2>3. Len(kids) = m
    BY <2>2, LenProperties
  <2> QED
    BY <2>1, <2>3
<1>2. ASSUME AreKids(buf, kids, <<d>>) PROVE Len(kids) = 1 /\ kids # <<>> /\ IsKid(buf, kids[1], d)
  <2> DEFINE ds == <<d>>
  <2>1. Len(ds) = 1 /\ ds[1] = d
    OBVIOUS
  <2>2. AreKids(buf, kids, ds)
    BY <1>2
  <2> HIDE DEF ds
  <2>3. Len(kids) = 1 /\ \A k \in 1..1 : IsKid(buf, kids[k], ds[k])
    BY <1>1, <2>1, <2>2
  <2> QED
    BY <2>1, <2>3
<1>3. ASSUME AreKids(buf, kids, <<d, e>>) PROVE Len(kids) = 2 /\ IsKid(buf, kids[1], d) /\ IsKid(buf, kids[2], e)
  <2> DEFINE ds == <<d, e>>
  <2>1. Len(ds) = 2 /\ ds[1] = d /\ ds[2] = e
    OBVIOUS
  <2>2. AreKids(buf, kids, ds)
    BY <1>3
  <2> HIDE DEF ds
  <2>3. Len(kids) = 2 /\ \A k \in 1..2 : IsKid(buf, kids[k], ds[k])
    BY <1>1, <2>1, <2>2
  <2>4. 1 \in 1..2 /\ 2 \in 1..2
    OBVIOUS
  <2> QED
    BY <2>1, <2>3, <2>4, Zenon
<1>4. ASSUME AreKids(buf, kids, <<d, e, f>>)
      PROVE  Len(kids) = 3 /\ IsKid(buf, kids[1], d) /\ IsKid(buf, kids[2], e) /\ IsKid(buf, kids[3], f)
  <2> DEFINE ds == <<d, e, f>>
  <2>1. Len(ds) = 3 /\ ds[1] = d /\ ds[2] = e /\ ds[3] = f
    OBVIOUS
  <2>2. AreKids(buf, kids, ds)
    BY <1>4
  <2> HIDE DEF ds
  <2>3. Len(kids) = 3 /\ \A k \in 1..3 : IsKid(buf, kids[k], ds[k])
    BY <1>1, <2>1, <2>2
  <2>4. 1 \in 1..3 /\ 2 \in 1..3 /\ 3 \in 1..3
    OBVIOUS
  <2> QED
    BY <2>1, <2>3, <2>4, Zenon
<1> QED
  BY <1>2, <1>3, <1>4, Zenon

\* The extensions that were read, by their names.
ExtNodes(exts) == [k \in 1..Len(exts) |-> ExtNode(k, exts[k])]

Says(e) == [critical |-> e.critical = "yes", value |-> e.value]

ByName(exts) == [o \in {<<85, 29, n>> : n \in 1..Len(exts)} |-> Says(exts[o[3]])]

OidsOf(der, parts, named) == [k \in named |-> Content(der, parts[k][1])]

NamedOf(parts) == {k \in DOMAIN parts : parts[k] # <<>> /\ parts[k][1].tag = OID}

Gathered(der, parts, named, oid) ==
  [o \in {oid[k] : k \in named} |->
     Extension(der, parts[CHOOSE k \in named : oid[k] = o /\ \A j \in named : oid[j] = o => j <= k])]

LEMMA GatheredByName ==
  ASSUME NEW exts, Len(exts) \in Nat, NEW der \in Octets, NEW each, AreKids(der, each, ExtNodes(exts)),
         \A k \in 1..Len(exts) : exts[k].value \in Octets /\ Small(Inside(k, exts[k]))
  PROVE  LET parts == [k \in DOMAIN each |-> Children(der, each[k])]
             named == NamedOf(parts)
         IN Gathered(der, parts, named, OidsOf(der, parts, named)) = ByName(exts)
<1> DEFINE m     == Len(exts)
           ds    == ExtNodes(exts)
           parts == [k \in DOMAIN each |-> Children(der, each[k])]
           named == NamedOf(parts)
           oid   == OidsOf(der, parts, named)
<1>1. Len(ds) = m /\ \A k \in 1..m : ds[k] = ExtNode(k, exts[k])
  BY DEF ExtNodes
<1> HIDE DEF ds
<1>2. each = [k \in 1..m |-> each[k]] /\ \A k \in 1..m : IsKid(der, each[k], ds[k])
  BY <1>1, Zenon DEF AreKids, ds
<1> HIDE DEF m
<1>3. DOMAIN each = 1..m
  BY <1>2
<1>4. DOMAIN parts = 1..m /\ \A k \in 1..m : parts[k] = Children(der, each[k])
  BY <1>3
<1> HIDE DEF parts
<1>5. ASSUME NEW k \in 1..m
      PROVE  /\ parts[k] # <<>> /\ parts[k][1].tag = OID /\ Content(der, parts[k][1]) = <<85, 29, k>>
             /\ Extension(der, parts[k]) = Says(exts[k])
  <2>1. k \in Nat /\ exts[k].value \in Octets /\ Small(Inside(k, exts[k]))
    BY DEF m
  <2>2. IsKid(der, each[k], ExtNode(k, exts[k]))
    BY <1>1, <1>2, Zenon
  <2> DEFINE e == exts[k]
             t == each[k]
  <2>3. IsKid(der, t, ExtNode(k, e)) /\ e.value \in Octets /\ Small(Inside(k, e))
    BY <2>1, <2>2, Zenon
  <2> HIDE DEF e, t
  <2>4. IsExtension(der, t, k, e)
    BY <2>1, <2>3, ExtensionIsRead, Zenon
  <2>5. parts[k] = Children(der, t)
    BY <1>4, Zenon DEF t
  <2> QED
    BY <2>4, <2>5, Zenon DEF IsExtension, Says, e
<1>6. named = 1..m
  BY <1>4, <1>5, Zenon DEF NamedOf
<1> HIDE DEF named
<1>7. oid = [k \in 1..m |-> <<85, 29, k>>]
  <2>1. oid = [k \in 1..m |-> Content(der, parts[k][1])]
    BY <1>6, Zenon DEF OidsOf
  <2> QED
    BY <1>5, <2>1
<1> HIDE DEF oid
<1>8. \A k \in 1..m : oid[k] = <<85, 29, k>>
  BY <1>7
<1>9. {oid[k] : k \in named} = {<<85, 29, n>> : n \in 1..m}
  BY <1>6, <1>8
<1> DEFINE Pick(o) == CHOOSE k \in named : oid[k] = o /\ \A j \in named : oid[j] = o => j <= k
           names   == {<<85, 29, n>> : n \in 1..m}
<1>10. ASSUME NEW o \in names PROVE Pick(o) = o[3] /\ o[3] \in 1..m
  <2>1. PICK n \in 1..m : o = <<85, 29, n>>
    OBVIOUS
  <2>2. o[3] = n
    BY <2>1
  <2>3. ASSUME NEW k \in 1..m, oid[k] = o PROVE k = n
    <3>1. <<85, 29, k>>[3] = k
      OBVIOUS
    <3>2. <<85, 29, k>> = o
      BY <1>8, <2>3
    <3> QED
      BY <2>2, <3>1, <3>2
  <2>4. oid[n] = o
    BY <1>8, <2>1
  <2>5. \A j \in named : oid[j] = o => j <= n
    <3>1. ASSUME NEW j \in named, oid[j] = o PROVE j <= n
      <4>1. j = n
        BY <1>6, <2>3, <3>1
      <4>2. n <= n
        OBVIOUS
      <4> QED
        BY <4>1, <4>2
    <3> QED
      BY <3>1
  <2> DEFINE P(k) == oid[k] = o /\ \A j \in named : oid[j] = o => j <= k
  <2>6. n \in named /\ P(n)
    BY <1>6, <2>4, <2>5, Zenon
  <2>7. \A k \in named : P(k) => k = n
    BY <1>6, <2>3, Zenon
  <2> HIDE DEF P
  <2>8. (CHOOSE k \in named : P(k)) = n
    BY <2>6, <2>7, Zenon
  <2>9. Pick(o) = n
    BY <2>8, Zenon DEF P
  <2> QED
    BY <2>2, <2>9
<1>11. Gathered(der, parts, named, oid) = [o \in {oid[k] : k \in named} |-> Extension(der, parts[Pick(o)])]
  BY Zenon DEF Gathered
<1> HIDE DEF Pick, names
<1>12. \A o \in names : Extension(der, parts[Pick(o)]) = Says(exts[o[3]])
  BY <1>5, <1>10, Zenon
<1>13. {oid[k] : k \in named} = names
  BY <1>9 DEF names
<1>14. Gathered(der, parts, named, oid) = [o \in names |-> Says(exts[o[3]])]
  BY <1>11, <1>12, <1>13, Zenon
<1>15. ByName(exts) = [o \in names |-> Says(exts[o[3]])]
  BY Zenon DEF ByName, names, m
<1> QED
  BY <1>14, <1>15, Zenon DEF parts, named, oid

\* The fields of a certificate, and the list of extensions among them.
LEMMA TbsIsRead ==
  ASSUME NEW exts, NEW b \in Octets, Small(Written(CertNode(exts, b)))
  PROVE  LET der == Written(CertNode(exts, b))
         IN der \in Octets /\ Tbs(der) # Nothing /\ IsKid(der, Tbs(der), TbsNode(exts, b))
<1> DEFINE cert == CertNode(exts, b)
           der  == Written(cert)
           tbs  == TbsNode(exts, b)
           x    == NameNode(98)
           y    == SignatureNode
           top  == ReadTlv(der, 0)
           kids == Children(der, top)
<1>1. der \in Octets /\ Fits(cert) /\ Fits(tbs)
  BY CertificateFits, Zenon
<1>2. Fits(x) /\ Fits(y)
  BY PiecesFit, Zenon
<1>3. cert.content = Written(tbs) \o (Written(x) \o Written(y)) /\ cert.tag = Sequence
  BY DEF CertNode, Body
<1> HIDE DEF cert, tbs, x, y
<1>4. IsCoded(cert.content, <<tbs, x, y>>)
  BY <1>1, <1>2, <1>3, CodedFew, Zenon
<1>5. IsKid(der, top, cert) /\ top # Nothing
  <2>1. Sits(Written(cert), der, 0) /\ 0 \in Nat
    BY <1>1, SitsWhole
  <2> HIDE DEF der
  <2> QED
    BY <1>1, <2>1, WrittenIsRead, Zenon
<1> HIDE DEF der, top
<1> DEFINE ds == <<tbs, x, y>>
<1> HIDE DEF ds
<1>6. AreKids(der, kids, ds)
  BY <1>1, <1>4, <1>5, KidsAreRead DEF ds
<1> HIDE DEF kids
<1>7. AreKids(der, kids, <<tbs, x, y>>)
  BY <1>6, Zenon DEF ds
<1>8. Len(kids) = 3 /\ IsKid(der, kids[1], tbs)
  BY <1>7, FewKids, Zenon
<1>9. ~(Len(kids) < 2)
  BY <1>8
<1>10. top.tag = Sequence
  BY <1>3, <1>5, Zenon DEF IsKid
<1>11. Tbs(der) = kids[1]
  BY <1>5, <1>9, <1>10, Zenon DEF Tbs, top, kids
<1>12. kids[1] # Nothing
  BY <1>8, Zenon DEF IsKid
<1> QED
  BY <1>1, <1>8, <1>11, <1>12, Zenon DEF der, cert, tbs

LEMMA EachIsRead ==
  ASSUME NEW exts, NEW b \in Octets, Small(Written(CertNode(exts, b))), IsCoded(b, ExtNodes(exts)),
         NEW der \in Octets, NEW tbs, IsKid(der, tbs, TbsNode(exts, b))
  PROVE  LET fields == Children(der, tbs)
             field  == SelectInSeq(fields, LAMBDA f : f.tag = ExtensionsField)
             lists  == IF field = 0 THEN <<>> ELSE Children(der, fields[field])
             each   == IF lists = <<>> THEN <<>> ELSE Children(der, lists[1])
         IN AreKids(der, each, ExtNodes(exts))
<1> DEFINE fields == Children(der, tbs)
           found  == {i \in 1..Len(fields) : fields[i].tag = ExtensionsField}
           field  == SelectInSeq(fields, LAMBDA f : f.tag = ExtensionsField)
           lists  == IF field = 0 THEN <<>> ELSE Children(der, fields[field])
           each   == IF lists = <<>> THEN <<>> ELSE Children(der, lists[1])
           x      == NumberNode
           y      == NameNode(99)
           z      == AllNode(b)
           list   == ListNode(b)
           node   == TbsNode(exts, b)
<1>1. field = IF found # {} THEN Min(found) ELSE 0
  BY DEF SelectInSeq
<1>2. Fits(x) /\ Fits(y) /\ x.tag # ExtensionsField /\ y.tag # ExtensionsField /\ z.tag = ExtensionsField
  <2>1. Fits(x) /\ Fits(y)
    BY PiecesFit, Zenon
  <2>2. x.tag # ExtensionsField /\ y.tag # ExtensionsField /\ z.tag = ExtensionsField
    BY DEF NumberNode, NameNode, AllNode, Sequence, ExtensionsField
  <2> QED
    BY <2>1, <2>2
<1>3. IsKid(der, tbs, node) /\ node.content = TbsContent(exts, b)
  BY DEF TbsNode
<1>4. z.content = Written(list) /\ list.content = b
  BY DEF AllNode, ListNode
<1>5. Lead = Written(x) \o Written(y)
  BY DEF Lead
<1> HIDE DEF x, y, z, list, node
<1>6. CASE exts = <<>>
  <2> DEFINE ds == <<x, y>>
  <2>1. IsCoded(Lead, ds)
    BY <1>2, <1>5, CodedFew, Zenon
  <2> HIDE DEF ds
  <2>2. IsCoded(node.content, ds)
    BY <1>3, <1>6, <2>1, Zenon DEF TbsContent
  <2>3. AreKids(der, fields, ds)
    <3> HIDE DEF fields
    <3> QED
      BY <1>3, <2>2, KidsAreRead DEF fields
  <2> HIDE DEF fields
  <2>4. Len(fields) = 2 /\ IsKid(der, fields[1], x) /\ IsKid(der, fields[2], y)
    BY <2>3, FewKids, Zenon DEF ds
  <2>5. fields[1].tag # ExtensionsField /\ fields[2].tag # ExtensionsField
    BY <1>2, <2>4, Zenon DEF IsKid
  <2>6. found = {}
    <3>1. \A k \in 1..2 : k = 1 \/ k = 2
      OBVIOUS
    <3> QED
      BY <2>4, <2>5, <3>1
  <2> HIDE DEF field, found
  <2>7. field = 0
    BY <1>1, <2>6
  <2>8. lists = <<>>
    BY <2>7
  <2> HIDE DEF lists
  <2>9. each = <<>>
    BY <2>8
  <2> HIDE DEF each
  <2>10. ExtNodes(exts) = <<>>
    BY <1>6 DEF ExtNodes
  <2>11. AreKids(der, <<>>, <<>>)
    <3>1. <<>> = [k \in 1..Len(<<>>) |-> <<>>[k]]
      OBVIOUS
    <3>2. \A k \in 1..Len(<<>>) : IsKid(der, <<>>[k], <<>>[k])
      OBVIOUS
    <3> QED
      BY <3>1, <3>2 DEF AreKids
  <2>12. AreKids(der, each, ExtNodes(exts))
    BY <2>9, <2>10, <2>11, Zenon
  <2> QED
    BY <2>12, Zenon DEF each, lists, field, fields
<1>7. CASE exts # <<>>
  <2> DEFINE ds == <<x, y, z>>
  <2>1. Fits(z) /\ Fits(list)
    <3>1. Fits(AllNode(b)) /\ Fits(ListNode(b))
      BY <1>7, CertificateFits
    <3> QED
      BY <3>1, Zenon DEF z, list
  <2>2. IsCoded(Lead \o Written(z), ds)
    BY <1>2, <1>5, <2>1, CodedFew, Zenon
  <2> HIDE DEF ds
  <2>3. IsCoded(node.content, ds)
    BY <1>3, <1>7, <2>2, Zenon DEF TbsContent, z
  <2>4. AreKids(der, fields, ds)
    <3> HIDE DEF fields
    <3> QED
      BY <1>3, <2>3, KidsAreRead DEF fields
  <2> HIDE DEF fields
  <2>5. Len(fields) = 3 /\ IsKid(der, fields[1], x) /\ IsKid(der, fields[2], y) /\ IsKid(der, fields[3], z)
    BY <2>4, FewKids, Zenon DEF ds
  <2>6. fields[1].tag # ExtensionsField /\ fields[2].tag # ExtensionsField /\ fields[3].tag = ExtensionsField
    BY <1>2, <2>5, Zenon DEF IsKid
  <2>7. found = {3}
    <3>1. \A k \in 1..3 : k = 1 \/ k = 2 \/ k = 3
      OBVIOUS
    <3>2. 3 \in 1..3
      OBVIOUS
    <3> QED
      BY <2>5, <2>6, <3>1, <3>2
  <2>8. Min({3}) = 3
    <3>1. 3 \in {3} /\ (\A n \in {3} : 3 <= n) /\ \A n \in {3} : n = 3
      OBVIOUS
    <3> QED
      BY <3>1 DEF Min
  <2> HIDE DEF field, found
  <2>9. field = 3
    BY <1>1, <2>7, <2>8
  <2> DEFINE third == fields[3]
             kids  == Children(der, third)
  <2>10. lists = kids
    BY <2>9
  <2> DEFINE one == <<list>>
  <2>11. IsCoded(z.content, one)
    BY <1>4, <2>1, CodedFew, Zenon
  <2>12. IsKid(der, third, z)
    BY <2>5
  <2> HIDE DEF one, third, lists
  <2>13. AreKids(der, kids, one)
    BY <2>11, <2>12, KidsAreRead
  <2> HIDE DEF kids
  <2>14. kids # <<>> /\ IsKid(der, kids[1], list)
    BY <2>13, FewKids, Zenon DEF one
  <2> DEFINE first == kids[1]
             nodes == ExtNodes(exts)
  <2>15. each = Children(der, first)
    BY <2>10, <2>14
  <2>16. IsCoded(list.content, nodes) /\ IsKid(der, first, list)
    BY <1>4, <2>14, Zenon
  <2> HIDE DEF each, first, nodes
  <2>17. AreKids(der, Children(der, first), nodes)
    BY <2>16, KidsAreRead
  <2>18. AreKids(der, each, ExtNodes(exts))
    BY <2>15, <2>17, Zenon DEF nodes
  <2> QED
    BY <2>18, Zenon DEF each, lists, field, fields
<1> QED
  BY <1>6, <1>7, Zenon

LEMMA CertificateIsRead ==
  ASSUME NEW exts, Len(exts) \in Nat, NEW b \in Octets, Small(Written(CertNode(exts, b))),
         IsCoded(b, ExtNodes(exts)),
         \A k \in 1..Len(exts) : exts[k].value \in Octets /\ Small(Inside(k, exts[k]))
  PROVE  Extensions(Written(CertNode(exts, b))) = ByName(exts)
<1> DEFINE der    == Written(CertNode(exts, b))
           tbs    == Tbs(der)
           Field(fields) == SelectInSeq(fields, LAMBDA f : f.tag = ExtensionsField)
           Lists(fields) == IF Field(fields) = 0 THEN <<>> ELSE Children(der, fields[Field(fields)])
           Each(lists)   == IF lists = <<>> THEN <<>> ELSE Children(der, lists[1])
           Parts(each)   == [k \in DOMAIN each |-> Children(der, each[k])]
           Result(each)  == Gathered(der, Parts(each), NamedOf(Parts(each)),
                                     OidsOf(der, Parts(each), NamedOf(Parts(each))))
           all    == IF tbs = Nothing THEN <<>> ELSE Children(der, tbs)
           fields == Children(der, tbs)
           each   == Each(Lists(fields))
<1>1. der \in Octets /\ tbs # Nothing /\ IsKid(der, tbs, TbsNode(exts, b))
  BY TbsIsRead, Zenon
<1>2. Extensions(der) = Result(Each(Lists(all)))
  BY Zenon DEF Extensions, LastOfEachName, Gathered, OidsOf, NamedOf
<1>3. all = fields
  BY <1>1, Zenon
<1>4. AreKids(der, each, ExtNodes(exts))
  <2> HIDE DEF der, tbs
  <2> QED
    BY <1>1, EachIsRead, Zenon DEF der
<1> HIDE DEF der, Each, Lists, Result, all, fields, each
<1>5. Extensions(der) = Result(each)
  BY <1>2, <1>3, Zenon DEF each
<1>6. Result(each) = ByName(exts)
  BY <1>1, <1>4, GatheredByName, Zenon DEF Result
<1> QED
  BY <1>5, <1>6, Zenon DEF der

LEMMA ValuesAre ==
  ASSUME NEW e \in CertificateExtensions
  PROVE  e.value \in Octets
<1> DEFINE stamps == P2(P2(Bytes(119)))
           first  == Mask(0) + 0 + 0 + 0 + 0 + Mask(5) + 0 + 0
           bits   == <<0, first>>
           many   == Bytes(130)
<1>1. stamps \in Octets /\ many \in Octets
  <2>1. Bytes(119) \in Octets /\ Bytes(130) \in Octets
    BY BytesAre
  <2> QED
    BY <2>1, PrefixedAre, Zenon
<1>2. bits \in Octets
  <2>1. first \in Nat
    BY MasksAre, SMT
  <2> HIDE DEF first
  <2> QED
    BY <2>1 DEF Octets
<1>3. SctList(P2(Bytes(119))) = TLV(OctetString, stamps)
  BY Zenon DEF SctList
<1>4. UsageBits({0, 5}) = TLV(BitString, bits)
  BY SMT DEF UsageBits
<1> HIDE DEF stamps, first, bits, many
<1>5. TLV(OctetString, stamps) \in Octets /\ TLV(BitString, bits) \in Octets /\ TLV(Sequence, many) \in Octets
  BY <1>1, <1>2, TlvHolds, TagsAre, Zenon
<1>6. <<>> \in Octets
  BY DEF Octets
<1>7. e.value \in {SctList(P2(Bytes(119))), UsageBits({0, 5}), TLV(Sequence, many), <<>>}
  BY DEF CertificateExtensions, many
<1> QED
  BY <1>3, <1>4, <1>5, <1>6, <1>7, Zenon

LEMMA ExtNodesGrow ==
  ASSUME NEW exts \in Seq(CertificateExtensions), NEW e \in CertificateExtensions,
         ExtNodes(exts) \in Seq(Nodes), ExtNode(Len(exts) + 1, e) \in Nodes
  PROVE  ExtNodes(Append(exts, e)) = Append(ExtNodes(exts), ExtNode(Len(exts) + 1, e))
<1> DEFINE m    == Len(exts)
           more == Append(exts, e)
           old  == ExtNodes(exts)
           new  == ExtNodes(more)
           item == ExtNode(m + 1, e)
<1>1. m \in Nat /\ Len(more) = m + 1 /\ more[m + 1] = e /\ \A k \in 1..m : more[k] = exts[k]
  BY AppendProperties
<1>2. old = [k \in 1..m |-> ExtNode(k, exts[k])] /\ new = [k \in 1..(m + 1) |-> ExtNode(k, more[k])]
  BY <1>1, Zenon DEF ExtNodes
<1> HIDE DEF more, old, new, m
<1>3. Len(old) = m
  BY <1>1, <1>2
<1>4. DOMAIN new = 1..(m + 1) /\ Function(new)
  BY <1>2, Zenon DEF Function
<1>5. ASSUME NEW k \in 1..m PROVE new[k] = old[k]
  <2>1. k \in 1..(m + 1)
    BY <1>1
  <2> QED
    BY <1>1, <1>2, <2>1
<1>6. new[m + 1] = item
  <2>1. m + 1 \in 1..(m + 1)
    BY <1>1
  <2> QED
    BY <1>1, <1>2, <2>1
<1>7. item \in Nodes /\ old \in Seq(Nodes)
  BY DEF item, old, m
<1> HIDE DEF item
<1>8. Append(old, item) = new
  BY <1>1, <1>3, <1>4, <1>5, <1>6, <1>7, AppendIsIn
<1> QED
  BY <1>8 DEF new, more, old, item, m

\* A certificate says what its list of extensions is written of.
IsCertificate(exts, b) ==
  /\ exts \in Seq(CertificateExtensions) /\ b \in Octets
  /\ IsCoded(b, ExtNodes(exts)) /\ Small(Written(CertNode(exts, b)))
  /\ \A k \in 1..Len(exts) : exts[k].value \in Octets /\ Small(Inside(k, exts[k]))

LEMMA CertificateEmpty == IsCertificate(<<>>, <<>>)
<1>1. <<>> \in Seq(CertificateExtensions) /\ <<>> \in Octets /\ Len(<<>>) = 0
  BY DEF Octets
<1>2. ExtNodes(<<>>) = <<>>
  BY DEF ExtNodes
<1>3. \A k \in 1..Len(<<>>) : <<>>[k].value \in Octets /\ Small(Inside(k, <<>>[k]))
  BY <1>1
<1> QED
  BY <1>1, <1>2, <1>3, CodedEmpty, CertificateIsSmall, Zenon DEF IsCertificate

LEMMA CertificateGrows ==
  ASSUME NEW exts, NEW b, IsCertificate(exts, b), NEW e \in CertificateExtensions, NEW new,
         new = Written(CertNode(Append(exts, e), b \o Written(ExtNode(Len(exts) + 1, e)))), Len(new) <= Max3
  PROVE  IsCertificate(Append(exts, e), b \o Written(ExtNode(Len(exts) + 1, e)))
<1> DEFINE m    == Len(exts)
           n    == m + 1
           more == Append(exts, e)
           node == ExtNode(n, e)
           item == Written(node)
           list == b \o item
           in   == Inside(n, e)
<1>1. /\ exts \in Seq(CertificateExtensions) /\ b \in Octets /\ IsCoded(b, ExtNodes(exts))
      /\ \A k \in 1..m : exts[k].value \in Octets /\ Small(Inside(k, exts[k]))
  BY Zenon DEF IsCertificate
<1>2. m \in Nat /\ n \in Nat
  BY <1>1
<1>3. /\ more \in Seq(CertificateExtensions) /\ Len(more) = n /\ more[n] = e /\ more # <<>>
      /\ \A k \in 1..m : more[k] = exts[k]
  BY <1>1, AppendProperties
<1>4. e.value \in Octets
  BY ValuesAre
<1>5. item = TLV(Sequence, in) /\ node = [tag |-> Sequence, content |-> in]
  BY DEF Written, ExtNode
<1>6. new = Written(CertNode(more, list))
  OBVIOUS
<1> HIDE DEF m, more, item, list, in
<1>7. in \in Octets
  BY <1>2, <1>4, PartsFit, Zenon DEF in
<1>8. item \in Octets
  BY <1>5, <1>7, TlvHolds, TagsAre, Zenon
<1>9. list \in Octets
  BY <1>1, <1>8, OctetsJoin, Zenon DEF list
<1>10. Small(new)
  BY <1>6, <1>9, CertificateParts, ZenonT(30) DEF Small
<1>11. Small(list)
  BY <1>3, <1>6, <1>9, <1>10, CertificateFits
<1>12. Small(item)
  BY <1>1, <1>8, <1>11, SmallParts, Zenon DEF list
<1>13. Small(in)
  BY <1>5, <1>7, <1>12, SmallTlv, TagsAre, Zenon
<1>14. Fits(node)
  BY <1>5, <1>13, SmallFits, TagsAre, Zenon
<1>15. IsCoded(list, Append(ExtNodes(exts), node))
  <2> HIDE DEF node
  <2> QED
    BY <1>1, <1>14, CodedGrows, Zenon DEF list, item
<1>16. ExtNodes(more) = Append(ExtNodes(exts), node)
  <2>1. ExtNodes(exts) \in Seq(Nodes) /\ node \in Nodes
    BY <1>1, <1>14, Zenon DEF IsCoded, Fits
  <2> QED
    BY <1>1, <2>1, ExtNodesGrow, Zenon DEF more, m
<1>17. ASSUME NEW k \in 1..n PROVE more[k].value \in Octets /\ Small(Inside(k, more[k]))
  <2>1. CASE k = n
    BY <1>3, <1>4, <1>13, <2>1, Zenon DEF in
  <2>2. CASE k # n
    <3>1. k \in 1..m
      BY <1>2, <2>2
    <3> QED
      BY <1>1, <1>3, <3>1, Zenon
  <2> QED
    BY <2>1, <2>2
<1>18. IsCertificate(more, list)
  BY <1>3, <1>6, <1>9, <1>10, <1>15, <1>16, <1>17, Zenon DEF IsCertificate
<1> QED
  BY <1>18, Zenon DEF more, list, item, m

IsCertDoc(d) == d = [kind |-> d.kind, extensions |-> d.extensions, list |-> d.list]
CertInv == doc.kind = "certificate" => IsCertDoc(doc) /\ IsCertificate(doc.extensions, doc.list.bytes)

LEMMA CertInit == ReadersInit => CertInv
<1> SUFFICES ASSUME ReadersInit, doc.kind = "certificate"
             PROVE  IsCertDoc(doc) /\ IsCertificate(doc.extensions, doc.list.bytes)
  BY DEF CertInv
<1>1. doc \in [kind : {"certificate"}, extensions : {<<>>}, list : {Empty}]
  BY DEF ReadersInit
<1>2. IsCertDoc(doc) /\ doc.extensions = <<>> /\ doc.list = Empty
  BY <1>1 DEF IsCertDoc
<1>3. Empty.bytes = <<>>
  BY DEF Empty, Piece
<1> QED
  BY <1>2, <1>3, CertificateEmpty, Zenon

LEMMA CertNext == ASSUME KindInv, CertInv, ReadersNext PROVE CertInv'
<1>1. ASSUME doc.kind # "certificate" PROVE CertInv'
  BY <1>1, KindNext, Zenon DEF CertInv
<1>2. ASSUME doc.kind = "certificate" PROVE CertInv'
  <2> DEFINE exts == doc.extensions
             list == doc.list
             b    == list.bytes
             n    == Len(exts) + 1
             Longer(e) == [doc EXCEPT !.extensions = Append(@, e), !.list = Beside(@, ExtensionOf(n, e))]
  <2>1. PICK e \in CertificateExtensions : Len(CertificateOf(Longer(e))) <= Max3 /\ doc' = Longer(e)
    <3>1. AddExtension
      BY <1>2 DEF ReadersNext, GrowTree, AddEntry, AddPiece, Grow
    <3> QED
      BY <1>2, <3>1, Zenon DEF AddExtension, Grow
  <2>2. IsCertDoc(doc) /\ IsCertificate(exts, b)
    BY <1>2, Zenon DEF CertInv
  <2> DEFINE more == Append(exts, e)
             new  == Beside(list, ExtensionOf(n, e))
             all  == b \o Written(ExtNode(n, e))
  <2>3. new.bytes = all
    <3>1. new.bytes = list.bytes \o ExtensionOf(n, e).bytes
      BY DEF Beside, Piece
    <3> QED
      BY <3>1, ExtensionOfIs, Zenon
  <2>4. doc' = [doc EXCEPT !.extensions = more, !.list = new]
    BY <2>1, <2>2 DEF IsCertDoc
  <2> HIDE DEF more, new, all
  <2>5. IsCertDoc(doc') /\ doc'.extensions = more /\ doc'.list = new /\ doc'.kind = "certificate"
    BY <1>2, <2>2, <2>4 DEF IsCertDoc
  <2>6. Len(CertificateOf(doc')) <= Max3
    BY <2>1
  <2>7. CertificateOf(doc') = Written(CertNode(more, all))
    BY <2>3, <2>5, CertificateIs, Zenon
  <2>8. IsCertificate(more, all)
    <3> HIDE DEF exts, list, b, n
    <3> QED
      BY <2>2, <2>6, <2>7, CertificateGrows, Zenon DEF more, all, n
  <2> QED
    BY <2>3, <2>5, <2>8, Zenon DEF CertInv
<1> QED
  BY <1>1, <1>2, Zenon

\* Such a certificate is read back as its extensions.
LEMMA CertificateIsReadBack ==
  ASSUME NEW d, IsCertificate(d.extensions, d.list.bytes)
  PROVE  CertificateReadsBack(d)
<1> DEFINE exts == d.extensions
           b    == d.list.bytes
<1>1. /\ exts \in Seq(CertificateExtensions) /\ b \in Octets
      /\ IsCoded(b, ExtNodes(exts)) /\ Small(Written(CertNode(exts, b)))
      /\ \A k \in 1..Len(exts) : exts[k].value \in Octets /\ Small(Inside(k, exts[k]))
  BY Zenon DEF IsCertificate
<1>2. CertificateOf(d) = Written(CertNode(exts, b))
  BY CertificateIs, Zenon
<1> HIDE DEF exts, b
<1>3. Len(exts) \in Nat /\ DOMAIN exts = 1..Len(exts)
  BY <1>1
<1>4. Extensions(Written(CertNode(exts, b))) = ByName(exts)
  BY <1>1, <1>3, CertificateIsRead
<1>5. ByName(exts) = [o \in {<<85, 29, n>> : n \in DOMAIN exts} |->
                        [critical |-> exts[o[3]].critical = "yes", value |-> exts[o[3]].value]]
  BY <1>3, Zenon DEF ByName, Says
<1> QED
  BY <1>2, <1>4, <1>5, Zenon DEF CertificateReadsBack, exts

(***************************************************************************)
(* A tree of DER whose lengths take at most three bytes is read node by    *)
(* node, however many children its nodes have and however deep they are,   *)
(* refused when it is cut short, and read up to the child that is not      *)
(* whole when the content of a node is; a certificate gives its            *)
(* extensions, a list of timestamps their number and a key usage its bits  *)
(* (asn1.js: readTlv, childrenOf, walk, certificateExtensions, countSct    *)
(* and decodeKeyUsage).                                                    *)
(***************************************************************************)
THEOREM DocumentsAlwaysReadBack == ReadersSpec => []DocumentsReadBack
<1> DEFINE Inv == KindInv /\ TreeInv /\ CertInv /\ SctInv /\ UsageInv
<1>1. ReadersInit => Inv
  BY KindInit, TreeInit, CertInit, SctInit, UsageInit, Zenon
<1>2. Inv /\ [ReadersNext]_readersVars => Inv'
  <2> SUFFICES ASSUME Inv, [ReadersNext]_readersVars PROVE Inv'
    OBVIOUS
  <2>1. CASE ReadersNext
    BY <2>1, KindNext, TreeNext, CertNext, SctNext, UsageNext, Zenon
  <2>2. CASE UNCHANGED readersVars
    BY <2>2 DEF readersVars, KindInv, TreeInv, CertInv, SctInv, UsageInv, IsSctList
  <2> QED
    BY <2>1, <2>2
<1>3. Inv => DocumentsReadBack
  <2> SUFFICES ASSUME Inv PROVE DocumentsReadBack
    OBVIOUS
  <2>1. CASE doc.kind = "tree"
    <3> DEFINE node == Last(doc.open)
    <3>1. node \in Opens /\ IsOpen(node)
      BY <2>1, OpenRest, Zenon DEF TreeInv
    <3>2. node.levels \in 1..MaxDepth
      BY <3>1 DEF Opens
    <3>3. NodeReadsBack(node.inner)
      BY <3>1, <3>2, NodeIsReadBack, Zenon DEF IsOpen
    <3> QED
      BY <2>1, <3>3 DEF DocumentsReadBack
  <2>2. CASE doc.kind = "certificate"
    <3>1. CertificateReadsBack(doc)
      BY <2>2, CertificateIsReadBack, Zenon DEF CertInv
    <3> QED
      BY <2>2, <3>1 DEF DocumentsReadBack
  <2>3. CASE doc.kind = "scts"
    <3>1. doc \in Scts /\ IsSctList(doc.list, doc.count)
      BY <2>3, Zenon DEF SctInv
    <3>2. doc.count \in Nat
      BY <3>1 DEF Scts
    <3>3. CountSct(SctList(doc.list)) = IF doc.count > 65 THEN 65 ELSE doc.count
      BY <3>1, <3>2, SctsAreCounted, Zenon
    <3> QED
      BY <2>3, <3>3 DEF DocumentsReadBack
  <2>4. CASE doc.kind = "usage"
    <3>1. doc.usage \in SUBSET (0..8)
      BY <2>4 DEF UsageInv, Usages
    <3>2. KeyUsage(UsageBits(doc.usage)) = doc.usage
      BY <3>1, UsageIsRead, Zenon
    <3> QED
      BY <2>4, <3>2 DEF DocumentsReadBack
  <2>5. CASE doc.kind \notin {"tree", "certificate", "scts", "usage"}
    BY <2>5 DEF DocumentsReadBack
  <2> QED
    BY <2>1, <2>2, <2>3, <2>4, <2>5
<1> QED
  BY <1>1, <1>2, <1>3, PTL DEF ReadersSpec

\* What is read is what was encoded, of documents and of messages (the readers of
\* asn1.js and tls-probe.js), whatever they are and however far they have grown.
THEOREM EncodedReadsBack == ReadersSpec => []ReadsBack
<1>1. DocumentsReadBack /\ MessagesReadBack => ReadsBack
  BY DEF ReadsBack
<1> QED
  BY <1>1, DocumentsAlwaysReadBack, MessagesAlwaysReadBack, PTL

-----------------------------------------------------------------------------
(***************************************************************************)
(* Targets.                                                                *)
(***************************************************************************)
LEMMA DigitsOfPort ==
  ASSUME NEW port \in AllowedPorts
  PROVE  Digits(port) \in DOMAIN Number /\ Number[Digits(port)] = port
<1>1. \E p \in DOMAIN Number : Number[p] = port
  BY DEF AllowedPorts, Number
<1> QED
  BY <1>1 DEF Digits

\* What is scanned: a host that one of the patterns accepts, at an allowed port.
LEMMA TargetIs ==
  ASSUME NEW text, NEW words, text.pieces \in Seq(words), NEW query,
         "error" \notin DOMAIN ParseTarget(text, query)
  PROVE  \E host, port : /\ ParseTarget(text, query) = [host |-> host, port |-> port]
                         /\ port \in AllowedPorts /\ IsHost(host)
                         /\ \E some : host \in Seq(some)
<1> DEFINE value == Typed(text)
           host  == HostOf(value)
           port  == PortOf(value, query)
<1>2. \E some : value.pieces \in Seq(some)
  <2>1. Parsed(text).pieces = text.pieces \/ Parsed(text).pieces = <<text.pieces[1]>>
    BY DEF Parsed
  <2>2. <<text.pieces[1]>> \in Seq({text.pieces[1]})
    OBVIOUS
  <2>3. value.pieces = text.pieces \/ value.pieces = <<text.pieces[1]>>
    BY <2>1, Zenon DEF Typed
  <2> HIDE DEF value
  <2> QED
    BY <2>2, <2>3, Zenon
<1>3. \E some : host \in Seq(some)
  <2>1. <<value.pieces[1]>> \in Seq({value.pieces[1]})
    OBVIOUS
  <2>2. host = <<value.pieces[1]>> \/ host = value.pieces
    BY Zenon DEF HostOf
  <2> HIDE DEF host
  <2> QED
    BY <1>2, <2>1, <2>2, Zenon
<1> HIDE DEF host, port, value
<1>4. \A why : "error" \in DOMAIN Failed(why)
  BY DEF Failed
<1>5. IsHost(host) /\ port \in AllowedPorts /\ ParseTarget(text, query) = [host |-> host, port |-> port]
  <2> DEFINE target == ParseTarget(text, query)
             wrong  == Refused(text) \/ ~IsHost(host)
  <2>1. target = IF wrong THEN Failed("invalid-host")
                 ELSE IF port \notin ValidPorts THEN Failed("invalid-port")
                 ELSE IF port \notin AllowedPorts THEN Failed("port-not-allowed")
                 ELSE [host |-> host, port |-> port]
    BY Zenon DEF ParseTarget, host, port, value
  <2>2. "error" \notin DOMAIN target
    OBVIOUS
  <2> HIDE DEF target, wrong
  <2>3. ASSUME NEW why, target = Failed(why) PROVE FALSE
    BY <1>4, <2>2, <2>3
  <2>4. ~wrong /\ port \in AllowedPorts /\ target = [host |-> host, port |-> port]
    BY <2>1, <2>3, Zenon
  <2> QED
    BY <2>4, Zenon DEF target, wrong
<1> QED
  BY <1>3, <1>5, Zenon

LEMMA HostLength ==
  ASSUME NEW host, NEW some, host \in Seq(some), IsHost(host)
  PROVE  Len(host) # 2 /\ (~IsIPv6(host) => host = <<host[1]>>)
<1>1. ASSUME Len(host) = 1 PROVE Len(host) # 2 /\ host = <<host[1]>>
  BY <1>1
<1>2. IsName(host) \/ IsIPv4(host) => Len(host) = 1
  BY Zenon DEF IsName, IsIPv4
<1>3. IsIPv6(host) => Len(host) \in 3..8
  BY Zenon DEF IsIPv6
<1>4. \A n : n \in 3..8 => n # 2
  OBVIOUS
<1> QED
  BY <1>1, <1>2, <1>3, <1>4, Zenon DEF IsHost

LEMMA LabelReadsBack ==
  ASSUME NEW host, NEW some, host \in Seq(some), NEW port \in AllowedPorts,
         IsHost(host), port = 443 \/ ~IsIPv6(host),
         NEW query \in AllowedPorts, port # 443 \/ query = 443
  PROVE  ParseTarget(PathLabel([host |-> host, port |-> port]), query) = [host |-> host, port |-> port]
<1> DEFINE target == [host |-> host, port |-> port]
           label  == PathLabel(target)
<1>1. target.host = host /\ target.port = port
  OBVIOUS
<1> HIDE DEF target
<1>2. /\ label.scheme = FALSE /\ label.bracketed = FALSE /\ label.digits = Unset
      /\ label.pieces = IF port = 443 THEN host ELSE Append(host, Digits(port))
  BY <1>1 DEF PathLabel
<1> HIDE DEF label
<1>3. Typed(label) = label
  BY <1>2, Zenon DEF Typed
<1>4. HostOf(label) = host /\ PortOf(label, query) = port
  <2>1. CASE port = 443
    <3>1. label.pieces = host /\ Len(host) # 2
      BY <1>2, <2>1, HostLength, Zenon
    <3>2. ~IsSplit(label)
      BY <3>1, Zenon DEF IsSplit
    <3>3. HostOf(label) = host /\ PortOf(label, query) = Port(Unset, query)
      BY <1>2, <3>1, <3>2, Zenon DEF HostOf, PortOf
    <3> QED
      BY <2>1, <3>3 DEF Port
  <2>2. CASE port # 443
    <3> DEFINE digits == Digits(port)
    <3>1. host = <<host[1]>>
      BY <2>2, HostLength, Zenon
    <3>2. label.pieces = Append(<<host[1]>>, digits)
      BY <1>2, <2>2, <3>1, Zenon
    <3>3. digits \in DOMAIN Number /\ Number[digits] = port
      BY DigitsOfPort
    <3> HIDE DEF digits
    <3>4. Len(label.pieces) = 2 /\ label.pieces[1] = host[1] /\ label.pieces[2] = digits
      BY <3>2
    <3>5. IsSplit(label)
      BY <1>2, <3>3, <3>4, Zenon DEF IsSplit
    <3>6. HostOf(label) = host /\ PortOf(label, query) = Port(port, query)
      BY <3>1, <3>3, <3>4, <3>5, Zenon DEF HostOf, PortOf
    <3>7. port # Unset
      BY DEF AllowedPorts, Unset
    <3> QED
      BY <3>6, <3>7, Zenon DEF Port
  <2> QED
    BY <2>1, <2>2, Zenon
<1>5. port \in ValidPorts
  BY SMTT(30) DEF AllowedPorts, ValidPorts
<1>6. ~Refused(label)
  BY <1>2, Zenon DEF Refused
<1>7. ParseTarget(label, query) = [host |-> host, port |-> port]
  <2>1. HostOf(Typed(label)) = host /\ PortOf(Typed(label), query) = port
    BY <1>3, <1>4, Zenon
  <2> QED
    BY <1>5, <1>6, <2>1, Zenon DEF ParseTarget
<1> QED
  BY <1>7, Zenon DEF label, target

\* The pieces between the colons of a text are words.
Words == Names \cup Addresses \cup Groups \cup DOMAIN Number
Texts == [scheme : BOOLEAN, bracketed : BOOLEAN, pieces : Seq(Words), digits : Nat]
TextInv == doc.kind = "text" => doc \in [kind : {"text"}, query : Nat, text : Texts]

LEMMA TextInit == ReadersInit => TextInv
<1> SUFFICES ASSUME ReadersInit, doc.kind = "text" PROVE doc \in [kind : {"text"}, query : Nat, text : Texts]
  BY DEF TextInv
<1> DEFINE Start == [scheme : BOOLEAN, bracketed : BOOLEAN, pieces : Hosts, digits : {Unset}]
<1>1. doc \in [kind : {"text"}, query : {443, 8443}, text : Start]
  <2> HIDE DEF Start
  <2> QED
    BY DEF ReadersInit, Start
<1>2. "2001" \in Words /\ "db8" \in Words /\ "" \in Words /\ "1" \in Words
  BY DEF Words, Groups
<1>3. ASSUME NEW h \in Names \cup Addresses PROVE h \in Words
  BY Zenon DEF Words
<1> HIDE DEF Words
<1>4. <<"2001", "db8", "", "1">> \in Seq(Words)
  <2>1. ASSUME NEW a \in Words, NEW b \in Words, NEW c \in Words, NEW d \in Words PROVE <<a, b, c, d>> \in Seq(Words)
    OBVIOUS
  <2> QED
    BY <1>2, <2>1, Zenon
<1>5. ASSUME NEW h \in Names \cup Addresses PROVE <<h>> \in Seq(Words)
  BY <1>3
<1>6. Hosts \subseteq Seq(Words)
  BY <1>4, <1>5, Zenon DEF Hosts
<1>7. Start \subseteq Texts
  BY <1>6 DEF Texts, Unset
<1> HIDE DEF Start
<1> QED
  BY <1>1, <1>7

LEMMA TextNext == ASSUME KindInv, TextInv, ReadersNext PROVE TextInv'
<1>1. ASSUME doc.kind # "text" PROVE TextInv'
  BY <1>1, KindNext, Zenon DEF TextInv
<1>2. ASSUME doc.kind = "text" PROVE AddPiece
  BY <1>2 DEF ReadersNext, GrowTree, AddExtension, AddEntry, Grow
<1>3. CASE AddPiece
  <2>1. PICK p \in DOMAIN Number :
          doc.kind = "text" /\ Grow("text", IF doc.text.bracketed THEN [doc EXCEPT !.text.digits = Number[p]]
                                            ELSE [doc EXCEPT !.text.pieces = Append(@, p)])
    BY <1>3, Zenon DEF AddPiece
  <2>2. Number[p] \in Nat /\ p \in Words
    BY DEF Number, Words
  <2>3. doc \in [kind : {"text"}, query : Nat, text : Texts]
    BY <2>1, Zenon DEF TextInv
  <2>4. [doc EXCEPT !.text.digits = Number[p]] \in [kind : {"text"}, query : Nat, text : Texts]
    BY <2>2, <2>3 DEF Texts
  <2>5. [doc EXCEPT !.text.pieces = Append(@, p)] \in [kind : {"text"}, query : Nat, text : Texts]
    <3> DEFINE pieces == Append(doc.text.pieces, p)
    <3>1. doc.text.pieces \in Seq(Words)
      <4> HIDE DEF Words
      <4> QED
        BY <2>3 DEF Texts
    <3>2. pieces \in Seq(Words)
      BY <2>2, <3>1, AppendProperties, Zenon
    <3> HIDE DEF pieces
    <3>3. [doc EXCEPT !.text.pieces = pieces] \in [kind : {"text"}, query : Nat, text : Texts]
      BY <2>3, <3>2 DEF Texts
    <3> QED
      BY <3>3, Zenon DEF pieces
  <2> QED
    BY <2>1, <2>4, <2>5, Zenon DEF Grow, TextInv
<1> QED
  BY <1>1, <1>2, <1>3, Zenon

\* The label under which a target is stored and shared is read as that target,
\* also beside another port in the query, whatever the names and the addresses
\* and however many pieces a text has (server/index.js:33, 41-47).
THEOREM LabelsAreOwn == ReadersSpec => []LabelIsOwn
<1>1. ReadersInit => KindInv /\ TextInv
  BY KindInit, TextInit
<1>2. KindInv /\ TextInv /\ [ReadersNext]_readersVars => (KindInv /\ TextInv)'
  <2>1. ASSUME UNCHANGED readersVars, KindInv, TextInv PROVE (KindInv /\ TextInv)'
    BY <2>1 DEF readersVars, KindInv, TextInv
  <2> QED
    BY <2>1, KindNext, TextNext
<1>3. TextInv => LabelIsOwn
  <2> SUFFICES ASSUME TextInv, doc.kind = "text",
                      "error" \notin DOMAIN ParseTarget(doc.text, doc.query),
                      LET target == ParseTarget(doc.text, doc.query)
                      IN ~(IsIPv6(target.host) /\ target.port # 443),
                      NEW query \in AllowedPorts,
                      LET target == ParseTarget(doc.text, doc.query)
                      IN target.port # 443 \/ query = 443
               PROVE  LET target == ParseTarget(doc.text, doc.query)
                      IN ParseTarget(PathLabel(target), query) = target
    BY Zenon DEF LabelIsOwn
  <2>1. doc.text.pieces \in Seq(Words)
    <3> HIDE DEF Words
    <3> QED
      BY DEF TextInv, Texts
  <2> DEFINE target == ParseTarget(doc.text, doc.query)
  <2>2. PICK host, port : /\ target = [host |-> host, port |-> port]
                          /\ port \in AllowedPorts /\ IsHost(host)
                          /\ \E some : host \in Seq(some)
    <3> HIDE DEF Words
    <3> QED
      BY <2>1, TargetIs
  <2>3. port = 443 \/ ~IsIPv6(host)
    BY <2>2
  <2>4. port # 443 \/ query = 443
    BY <2>2
  <2>5. PICK some : host \in Seq(some)
    BY <2>2
  <2>6. ParseTarget(PathLabel([host |-> host, port |-> port]), query) = [host |-> host, port |-> port]
    BY <2>2, <2>3, <2>4, <2>5, LabelReadsBack
  <2> QED
    BY <2>2, <2>6, Zenon
<1> QED
  BY <1>1, <1>2, <1>3, PTL DEF ReadersSpec
=============================================================================
