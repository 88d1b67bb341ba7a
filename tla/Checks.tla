------------------------------ MODULE Checks -------------------------------
(***************************************************************************)
(* What a scan asks after the protocol versions, server/enumerate.js:      *)
(* detectProtocols, and on its answer one of                               *)
(*   scsv, compression, heartbeat, nosni, reneg   one probe, one verdict   *)
(*   dh, groups, client                           probes one after another *)
(* and findCaa of server/dns-probe.js, which walks up the labels of a name *)
(* the same way. The checks share nothing but the server, so a behaviour   *)
(* is one of them against one server; any connection may be lost.          *)
(***************************************************************************)
EXTENDS Integers, FiniteSets, FiniteSetsExt, SequencesExt

CONSTANTS
  NumGroups,      \* PROBE_GROUPS
  FiniteField,    \* those of them from 256 to 260
  MaxGroupRounds, \* rounds of a group walk
  MaxDrops        \* bound: connections lost

ASSUME GroupsAssumption ==
  {NumGroups, MaxGroupRounds, MaxDrops} \subseteq Nat /\ FiniteField \subseteq 1..NumGroups

\* VERSION_ORDER, from SSL 3.0 to TLS 1.3; for findCaa, the labels of a name.
Versions == 1..5
TLS13    == 5
SSL3     == 1
Groups   == 1..NumGroups

OneShot == {"scsv", "compression", "heartbeat", "nosni", "reneg"}
Walks   == {"dh", "caa"}
Names   == OneShot \cup Walks \cup {"groups", "client", "oldclient"}

Lost == -1  Alert == 0  Fallback == 86     \* a probe without a ServerHello
Verdicts == {"pending", "true", "false", "null"}

VARIABLES
  check,  \* which
  peer,   \* the server
  found,  \* the versions detectProtocols found
  place,  \* where a walk is: the version, label or round; what a client got
  walked, \* the groups walked
  drops,  \* connections lost
  phase,
  verdict
checkVars == <<check, peer, found, place, walked, drops, phase, verdict>>

\* The servers scanned: the versions they speak, whether they know how TLS 1.3
\* names its version, where the feature asked for is on (for nosni: where they
\* answer without a name; for a client: where the two share a suite and a
\* group), the groups they accept as they prefer them, and whether they name
\* the first of them always.
Peers(c) ==
  {s \in [versions : SUBSET Versions, aware : BOOLEAN, on : SUBSET Versions,
          prefs : IF c = "groups" THEN UNION {SetToSeqs(S) : S \in SUBSET Groups} ELSE {<<>>},
          stubborn : IF c = "groups" THEN BOOLEAN ELSE {FALSE}] :
     /\ s.versions # {} /\ s.on \subseteq s.versions
     /\ TLS13 \in s.versions => s.aware
     /\ c \in {"scsv", "groups"} => s.on \in {{}, s.versions}}

Newest(S) == IF S = {} THEN Alert ELSE Max(S)

\* buildClientHello: TLS 1.3 is offered by an extension alone, under the number
\* of TLS 1.2; every other version by its own number, as the newest.
ClientHello(c, v) ==
  [legacy    |-> IF v = TLS13 THEN TLS13 - 1 ELSE v,
   supported |-> IF v = TLS13 THEN {TLS13} ELSE {},
   fallback  |-> c = "scsv",
   named     |-> c # "nosni"]

\* The version a server answers a hello with.
Negotiated(s, hello) ==
  IF s.aware /\ hello.supported # {} THEN Newest(s.versions \cap hello.supported)
  ELSE Newest({w \in s.versions : w <= hello.legacy})

\* A probe either comes back or is lost.
Probed(r, Reply(_)) ==
  \/ drops' = drops /\ Reply(r)
  \/ drops < MaxDrops /\ drops' = drops + 1 /\ Reply(Lost)

Decide(v) == phase' = "done" /\ verdict' = v /\ UNCHANGED <<check, peer, found>>

ChecksInit ==
  /\ check \in Names
  /\ peer \in Peers(check)
  /\ found = {} /\ place = 0 /\ walked = <<>> /\ drops = 0
  /\ phase = "detect" /\ verdict = "pending"
-----------------------------------------------------------------------------
Supports(v) == Negotiated(peer, ClientHello("version", v)) = v

\* detectProtocols: one probe a version, concurrently. findCaa needs none, and
\* simulateClients reads none.
NeedsNone == check \in {"caa", "client", "oldclient"}

Detect ==
  /\ phase = "detect"
  /\ \E L \in SUBSET peer.versions :
       /\ IF NeedsNone THEN L = {} ELSE drops + Cardinality(L) <= MaxDrops
       /\ drops' = drops + Cardinality(L)
       /\ found' = {v \in Versions : Supports(v) /\ v \notin L}
       /\ place' = IF check = "caa" THEN 1 ELSE 6
  /\ phase' = "check"
  /\ UNCHANGED <<check, peer, walked, verdict>>
-----------------------------------------------------------------------------
\* The version a one-shot check is made at.
Asked(c) ==
  CASE c = "scsv"      -> IF Cardinality(found) < 2 THEN Alert ELSE Max(found \ {Max(found)})
    [] c = "heartbeat" -> Newest(found \ {SSL3, TLS13})
    [] c = "nosni"     -> IF TLS13 \in found THEN TLS13 ELSE Newest(found \ {SSL3})
    [] OTHER           -> Newest(found \ {TLS13})

\* What the server does with it.
Answer(c, v) ==
  LET hello == ClientHello(c, v)
  IN CASE hello.fallback /\ peer.on # {} /\ hello.legacy < Max(peer.versions) -> Fallback
       [] ~hello.named /\ v \notin peer.on -> Alert
       [] OTHER -> Negotiated(peer, hello)

\* Mutant: no answer is a no.
JudgedBySilence(c, v, r) ==
  CASE c = "scsv"  -> IF r = Fallback THEN "true" ELSE "false"
    [] c = "nosni" -> IF r > Alert THEN "false" ELSE "true"
    [] OTHER       -> IF r > Alert /\ v \in peer.on THEN "true" ELSE "false"

\* sniRequired is that no handshake came about without a name, for whatever
\* reason; the others tell silence from a refusal.
Judged(c, v, r) ==
  IF c = "nosni" THEN IF r > Alert THEN "false" ELSE "true"
  ELSE CASE r = Fallback -> "true"
         [] r \in {Lost, Alert} -> "null"
         [] OTHER -> IF c # "scsv" /\ v \in peer.on THEN "true" ELSE "false"

Unasked(c) == IF c \in {"compression", "heartbeat"} THEN "false" ELSE "null"

Ask ==
  /\ phase = "check" /\ check \in OneShot
  /\ LET v == Asked(check)
         Reply(r) == Decide(Judged(check, v, r))
     IN IF v = Alert THEN Decide(Unasked(check)) /\ UNCHANGED drops
        ELSE Probed(Answer(check, v), Reply)
  /\ UNCHANGED <<place, walked>>
-----------------------------------------------------------------------------
\* detectDhParams from TLS 1.2 down; findCaa from the whole name up, never
\* asking the last label. The first that has anything ends the walk.
StepsOf == IF check = "dh" THEN {v \in found \ {TLS13} : v < place}
           ELSE {l \in Versions : l >= place /\ l < Max(peer.versions)}

\* Mutant: detectDhParams from SSL 3.0 up.
StepUp == IF StepsOf = {} THEN Alert ELSE Min(StepsOf)

Step ==
  IF StepsOf = {} THEN Alert ELSE IF check = "dh" THEN Max(StepsOf) ELSE Min(StepsOf)

Walk ==
  /\ phase = "check" /\ check \in Walks
  /\ LET Reply(r) == IF r > Alert /\ Step \in peer.on
                       THEN Decide("true") /\ place' = Step
                       ELSE /\ place' = IF check = "dh" THEN Step ELSE Step + 1
                            /\ UNCHANGED <<check, peer, found, phase, verdict>>
     IN IF Step = Alert THEN Decide("null") /\ UNCHANGED <<drops, place>> ELSE Probed(Step, Reply)
  /\ UNCHANGED walked
-----------------------------------------------------------------------------
\* enumerateGroups: at TLS 1.3, or else at the newest version with curves.
GroupsAt == Newest(found \ {SSL3})

Offered == (IF GroupsAt = TLS13 THEN Groups ELSE Groups \ FiniteField) \ ToSet(walked)

Accepted(g) == GroupsAt = TLS13 \/ g \notin FiniteField

\* Where in its order of preference a server has what it shares with the walk.
Shared == {i \in DOMAIN peer.prefs : Accepted(peer.prefs[i])}

\* The group a server names: the first it prefers of those offered.
Named ==
  LET open == {i \in Shared : peer.stubborn \/ peer.prefs[i] \in Offered}
  IN IF open = {} THEN Alert ELSE peer.prefs[Min(open)]

RoundsLeft == Len(walked) < MaxGroupRounds

GroupRound ==
  /\ phase = "check" /\ check = "groups"
  /\ LET Reply(g) == IF g \in Offered
                       THEN /\ walked' = Append(walked, g)
                            /\ UNCHANGED <<check, peer, found, phase, verdict>>
                       ELSE Decide("true") /\ UNCHANGED walked
     IN IF GroupsAt # Alert /\ RoundsLeft /\ Offered # {} THEN Probed(Named, Reply)
        ELSE Decide("true") /\ UNCHANGED <<walked, drops>>
  /\ UNCHANGED place
-----------------------------------------------------------------------------
\* simulateClients, of a client that speaks up to TLS 1.3 and of one that
\* stops at TLS 1.2. place is the version the client ends up with.
ClientVersion == IF check = "client" THEN TLS13 ELSE TLS13 - 1

Connects(v) ==
  LET w == Negotiated(peer, ClientHello("client", v)) IN IF w \in peer.on THEN w ELSE Alert

Simulated(r) ==
  IF r > Alert THEN Decide("true") /\ place' = r ELSE Decide("false") /\ place' = Alert

\* Mutant: no second hello.
HelloOnce(r) == Simulated(r)

HelloAnswered(r) ==
  IF r <= Alert /\ ClientVersion = TLS13
    THEN phase' = "retry" /\ UNCHANGED <<check, peer, found, verdict, place>>
    ELSE Simulated(r)

Client ==
  /\ check \in {"client", "oldclient"} /\ phase = "check"
  /\ Probed(Connects(ClientVersion), HelloAnswered)
  /\ UNCHANGED walked

ClientRetry ==
  /\ phase = "retry"
  /\ Probed(Connects(TLS13 - 1), Simulated)
  /\ UNCHANGED walked
-----------------------------------------------------------------------------
ChecksNext == Detect \/ Ask \/ Walk \/ GroupRound \/ Client \/ ClientRetry
ChecksSpec == ChecksInit /\ [][ChecksNext]_checkVars
-----------------------------------------------------------------------------
\* The type invariant; groups are listed once each.
ChecksTypeOK ==
  /\ check \in Names /\ verdict \in Verdicts
  /\ found \subseteq peer.versions /\ place \in 0..6
  /\ walked \in Seq(Groups) /\ IsInjective(walked) /\ Len(walked) <= MaxGroupRounds
  /\ drops \in 0..MaxDrops /\ phase \in {"detect", "check", "retry", "done"}
  /\ (phase = "done") <=> (verdict # "pending")

\* What was answered at a version that was asked for and did not come back.
Undetected == {v \in peer.versions : Supports(v)} \ found

\* A verdict is a statement on the server, not on the connection: what is
\* found is there; what is not found is not there in the newest version that
\* could have it, unless that version went unnoticed; and a lost connection
\* decides nothing (enumerate.js:233-278). sniRequired is the one that takes
\* silence for an answer (scan.js:344), so only its no is a statement.
DefiniteIsTrue ==
  check \in OneShot =>
    /\ verdict = (IF check = "nosni" THEN "false" ELSE "true") => peer.on # {}
    /\ verdict = "false" /\ check # "nosni" =>
         LET S == {v \in Versions : Supports(v)} \ (IF check = "heartbeat" THEN {SSL3, TLS13} ELSE {TLS13})
         IN IF check = "scsv" THEN peer.on = {}
            ELSE S = {} \/ Max(S) \in Undetected \/ Max(S) \notin peer.on

\* A walk whose connections all come back finds the first place that has
\* anything: the newest version with a DH group, the closest name with a CAA
\* record; one that loses connections still names no place that has nothing.
FindsFirst ==
  LET S == peer.on \ (IF check = "dh" THEN {TLS13} ELSE {Max(peer.versions)})
  IN /\ verdict = "true" => place \in peer.on
     /\ phase = "done" /\ drops = 0 =>
          IF S = {} THEN verdict = "null"
          ELSE verdict = "true" /\ place = IF check = "dh" THEN Max(S) ELSE Min(S)

\* A group listed comes after exactly those which the server prefers to it.
Preferred(i) == {peer.prefs[j] : j \in {j \in Shared : j < i}}

Ranked ==
  \A n \in DOMAIN walked : \E i \in Shared :
    walked[n] = peer.prefs[i] /\ {walked[m] : m \in 1..(n - 1)} = Preferred(i)

\* All are listed when the rounds suffice and no connection is lost.
GroupsInOrder ==
  /\ Ranked
  /\ phase = "done" /\ drops = 0 /\ GroupsAt # Alert /\ ~peer.stubborn =>
       Len(walked) = MaxGroupRounds \/ ToSet(walked) = {peer.prefs[i] : i \in Shared}

\* No walk stops early, skips a step or passes the answer it was made for
\* (enumerate.js:153-222, dns-probe.js:22-30).
WalksAreComplete ==
  phase # "detect" => /\ check \in Walks => FindsFirst
                      /\ check = "groups" => GroupsInOrder

\* What a hello gets that offers everything up to a version: the newest version
\* of the server up to there, if the two share a suite and a group at it.
Of(v) ==
  LET w == Newest({x \in peer.versions : x <= v}) IN IF w \in peer.on THEN w ELSE Alert

\* A client offers all its versions in one hello; simulateClients asks for TLS
\* 1.3 alone and then for what TLS 1.2 gets (enumerate.js:364-389). Whoever is
\* said to connect does so with what its own hello gets, or with what a retry
\* at TLS 1.2 gets, and that only where its own is refused or one was lost; who
\* is said not to lost a connection for each of the two that the server would
\* have served.
ClientAsReal ==
  check \in {"client", "oldclient"} /\ phase = "done" =>
    LET full == Of(ClientVersion)
        old  == Of(TLS13 - 1)
    IN /\ verdict = "true" => /\ place \in {full, old} \ {Alert}
                              /\ place # full => full = Alert \/ drops > 0
       /\ verdict = "false" => Cardinality({full, old} \ {Alert}) <= drops

\* "Runs every client profile and reports what each one would end up with."
\* (enumerate.js:363): what its own hello gets, when nothing is lost.
ClientsEndUp ==
  check \in {"client", "oldclient"} /\ phase = "done" /\ drops = 0 =>
    place = Of(ClientVersion)
=============================================================================
