------------------------------- MODULE Report -------------------------------
(***************************************************************************)
(* A report on a site, put together as runScan does, with its findings and *)
(* its letter. The site starts well configured, or old, and gets worse one *)
(* facet at a time, up to MaxFaults of them.                               *)
(***************************************************************************)
EXTENDS Chain, Screen

CONSTANT MaxFaults

ASSUME FaultsAssumption == MaxFaults \in Nat

VARIABLES site, faults
vars == <<site, faults>>
-----------------------------------------------------------------------------
\* Certificates: their names, keys and signers. mid and extra are also cross-signed.
Cert(subject, issuer, key, signer) ==
  [subject |-> subject, issuer |-> issuer, key |-> key, signer |-> signer,
   date |-> "fresh", days |-> 90, scts |-> 2, strength |-> KeyStrength("ec", 256),
   weakSignature |-> FALSE, unparsable |-> FALSE]

leaf   == Cert("site", "mid", "kl", "km")
self   == Cert("site", "site", "kl", "kl")
mid    == Cert("mid", "root", "km", "kr")
cross  == Cert("mid", "extra", "km", "ke")
root   == Cert("root", "root", "kr", "kr")
extra  == Cert("extra", "extra", "ke", "ke")
bridge == Cert("extra", "root", "ke", "kr")
forged == Cert("mid", "root", "kf", "kr")
stale  == [mid EXCEPT !.date = "past", !.weakSignature = TRUE]
junk   == [mid EXCEPT !.unparsable = TRUE]

Anchors == <<[cert |-> extra, store |-> "extra"], [cert |-> root, store |-> Mozilla]>>

Chains == UNION {[1..n -> {leaf, self, mid, cross, bridge, root, forged, stale, junk}] : n \in 0..3}
-----------------------------------------------------------------------------
\* Suites by name: key exchange, export, and the right-hand side.
Suite(left, export, right) == [left |-> left, export |-> export, right |-> right]

GCM == Right("AES", 256, "GCM", "SHA384")
CBC == Right("AES", 128, "CBC", "SHA")
RC4 == Right("RC4", 128, "none", "SHA")

BadSuites ==
  {Suite("RSA", FALSE, CBC), Suite("ECDHE_RSA", FALSE, RC4),
   Suite("RSA", FALSE, Right("3DES", 0, "CBC", "SHA")), Suite("KRB5", FALSE, Right("DES", 0, "CBC", "MD5")),
   Suite("RSA", TRUE, Right("DES40", 0, "CBC", "SHA")), Suite("DHE_RSA", TRUE, Right("DES40", 0, "CBC", "SHA")),
   Suite("RSA", FALSE, Right("NULL", 0, "NULL", "SHA")), Suite("DH_anon", FALSE, CBC)}

Modern ==
  [protocols |-> {"TLS 1.2", "TLS 1.3"}, ssl2 |-> FALSE,
   suites |-> {Suite("TLS13", FALSE, GCM), Suite("ECDHE_RSA", FALSE, GCM)},
   groups |-> {128}, dh |-> Undefined, chain |-> <<leaf, mid>>, named |-> TRUE,
   stapled |-> "good", mustStaple |-> FALSE,
   compression |-> "false", heartbeat |-> "false", secureRenegotiation |-> "true",
   clientRenegotiation |-> "false", fallbackScsv |-> "true",
   hsts |-> "long", plain |-> "https", reachable |-> TRUE, incomplete |-> FALSE]

Old == [Modern EXCEPT !.protocols = {"TLS 1.0"}, !.suites = {Suite("ECDHE_RSA", FALSE, CBC)}]
Rc4 == [Old EXCEPT !.suites = {Suite("RSA", FALSE, RC4)}]
Dsa == [Old EXCEPT !.chain[1].strength = KeyStrength("dsa", 512), !.groups = {}, !.suites = {Suite("DHE_DSS", FALSE, CBC)}]

WeakKeys == {KeyStrength("rsa", bits) : bits \in {512, 1024, 2048}}

Versions == <<"SSL 3.0", "TLS 1.0", "TLS 1.1", "TLS 1.2", "TLS 1.3">>
Older(S) == {Versions[i] : i \in {j \in DOMAIN Versions :
               \A k \in DOMAIN Versions : Versions[k] \in S => j < k}}

\* The ways in which a site gets worse: in what it speaks,
WorseSpoken(s) ==
  {[s EXCEPT !.suites = @ \cup {n}] : n \in BadSuites \ s.suites}
  \cup {[s EXCEPT !.protocols = @ \cup {v}] : v \in Older(s.protocols)}
  \cup {[s EXCEPT !.protocols = @ \ {"TLS 1.3"}]}
  \cup {[s EXCEPT !.ssl2 = TRUE]}

\* in the groups it agrees keys in,
WeakerPrimes(s) == {d \in {512, 1024, 2048, 4096} : s.dh = Undefined \/ d < s.dh}

WorseGroups(s) ==
  {[s EXCEPT !.dh = n] : n \in WeakerPrimes(s)} \cup {[s EXCEPT !.groups = @ \cup {n}] : n \in {80, 112}}

\* in the chain it sends and in its leaf,
WorseChain(s) == IF s.chain = <<leaf, mid>> THEN {[s EXCEPT !.chain = c] : c \in Chains} ELSE {}

WeakerKeys(s) == {m \in WeakKeys : m < s.chain[1].strength}

WorseLeaf(s) ==
  IF s.chain = <<>> THEN {} ELSE
    {[s EXCEPT !.chain[1].date = d] : d \in IF s.chain[1].date = "fresh" THEN {"soon", "past", "future"} ELSE {}}
    \cup {[s EXCEPT !.chain[1].strength = n] : n \in WeakerKeys(s)}
    \cup {[s EXCEPT !.chain[1].days = 400], [s EXCEPT !.chain[1].scts = 0],
           [s EXCEPT !.chain[1].weakSignature = TRUE]}

\* in what it says of that leaf,
WorseStaple(s) ==
  {[s EXCEPT !.named = FALSE], [s EXCEPT !.mustStaple = TRUE]}
  \cup {[s EXCEPT !.stapled = v] : v \in IF s.stapled = "good" THEN {"none", "revoked"} ELSE {}}

\* in its features, and in what answers.
WorseFeatures(s) ==
  {[s EXCEPT !.compression = v] : v \in IF s.compression = "true" THEN {} ELSE {"true", "null"}}
  \cup {[s EXCEPT !.heartbeat = v] : v \in IF s.heartbeat = "true" THEN {} ELSE {"true", "null"}}
  \cup {[s EXCEPT !.secureRenegotiation = v] : v \in IF s.secureRenegotiation = "false" THEN {} ELSE {"false", "null"}}
  \cup {[s EXCEPT !.clientRenegotiation = v] : v \in IF s.clientRenegotiation = "true" THEN {} ELSE {"true", "null"}}

WorseAnswers(s) ==
  {[s EXCEPT !.hsts = v] : v \in IF s.hsts = "none" THEN {} ELSE {"short", "none"}}
  \cup {[s EXCEPT !.reachable = FALSE, !.hsts = "none", !.plain = "skipped"]}
  \cup {[s EXCEPT !.incomplete = TRUE]}

Worse(s) ==
  WorseSpoken(s) \cup WorseGroups(s) \cup WorseChain(s) \cup WorseLeaf(s) \cup WorseStaple(s)
  \cup WorseFeatures(s) \cup WorseAnswers(s)

\* Each suite of the registry, beside those of a modern site and instead of
\* them; one that is not in the registry is never offered, so never seen.
Init ==
  \/ site \in {Modern, Old, Rc4, Dsa} /\ faults = 0
  \/ /\ faults = MaxFaults
     /\ \/ \E n \in Registry \cup {UnknownSuite} : site = [Modern EXCEPT !.suites = @ \cup {n}]
        \/ \E n \in Registry : site = [Modern EXCEPT !.suites = {n}]

Break ==
  /\ faults < MaxFaults
  /\ faults' = faults + 1
  /\ site' \in Worse(site) \ {site}

Spec == Init /\ [][Break]_vars
-----------------------------------------------------------------------------
\* The report that runScan assembles with what analyzeChain says of the chain.
\* stapled is what the OCSP reader makes of the staple (Readers shows that it
\* never says revoked of a proper one). Of the suites only what is offered at
\* some version is seen; a site that answers no version is not asked for more.
Assembled(s, cert) ==
  LET seen == IF s.incomplete THEN {} ELSE s.protocols
      top  == IF cert.leaf THEN s.chain[1] ELSE [Modern.chain[1] EXCEPT !.strength = 0]
  IN [protocols |-> seen, ssl2 |-> s.ssl2,
      suites |-> {n \in s.suites : \E v \in seen : OfferedAt(v, n)},
      groups |-> IF seen = {} THEN {} ELSE s.groups, dh |-> IF seen = {} THEN Undefined ELSE s.dh,
      cert |-> cert, strength |-> top.strength, scts |-> top.scts,
      weakSignature |-> top.weakSignature,
      days |-> CASE top.date = "soon" -> 10 [] top.date = "past" -> -1 [] OTHER -> 60,
      mustStaple |-> s.mustStaple, stapling |-> s.stapled # "none",
      compression |-> s.compression, heartbeat |-> s.heartbeat,
      secureRenegotiation |-> s.secureRenegotiation, clientRenegotiation |-> s.clientRenegotiation,
      fallbackScsv |-> s.fallbackScsv,
      hsts |-> s.hsts, plain |-> s.plain, reachable |-> s.reachable, incomplete |-> s.incomplete]

Assemble(s) == Assembled(s, Analyze(s.chain, Anchors, s.named, s.stapled = "revoked"))

-----------------------------------------------------------------------------
\* A path of signatures from the leaf to an anchor of a set of stores, through
\* the certificates that can be parsed, in the order they were sent.
PathTo(s, stores) ==
  LET sent == Parsed(s.chain)
  IN \E n \in DOMAIN sent :
       /\ \A i \in 1..(n - 1) : sent[i].signer = sent[i + 1].key
       /\ \E a \in ToSet(Anchors) : /\ a.store \in stores
                                   /\ a.cert.subject = sent[n].issuer
                                   /\ a.cert.key = sent[n].signer

Earns(s, r) ==
  /\ r.cert.trusted => /\ PathTo(s, {a.store : a \in ToSet(Anchors)})
                        /\ s.chain[1].date \in {"fresh", "soon"}
                        /\ s.stapled # "revoked"
                        /\ PathTo(s, {Mozilla}) <=> "trusted-by-extra-root" \notin r.cert.issues
  /\ r.cert.leaf /\ ~r.cert.trusted => Grade(r) \in {"T", "M"}

\* A report says trusted of a leaf that is in date, not revoked and signed all
\* the way up to an anchor, trusted by a browser when one of Mozilla's is there,
\* and it gives no letter above T to another leaf (README.md:105, trust.js:94).
TrustIsEarned == Earns(site, Assemble(site))

\* Nothing is both a critical weakness and a passing grade: what the findings
\* call critical and vulnerable, the letter fails (vulns.js, grade.js:159-183).
CriticalFails ==
  LET r     == Assemble(site)
      found == Findings(r)
  IN (\E id \in DOMAIN found : found[id] = Finding("critical", "vulnerable"))
     => Grade(r) \in {"F", "T", "M", "?"}

\* Two caps have no finding of their own: a missing staple that the certificate
\* demands, and TLS 1.0 and 1.1, whose rows are only a warning.
Agrees(r, found, red) ==
  /\ AllGood(r) => /\ red = {}
                   /\ \A n \in r.suites : Describe(n).strength # "insecure"
                   /\ \A id \in DOMAIN found : found[id].status = "vulnerable" =>
                        found[id].severity \notin {"critical", "high"}
  /\ red # {} => \/ r.cert.issues # {} \/ r.incomplete
                 \/ \E id \in DOMAIN found : StatusSeverity(found[id].status) \in {"bad", "warn"}
                 \/ /\ red = {"grade_caps"}
                    /\ \/ r.cert.leaf /\ r.mustStaple /\ ~r.stapling
                       \/ r.protocols \cap {"TLS 1.0", "TLS 1.1"} # {}

\* The page never says that all is well above a value or a tag in red, an
\* insecure suite or a serious weakness, and nothing is red that no finding, no
\* issue and no alert explains, but the tags of those two caps (app.js:312-427).
ScreenAgrees == LET r == Assemble(site) IN Agrees(r, Findings(r), Red(r))

\* A scan without a leaf or without an answer has no letter to compare, and
\* RC4 alone is an F which anything beside RC4 lifts (grade.js:194).
Comparable(r) ==
  r.cert.leaf /\ Grade(r) # "?" /\ \E d \in Described(r) : d.encryption # "RC4"

NotBetter(r, q) == Comparable(r) /\ Comparable(q) => Rank[Grade(r)] <= Rank[Grade(q)]

\* No facet of a site can get worse and its letter better, whatever the order
\* in which caps, early returns and the bonus are applied.
NeverBetter == [][NotBetter(Assemble(site), Assemble(site'))]_vars

\* What README.md:103-105 publishes as an F, a C and a B, of the site itself and
\* of the suites and the DH group that were seen.
Some(r, P(_)) == \E n \in r.suites : P(n)

IsF(s, r) ==
  \/ s.ssl2 \/ s.secureRenegotiation = "false" \/ r.dh \in 1..1023
  \/ Some(r, LAMBDA n : n.export \/ n.right.cipher = "NULL"
                        \/ n.left \in {"DH_anon", "ECDH_anon", "SRP_SHA"})

IsC(s, r) ==
  \/ s.compression = "true" \/ "SSL 3.0" \in s.protocols
  \/ Some(r, LAMBDA n : n.right.cipher \in {"DES40", "DES", "3DES", "IDEA"})

IsB(s, r) ==
  \/ Some(r, LAMBDA n : n.right.cipher = "RC4") \/ r.dh \in 1..2047
  \/ r.suites # {} /\ ~Some(r, LAMBDA n : Exchange(n)[1] \in {"DHE", "ECDHE"})
  \/ s.protocols \cap {"TLS 1.0", "TLS 1.1"} # {}

\* The six warnings of README.md:107-111 that give an A-.
Withheld(s, r) ==
  \/ "TLS 1.3" \notin s.protocols \/ s.heartbeat = "true" \/ s.clientRenegotiation = "true"
  \/ r.cert.leaf /\ (s.chain[1].scts = 0 \/ s.chain[1].days > 398)
  \/ r.cert.trusted /\ ~PathTo(s, {Mozilla})

Lowest(s, r) ==
  Worst({LetterFor(Score(r))}
        \cup {l \in {"F", "C", "B"} :
                \/ l = "F" /\ IsF(s, r)
                \/ l = "C" /\ IsC(s, r)
                \/ l = "B" /\ IsB(s, r)})

\* An A is withheld or raised, another letter stays (README.md:106-113).
Bonus(s, r, letter) ==
  IF letter # "A" THEN letter
  ELSE IF Withheld(s, r) THEN "A_minus"
  ELSE IF s.hsts = "long" THEN "A_plus" ELSE "A"

\* The letter of README.md:88-113, and none for an incomplete scan (362-363).
\* A leaf that cannot be read is no certificate there.
Published(s, r) ==
  IF s.incomplete THEN "?"
  ELSE IF r.cert.leaf /\ ~s.named THEN "M"
  ELSE IF r.cert.leaf /\ ~r.cert.trusted THEN "T"
  ELSE Bonus(s, r, Lowest(s, r))

\* What grade.js does and the README does not say: an F for RC4 alone, a C
\* without TLS 1.2 and 1.3, a T for a missing staple that the certificate
\* demands and for an anchor as its own leaf, no A+ where compression is
\* unknown, and a T or an M after an incomplete scan.
Unpublished(s, r) ==
  \/ s.incomplete /\ r.cert.leaf /\ (~s.named \/ ~r.cert.trusted \/ SelfNamed(s.chain[1]))
  \/ /\ ~s.incomplete
     /\ \/ r.suites # {} /\ ~Some(r, LAMBDA n : n.right.cipher # "RC4")
        \/ s.protocols \cap {"TLS 1.2", "TLS 1.3"} = {} \/ s.compression = "null"
        \/ r.cert.leaf /\ (SelfNamed(s.chain[1]) \/ (s.mustStaple /\ s.stapled = "none"))

\* The letters a report may give beside a published one.
Allowed(s, r, letter) ==
  IF ~Unpublished(s, r) THEN {letter}
  ELSE IF s.incomplete THEN {"T", "M"}
  ELSE {l \in DOMAIN Rank : Rank[letter] <= Rank[l]}

AsPublished(s, r) == Grade(r) \in Allowed(s, r, Published(s, r))

\* The letter is the one README.md:88-113 publishes of the site itself, not of
\* findings about it, except where a rule applies that the README leaves out:
\* then it is no better than the published one (grade.js:140-239).
LetterAsPublished == LET r == Assemble(site) IN AsPublished(site, r)

\* The same without exceptions, as the README has it; RC4 alone refutes it.
LetterIsPublished == LET r == Assemble(site) IN Grade(r) = Published(site, r)
=============================================================================
