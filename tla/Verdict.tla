------------------------------ MODULE Verdict ------------------------------
(***************************************************************************)
(* From what a scan observed to its findings and its letter:               *)
(* assessVulnerabilities of server/vulns.js and grade of server/grade.js.  *)
(* A report r has                                                          *)
(*   protocols, ssl2, suites (of Suites), groups (bits of each),           *)
(*   dh (bits, Undefined without), strength (of the leaf's key, 0 without),*)
(*   cert (of Chain!Analyze), days, scts, ocspUrls, mustStaple (of the     *)
(*   leaf), compression, heartbeat, secureRenegotiation,                   *)
(*   clientRenegotiation ("true", "false", "null"), stapling, hsts, plain, *)
(*   reachable and incomplete.                                             *)
(***************************************************************************)
EXTENDS Suites, FiniteSets, FiniteSetsExt

Finding(severity, status) == [severity |-> severity, status |-> status]

Vulnerable(severity, condition) ==
  Finding(severity, IF condition THEN "vulnerable" ELSE "safe")

\* A feature that is on, off or unknown.
ByFeature(severity, feature, bad) ==
  Finding(severity, CASE feature = "null" -> "unknown"
                      [] feature = bad    -> "vulnerable"
                      [] OTHER            -> "safe")

Described(r) == {Describe(n).suite : n \in r.suites}

\* assessVulnerabilities: a finding for every known weakness.
Findings(r) ==
  LET suites  == Described(r)
      Has(P(_)) == \E s \in suites : P(s)
      CBC     == Has(LAMBDA s : s.mode = "CBC")
      exports == {s \in suites : s.export}
      withPfs == {n \in r.suites : Describe(n).suite.pfs}
      issues  == r.cert.issues
  IN [ drown     |-> Vulnerable("critical", r.ssl2),
       poodle    |-> Finding("high", IF "SSL 3.0" \notin r.protocols THEN "safe"
                                     ELSE IF CBC THEN "vulnerable" ELSE "partial"),
       beast     |-> Finding("low", IF r.protocols \cap {"TLS 1.0", "SSL 3.0"} # {} /\ CBC
                                      THEN "mitigated" ELSE "safe"),
       freak     |-> Vulnerable("high", \E s \in exports : s.kx = "RSA"),
       logjam    |-> Finding("high", IF \/ \E s \in exports : s.kx \in {"DHE", "DH"}
                                        \/ r.dh # Undefined /\ r.dh < 1024 THEN "vulnerable"
                                     ELSE IF r.dh # Undefined /\ r.dh < 2048 THEN "weak" ELSE "safe"),
       sweet32   |-> Vulnerable("medium", Has(LAMBDA s : s.encryption \in {"3DES", "IDEA", "DES"})),
       rc4       |-> Vulnerable("high", Has(LAMBDA s : s.encryption = "RC4")),
       null_anon |-> Vulnerable("critical", Has(LAMBDA s : s.encryption = "NULL" \/ s.anonymous)),
       crime     |-> ByFeature("high", r.compression, "true"),
       heartbleed |-> Finding("critical", IF r.heartbeat = "true" THEN "possible" ELSE "safe"),
       insecure_renegotiation |-> ByFeature("high", r.secureRenegotiation, "false"),
       client_renegotiation   |-> ByFeature("medium", r.clientRenegotiation, "true"),
       robot     |-> Finding("medium", IF Has(LAMBDA s : s.kx = "RSA" /\ s.auth = "RSA")
                                         THEN "possible" ELSE "safe"),
       lucky13   |-> Finding("low", IF CBC THEN "possible" ELSE "safe"),
       downgrade |-> ByFeature("low", r.fallbackScsv, "false"),
       no_forward_secrecy |-> Finding("medium", CASE r.suites = {}       -> "unknown"
                                                  [] r.suites # {} /\ withPfs = {} -> "vulnerable"
                                                  [] r.suites # {} /\ withPfs = r.suites -> "safe"
                                                  [] OTHER -> "partial"),
       weak_dh   |-> Vulnerable("medium", r.dh # Undefined /\ r.dh < 2048),
       certificate_trust  |-> Vulnerable("critical", issues \cap {"not-trusted", "self-signed"} # {}),
       certificate_expiry |-> Finding("critical", IF "expired" \in issues THEN "vulnerable"
                                                  ELSE IF r.cert.leaf /\ r.days < 14 THEN "warning"
                                                  ELSE "safe"),
       certificate_name   |-> Vulnerable("critical", "hostname-mismatch" \in issues),
       certificate_chain  |-> Finding("medium", IF "incomplete-chain" \in issues THEN "vulnerable"
                                                ELSE IF "chain-out-of-order" \in issues THEN "warning"
                                                ELSE "safe"),
       weak_certificate_key |-> Vulnerable("high", "weak-key" \in issues),
       weak_signature       |-> Vulnerable("high", "weak-signature-algorithm" \in issues),
       hsts      |-> Finding("medium", CASE r.hsts = "long"  -> "safe"
                                         [] r.hsts = "short" -> "weak"
                                         [] OTHER -> IF r.reachable THEN "missing" ELSE "unknown"),
       http_redirect |-> Finding("low", CASE r.plain = "https" -> "safe"
                                          [] r.plain \in {"error", "skipped"} -> "unknown"
                                          [] OTHER -> "missing") ]

-----------------------------------------------------------------------------
\* The components of the score. Math.round of a sum of non-negative halves.
Half(a, b) == (a + b + 1) \div 2

ProtocolScores ==
  [v \in {"SSL 2.0", "SSL 3.0", "TLS 1.0", "TLS 1.1", "TLS 1.2", "TLS 1.3"} |->
     CASE v = "SSL 2.0" -> 0  [] v = "SSL 3.0" -> 80 [] v = "TLS 1.0" -> 90
       [] v = "TLS 1.1" -> 95 [] OTHER -> 100]

ProtocolScore(r) ==
  LET scores == {ProtocolScores[v] : v \in r.protocols \cup (IF r.ssl2 THEN {"SSL 2.0"} ELSE {})}
  IN IF scores = {} THEN 0 ELSE Half(Max(scores), Min(scores))

RsaEquivalent(bits) ==
  CASE bits >= 256 -> 15360
    [] bits \in 192..255 -> 7680
    [] bits \in 128..191 -> 3072
    [] bits \in 112..127 -> 2048
    [] bits \in 80..111  -> 1024
    [] OTHER -> bits * 8

KeyExchangeScore(r) ==
  LET parts == (IF r.strength > 0 THEN {RsaEquivalent(r.strength)} ELSE {})
               \cup (IF r.dh > 0 THEN {r.dh} ELSE {})
               \cup (IF r.groups # {} THEN {RsaEquivalent(Min(r.groups))} ELSE {})
      bits  == Min(parts)
  IN IF (\E s \in Described(r) : s.anonymous) \/ parts = {} THEN 0
     ELSE CASE bits < 512  -> 20
            [] bits \in 512..1023  -> 40
            [] bits \in 1024..2047 -> 80
            [] bits \in 2048..4095 -> 90
            [] OTHER -> 100

CipherScore(r) ==
  LET bits == {s.bits : s \in Described(r)} \ {Undefined}
      Of(b) == IF b = 0 THEN 0 ELSE IF b < 128 THEN 20 ELSE IF b < 256 THEN 80 ELSE 100
  IN IF bits = {} THEN 0 ELSE Half(Of(Max(bits)), Of(Min(bits)))

\* 0.3, 0.3 and 0.4, rounded.
Score(r) == (3 * ProtocolScore(r) + 3 * KeyExchangeScore(r) + 4 * CipherScore(r) + 5) \div 10

LetterFor(score) ==
  CASE score >= 80 -> "A"
    [] score \in 65..79 -> "B"
    [] score \in 50..64 -> "C"
    [] score \in 35..49 -> "D"
    [] score \in 20..34 -> "E"
    [] OTHER -> "F"

Rank == [A_plus |-> 0, A |-> 1, A_minus |-> 2, B |-> 3, C |-> 4, D |-> 5, E |-> 6, F |-> 7, T |-> 8, M |-> 9]

\* The worst of a set of letters.
Worst(letters) == CHOOSE l \in letters : \A k \in letters : Rank[k] <= Rank[l]
-----------------------------------------------------------------------------
\* Mutant: only what is wrong with the chain.
DistrustChain == {"expired", "not-yet-valid", "revoked", "incomplete-chain", "bad-signature"}

\* Untrusted, in the words of analyzeChain.
Distrust == {"expired", "not-yet-valid", "self-signed", "revoked", "not-trusted",
             "incomplete-chain", "bad-signature"}

\* Whether a cap of each letter applies.
Capped(r) ==
  LET f == Findings(r)
      Bad(id) == f[id].status = "vulnerable"
  IN [ F |-> \/ r.ssl2 \/ Bad("insecure_renegotiation") \/ Bad("null_anon") \/ Bad("freak") \/ Bad("logjam")
             \/ (r.suites # {} /\ \A s \in Described(r) : s.encryption = "RC4"),
       C |-> \/ Bad("crime") \/ Bad("sweet32") \/ "SSL 3.0" \in r.protocols
             \/ r.protocols \cap {"TLS 1.2", "TLS 1.3"} = {},
       B |-> \/ Bad("rc4") \/ Bad("no_forward_secrecy") \/ (r.dh > 0 /\ r.dh < 2048)
             \/ r.protocols \cap {"TLS 1.0", "TLS 1.1"} # {},
       T |-> r.cert.leaf /\ r.mustStaple /\ ~r.stapling ]

\* Mutant: the caps of the protocols alone.
CapsOfProtocols(r) ==
  {l \in {"F", "C", "B"} :
     \/ l = "F" /\ r.ssl2
     \/ l = "C" /\ "SSL 3.0" \in r.protocols
     \/ l = "B" /\ r.protocols \cap {"TLS 1.0", "TLS 1.1"} # {}}

\* The caps that apply, as letters.
Caps(r) == {l \in {"F", "C", "B", "T"} : Capped(r)[l]}

\* The warnings that stand in the way of an A+ (A_PLUS_BLOCKERS).
Blocking(r) ==
  LET If(condition, name) == IF condition THEN {name} ELSE {}
  IN If("TLS 1.3" \notin r.protocols, "no-tls13")
     \cup If(r.compression = "null", "compression-unknown")
     \cup If(r.heartbeat = "true", "heartbeat-extension-enabled")
     \cup If(r.clientRenegotiation = "true", "client-initiated-renegotiation")
     \cup If(r.cert.leaf /\ r.scts = 0, "no-certificate-transparency")
     \cup If("over-long-validity" \in r.cert.issues, "certificate-valid-too-long")
     \cup If("trusted-by-extra-root" \in r.cert.issues, "trusted-by-extra-root")

\* Mutant: the bonus is withheld without looking at the letter.
GradeWithholding(r) ==
  CASE "hostname-mismatch" \in r.cert.issues -> "M"
    [] "hostname-mismatch" \notin r.cert.issues /\ r.cert.issues \cap Distrust # {} -> "T"
    [] r.cert.issues \cap ({"hostname-mismatch"} \cup Distrust) = {} ->
         IF r.incomplete THEN "?"
         ELSE IF Blocking(r) # {} THEN "A_minus"
         ELSE Worst({LetterFor(Score(r))} \cup Caps(r))

\* grade: trust first, then an incomplete scan, then the caps and the bonus.
Grade(r) ==
  LET letter == Worst({LetterFor(Score(r))} \cup Caps(r))
  IN CASE "hostname-mismatch" \in r.cert.issues -> "M"
       [] "hostname-mismatch" \notin r.cert.issues /\ r.cert.issues \cap Distrust # {} -> "T"
       [] r.cert.issues \cap ({"hostname-mismatch"} \cup Distrust) = {} ->
            IF r.incomplete THEN "?"
            ELSE IF letter # "A" THEN letter
            ELSE IF Blocking(r) # {} THEN "A_minus"
            ELSE IF r.hsts = "long" THEN "A_plus" ELSE "A"
=============================================================================
