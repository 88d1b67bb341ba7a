------------------------------- MODULE Screen -------------------------------
(***************************************************************************)
(* How the page colours a report, public/app.js: the alerts above the      *)
(* cards and the state of every value that the verdict depends on. The     *)
(* report is that of Verdict.                                              *)
(***************************************************************************)
EXTENDS Verdict

If2(condition, one, other) == IF condition THEN one ELSE other

\* flag: yes and no, by which of them is the good one; unknown is muted.
Flag(value, good) == CASE value = "null" -> "muted" [] value = good -> "ok" [] OTHER -> "warn"

\* meter of renderGrade.
Meter(score) == CASE score >= 80 -> "ok" [] score \in 50..79 -> "warn" [] OTHER -> "bad"

OfCertificates == {"certificate_trust", "certificate_expiry", "certificate_name", "certificate_chain"}

\* renderAlerts: the weaknesses that have an alert each.
Critical(r) ==
  LET f == Findings(r)
  IN {id \in DOMAIN f \ OfCertificates : /\ f[id].status = "vulnerable"
                                         /\ f[id].severity \in {"critical", "high"}}

\* Mutant: the certificate is not asked.
AllGoodIfSafe(r) ==
  Critical(r) = {} /\ ~r.incomplete /\ Grade(r) \in {"A_plus", "A", "A_minus"}

\* renderAlerts: the one that says that all is well.
AllGood(r) ==
  /\ Critical(r) = {} /\ r.cert.issues = {} /\ ~r.incomplete
  /\ Grade(r) \in {"A_plus", "A", "A_minus"}

\* The chips of renderHero.
HeroFields(r) ==
  [chip_best |-> If2("TLS 1.3" \in r.protocols, "ok", "warn"),
   chip_days |-> CASE ~r.cert.leaf -> "absent"
                   [] r.cert.leaf /\ r.days < 0 -> "bad"
                   [] r.cert.leaf /\ r.days \in 0..20 -> "warn"
                   [] OTHER -> "ok",
   chip_hsts |-> CASE r.hsts = "long" -> "ok" [] r.hsts = "short" -> "warn" [] OTHER -> "absent"]

\* The tags that explain the letter: the reason of an early return of grade,
\* or else the caps, all in red.
Tags(r) ==
  IF r.incomplete \/ r.cert.issues \cap ({"hostname-mismatch"} \cup Distrust) # {}
    THEN {"reason"} ELSE Caps(r)

\* renderGrade.
GradeFields(r) ==
  [score_protocol |-> Meter(ProtocolScore(r)), score_kex |-> Meter(KeyExchangeScore(r)),
   score_cipher |-> Meter(CipherScore(r)), grade_caps |-> If2(Tags(r) # {}, "bad", "absent")]

\* renderCertificate, which leaves its card alone without a leaf.
CertificateFields(r) ==
  LET own == [cert_to  |-> CASE r.days < 0 -> "bad" [] r.days \in 0..20 -> "warn" [] OTHER -> "ok",
              cert_key |-> CASE r.strength >= 128 -> "ok" [] r.strength \in 112..127 -> "plain" [] OTHER -> "bad",
              cert_sig |-> If2(r.weakSignature, "bad", "ok"),
              cert_sct |-> If2(r.scts > 0, "ok", "warn"),
              cert_muststaple |-> If2(r.mustStaple, "ok", "warn")]
  IN If2(r.cert.leaf, own, [f \in DOMAIN own |-> "skeleton"])

\* renderChain.
ChainFields(r) ==
  LET ours == r.cert.trusted /\ r.cert.store = "mozilla"
  IN [chain_trusted  |-> If2(r.cert.trusted, If2(ours, "ok", "warn"), "bad"),
      chain_complete |-> If2(r.cert.store # "none", "ok", "bad"),
      chain_store    |-> If2(ours, "ok", If2(r.cert.store # "none", "warn", "plain")),
      chain_host     |-> If2(r.cert.leaf /\ "hostname-mismatch" \notin r.cert.issues, "ok", "bad"),
      chain_ocsp     |-> If2(r.stapling, "ok", "warn"),
      chain_revocation |-> CASE "revoked" \in r.cert.issues -> "bad"
                             [] r.cert.leaf /\ r.stapling /\ "revoked" \notin r.cert.issues -> "ok"
                             [] OTHER -> "muted",
      chain_issues   |-> If2(r.cert.issues # {}, "bad", "ok")]

\* renderProtocols.
ProtocolFields(r) ==
  [row_ssl2  |-> If2(r.ssl2, "bad", "ok"), row_ssl3 |-> If2("SSL 3.0" \in r.protocols, "bad", "ok"),
   row_tls10 |-> If2("TLS 1.0" \in r.protocols, "warn", "ok"),
   row_tls11 |-> If2("TLS 1.1" \in r.protocols, "warn", "ok"),
   row_tls12 |-> If2("TLS 1.2" \in r.protocols, "ok", "muted"),
   row_tls13 |-> If2("TLS 1.3" \in r.protocols, "ok", "muted")]

\* renderKeyExchange.
KexFields(r) ==
  LET withPfs == {n \in r.suites : Describe(n).suite.pfs}
  IN [kex_groups |-> If2(r.groups # {}, "ok", "plain"),
      kex_dh  |-> CASE r.dh = Undefined -> "muted" [] r.dh >= 2048 -> "ok" [] OTHER -> "bad",
      kex_pfs |-> CASE r.suites = {} -> "plain" [] r.suites # {} /\ withPfs = r.suites -> "ok"
                    [] withPfs \notin {{}, r.suites} -> "warn" [] OTHER -> "bad"]

\* renderFeatures.
FeatureFields(r) ==
  [f_reneg |-> Flag(r.secureRenegotiation, "true"), f_client_reneg |-> Flag(r.clientRenegotiation, "false"),
   f_compression |-> Flag(r.compression, "false"),  f_fallback |-> Flag(r.fallbackScsv, "true")]

\* renderHttp, which shows no more than the error of a server it does not reach.
HttpFields(r) ==
  [h_status   |-> If2(r.reachable, "ok", "warn"),
   h_redirect |-> If2(~r.reachable, "skeleton", If2(r.plain = "https", "ok", "warn")),
   h_hsts     |-> If2(~r.reachable, "skeleton", If2(r.hsts = "long", "ok", "warn"))]

\* renderVulnerabilities: the state beside each finding.
StatusSeverity(status) ==
  CASE status = "vulnerable" -> "bad"
    [] status \in {"possible", "weak", "missing", "partial", "warning"} -> "warn"
    [] status \in {"mitigated", "unknown"} -> "muted"
    [] status = "safe" -> "ok"

\* The values shown in red, by their ids.
Red(r) ==
  LET In(fields) == {f \in DOMAIN fields : fields[f] = "bad"}
  IN In(HeroFields(r)) \cup In(GradeFields(r)) \cup In(CertificateFields(r)) \cup In(ChainFields(r))
     \cup In(ProtocolFields(r)) \cup In(KexFields(r)) \cup In(FeatureFields(r)) \cup In(HttpFields(r))
=============================================================================
