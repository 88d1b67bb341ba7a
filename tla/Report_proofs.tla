--------------------------- MODULE Report_proofs ---------------------------
(***************************************************************************)
(* Theorems about findings and letters: first of every report, then of     *)
(* every site that can be reached (Sites), which are more than those that  *)
(* the runs build, and last of every change of a site for the worse.       *)
(***************************************************************************)
EXTENDS Report, FiniteSetTheorems, WellFoundedInduction, TLAPS

\* What no finding calls critical and vulnerable unless the site has it.
CriticalIssues == {"not-trusted", "self-signed", "expired", "hostname-mismatch"}

FindingNames ==
  {"drown", "poodle", "beast", "freak", "logjam", "sweet32", "rc4", "null_anon",
   "crime", "heartbleed", "insecure_renegotiation", "client_renegotiation", "robot",
   "lucky13", "downgrade", "no_forward_secrecy", "weak_dh", "certificate_trust",
   "certificate_expiry", "certificate_name", "certificate_chain",
   "weak_certificate_key", "weak_signature", "hsts", "http_redirect"}

LEMMA FindingIds == ASSUME NEW r PROVE DOMAIN Findings(r) = FindingNames
  BY DEF Findings, FindingNames

LEMMA CriticalFindings ==
  ASSUME NEW r, NEW id \in DOMAIN Findings(r), Findings(r)[id] = Finding("critical", "vulnerable")
  PROVE  \/ r.ssl2 \/ Findings(r)["null_anon"].status = "vulnerable"
         \/ r.cert.issues \cap CriticalIssues # {}
<1> DEFINE f == Findings(r)
<1>1. DOMAIN f = FindingNames
  BY FindingIds
<1>2. /\ f["poodle"].severity = "high" /\ f["beast"].severity = "low"
      /\ f["freak"].severity = "high" /\ f["logjam"].severity = "high"
      /\ f["sweet32"].severity = "medium" /\ f["rc4"].severity = "high"
      /\ f["crime"].severity = "high" /\ f["insecure_renegotiation"].severity = "high"
      /\ f["client_renegotiation"].severity = "medium" /\ f["robot"].severity = "medium"
      /\ f["lucky13"].severity = "low" /\ f["downgrade"].severity = "low"
      /\ f["no_forward_secrecy"].severity = "medium" /\ f["weak_dh"].severity = "medium"
      /\ f["certificate_chain"].severity = "medium" /\ f["weak_certificate_key"].severity = "high"
      /\ f["weak_signature"].severity = "high" /\ f["hsts"].severity = "medium"
      /\ f["http_redirect"].severity = "low"
  <2>1. /\ f["poodle"].severity = "high" /\ f["beast"].severity = "low"
        /\ f["freak"].severity = "high" /\ f["logjam"].severity = "high"
    BY DEF Findings, Finding, Vulnerable, ByFeature
  <2>2. /\ f["sweet32"].severity = "medium" /\ f["rc4"].severity = "high"
        /\ f["crime"].severity = "high" /\ f["insecure_renegotiation"].severity = "high"
    BY DEF Findings, Finding, Vulnerable, ByFeature
  <2>3. /\ f["client_renegotiation"].severity = "medium" /\ f["robot"].severity = "medium"
        /\ f["lucky13"].severity = "low" /\ f["downgrade"].severity = "low"
    BY DEF Findings, Finding, Vulnerable, ByFeature
  <2>4. /\ f["no_forward_secrecy"].severity = "medium" /\ f["weak_dh"].severity = "medium"
        /\ f["certificate_chain"].severity = "medium" /\ f["weak_certificate_key"].severity = "high"
    BY DEF Findings, Finding, Vulnerable, ByFeature
  <2>5. /\ f["weak_signature"].severity = "high" /\ f["hsts"].severity = "medium"
        /\ f["http_redirect"].severity = "low"
    BY DEF Findings, Finding, Vulnerable, ByFeature
  <2> QED
    BY <2>1, <2>2, <2>3, <2>4, <2>5
<1>3. f["heartbleed"].status # "vulnerable"
  BY DEF Findings, Finding
<1>4. f["drown"].status = "vulnerable" => r.ssl2
  BY DEF Findings, Finding, Vulnerable
<1>5. /\ f["certificate_trust"].status = "vulnerable" => r.cert.issues \cap {"not-trusted", "self-signed"} # {}
      /\ f["certificate_expiry"].status = "vulnerable" => "expired" \in r.cert.issues
      /\ f["certificate_name"].status = "vulnerable" => "hostname-mismatch" \in r.cert.issues
  BY DEF Findings, Finding, Vulnerable
<1>6. f[id].severity = "critical" /\ f[id].status = "vulnerable"
  BY DEF Finding
<1> HIDE DEF f
<1>7. id \in {"drown", "null_anon", "certificate_trust", "certificate_expiry", "certificate_name"}
  BY <1>1, <1>2, <1>3, <1>6 DEF f, FindingNames
<1>8. r.cert.issues \cap {"not-trusted", "self-signed"} # {} => r.cert.issues \cap CriticalIssues # {}
  BY DEF CriticalIssues
<1>9. "expired" \in r.cert.issues \/ "hostname-mismatch" \in r.cert.issues
        => r.cert.issues \cap CriticalIssues # {}
  BY DEF CriticalIssues
<1> QED
  BY <1>4, <1>5, <1>6, <1>7, <1>8, <1>9 DEF f

\* The letters that the score and the caps can give, by rank.
Letters == {"A", "B", "C", "D", "E", "F", "T"}

LEMMA Ranks ==
  /\ Rank["A"] = 1 /\ Rank["B"] = 3 /\ Rank["C"] = 4 /\ Rank["D"] = 5 /\ Rank["E"] = 6
  /\ Rank["F"] = 7 /\ Rank["T"] = 8 /\ Rank["M"] = 9
  BY DEF Rank

\* Of any of them there is a worst.
LEMMA WorstOfLetters ==
  ASSUME NEW L, L \subseteq Letters, L # {}
  PROVE  Worst(L) \in L /\ \A k \in L : Rank[k] <= Rank[Worst(L)]
<1> DEFINE top == IF "T" \in L THEN "T" ELSE IF "F" \in L THEN "F" ELSE IF "E" \in L THEN "E"
                  ELSE IF "D" \in L THEN "D" ELSE IF "C" \in L THEN "C"
                  ELSE IF "B" \in L THEN "B" ELSE "A"
<1>1. top \in L
  BY DEF Letters
<1>2. ASSUME NEW k \in L PROVE Rank[k] <= Rank[top]
  <2>1. k \in Letters
    OBVIOUS
  <2> QED
    BY <2>1, Ranks DEF Letters
<1> HIDE DEF top
<1> QED
  BY <1>1, <1>2 DEF Worst

LEMMA LettersFor == ASSUME NEW score PROVE LetterFor(score) \in {"A", "B", "C", "D", "E", "F"}
  BY DEF LetterFor

\* Whatever the report, the worst of its letters is one of them, under no cap.
LEMMA WorstIsCapped ==
  ASSUME NEW r
  PROVE  LET letter == Worst({LetterFor(Score(r))} \cup Caps(r))
         IN letter \in Letters /\ \A l \in Caps(r) : Rank[l] <= Rank[letter]
<1> DEFINE L == {LetterFor(Score(r))} \cup Caps(r)
<1>1. Caps(r) \subseteq {"B", "C", "F", "T"}
  BY DEF Caps
<1>2. L \subseteq Letters /\ L # {}
  BY <1>1, LettersFor DEF Letters
<1>3. Worst(L) \in L /\ \A k \in L : Rank[k] <= Rank[Worst(L)]
  BY <1>2, WorstOfLetters
<1> QED
  BY <1>2, <1>3

\* The letter of a report with SSL 2.0 or with suites that encrypt nothing.
LEMMA FailingCaps ==
  ASSUME NEW r, r.ssl2 \/ Findings(r)["null_anon"].status = "vulnerable"
  PROVE  Worst({LetterFor(Score(r))} \cup Caps(r)) \in {"F", "T"}
<1>1. "F" \in Caps(r)
  BY DEF Caps, Capped
<1> QED
  BY <1>1, WorstIsCapped, Ranks DEF Letters

\* A critical weakness fails any report.
LEMMA CriticalGrade ==
  ASSUME NEW r, NEW id \in DOMAIN Findings(r), Findings(r)[id] = Finding("critical", "vulnerable")
  PROVE  Grade(r) \in {"F", "T", "M", "?"}
<1> DEFINE letter == Worst({LetterFor(Score(r))} \cup Caps(r))
<1>1. CASE r.cert.issues \cap CriticalIssues # {}
  <2>1. "hostname-mismatch" \in r.cert.issues \/ r.cert.issues \cap Distrust # {}
    BY <1>1 DEF CriticalIssues, Distrust
  <2>2. CASE "hostname-mismatch" \in r.cert.issues
    BY <2>2 DEF Grade
  <2>3. CASE "hostname-mismatch" \notin r.cert.issues /\ r.cert.issues \cap Distrust # {}
    BY <2>3 DEF Grade
  <2> QED
    BY <2>1, <2>2, <2>3
<1>2. CASE r.ssl2 \/ Findings(r)["null_anon"].status = "vulnerable"
  <2>1. letter \in {"F", "T"}
    BY <1>2, FailingCaps
  <2> QED
    BY <2>1 DEF Grade
<1> QED
  BY <1>1, <1>2, CriticalFindings

(***************************************************************************)
(* Whatever the site: what the findings call critical and vulnerable, the  *)
(* letter fails, or withholds (vulns.js:20-188, grade.js:159-261).         *)
(***************************************************************************)
THEOREM CriticalAlwaysFails == Spec => []CriticalFails
<1>1. ASSUME NEW id \in DOMAIN Findings(Assemble(site)),
             Findings(Assemble(site))[id] = Finding("critical", "vulnerable")
      PROVE  Grade(Assemble(site)) \in {"F", "T", "M", "?"}
  BY <1>1, CriticalGrade
<1>2. CriticalFails
  BY <1>1 DEF CriticalFails
<1> QED
  BY <1>2, PTL

(***************************************************************************)
(* Early returns, caps and bonus never undo each other: no letter is       *)
(* better than a cap that applies to its report (grade.js:144-261).        *)
(***************************************************************************)
THEOREM CapsBind ==
  ASSUME NEW r, NEW l \in Caps(r), Grade(r) # "?"
  PROVE  Rank[l] <= Rank[Grade(r)]
<1> DEFINE letter == Worst({LetterFor(Score(r))} \cup Caps(r))
<1>1. letter \in Letters /\ Rank[l] <= Rank[letter]
  BY WorstIsCapped
<1>2. l \in {"F", "C", "B", "T"}
  BY DEF Caps
<1>3. letter # "A"
  BY <1>1, <1>2, Ranks
<1> HIDE DEF letter
<1>4. Grade(r) \in {letter, "M", "T"}
  BY <1>3 DEF Grade, letter
<1> QED
  BY <1>1, <1>2, <1>4, Ranks
-----------------------------------------------------------------------------
(***************************************************************************)
(* Chains of certificates: what analyzeChain says of one.                  *)
(***************************************************************************)

\* Sets of natural numbers have a least element.
LEMMA LeastOf ==
  ASSUME NEW S, S \subseteq Nat, S # {}
  PROVE  Min(S) \in S /\ \A y \in S : Min(S) <= y
<1> DEFINE R == OpToRel(<, Nat)
<1>1. IsWellFoundedOn(R, Nat)
  BY NatLessThanWellFounded
<1>2. \A x, y \in Nat : x < y => <<x, y>> \in R
  BY DEF OpToRel
<1> HIDE DEF R
<1>3. PICK x \in S : \A y \in S : <<y, x>> \notin R
  BY <1>1, WFMin
<1>4. ASSUME NEW y \in S PROVE x <= y
  <2>1. x \in Nat /\ y \in Nat /\ ~(y < x)
    BY <1>2, <1>3, Zenon
  <2> QED
    BY <2>1
<1> QED
  BY <1>4 DEF Min

\* The certificates that can be parsed are a list, which a leaf that can be
\* parsed is the first of.
LEMMA ParsedList ==
  ASSUME NEW S, NEW chain \in Seq(S)
  PROVE  /\ \E T : Parsed(chain) \in Seq(T)
         /\ chain # <<>> /\ ~chain[1].unparsable =>
              1 \in DOMAIN Parsed(chain) /\ Parsed(chain)[1] = chain[1]
<1> DEFINE kept   == {i \in DOMAIN chain : ~chain[i].unparsable}
           k      == Cardinality(kept)
           Upto(i) == {j \in kept : j <= i}
           Nth(n) == CHOOSE i \in kept : Cardinality(Upto(i)) = n
<1>1. Parsed(chain) = [n \in 1..k |-> chain[Nth(n)]]
  BY DEF Parsed
<1>2. IsFiniteSet(kept) /\ k \in Nat
  <2>1. IsFiniteSet(1..Len(chain))
    BY FS_Interval
  <2>2. kept \subseteq 1..Len(chain)
    OBVIOUS
  <2> QED
    BY <2>1, <2>2, FS_Subset, FS_CardinalityType
<1>3. \E T : Parsed(chain) \in Seq(T)
  <2> DEFINE T == {chain[Nth(n)] : n \in 1..k}
  <2> HIDE DEF k, Nth
  <2>1. Parsed(chain) \in [1..k -> T]
    BY <1>1
  <2>2. k \in Nat
    BY <1>2
  <2> HIDE DEF T
  <2>3. \A n \in Nat : [1..n -> T] \subseteq Seq(T)
    OBVIOUS
  <2>4. Parsed(chain) \in Seq(T)
    BY <2>1, <2>2, <2>3
  <2> QED
    BY <2>4
<1>4. ASSUME chain # <<>>, ~chain[1].unparsable
      PROVE  1 \in DOMAIN Parsed(chain) /\ Parsed(chain)[1] = chain[1]
  <2>1. 1 \in kept
    BY <1>4
  <2>2. k >= 1
    BY <1>2, <2>1, FS_EmptySet
  <2>3. Upto(1) = {1}
    BY <2>1
  <2>4. Cardinality(Upto(1)) = 1
    BY <2>3, FS_Singleton
  <2>5. ASSUME NEW i \in kept, i # 1 PROVE Cardinality(Upto(i)) # 1
    <3>1. 1 \in Upto(i) /\ i \in Upto(i)
      BY <2>1, <2>5
    <3>2. IsFiniteSet(Upto(i))
      BY <1>2, FS_Subset
    <3>3. Cardinality(Upto(i)) = 1 => \E x : Upto(i) = {x}
      BY <3>2, FS_Singleton
    <3> QED
      BY <2>5, <3>1, <3>3
  <2>6. Nth(1) = 1
    BY <2>1, <2>4, <2>5
  <2> HIDE DEF kept, k, Nth
  <2> QED
    BY <1>1, <1>2, <2>2, <2>6
<1> QED
  BY <1>3, <1>4
\* What analyzeChain says of a chain with a leaf.
Says(c, chain, anchors, named, revoked) ==
  LET certs  == Parsed(chain)
      anchor == FindAnchor(certs, anchors)
  IN /\ c.leaf = TRUE /\ c.store = anchor.store
     /\ c.trusted <=> /\ anchor # None /\ Signed(certs) /\ ~revoked
                      /\ chain[1].date \notin {"past", "future"}
     /\ "not-trusted" \in c.issues <=> ~c.trusted
     /\ "expired" \in c.issues <=> chain[1].date = "past"
     /\ "not-yet-valid" \in c.issues <=> chain[1].date = "future"
     /\ "revoked" \in c.issues <=> revoked
     /\ "bad-signature" \in c.issues <=> ~Signed(certs)
     /\ "incomplete-chain" \in c.issues <=> anchor = None
     /\ "trusted-by-extra-root" \in c.issues <=> anchor.store \notin {"none", Mozilla}
     /\ "hostname-mismatch" \in c.issues <=> ~named
     /\ "self-signed" \in c.issues <=> SelfNamed(chain[1])
     /\ "weak-key" \in c.issues <=> WeakKey(chain[1].strength)
     /\ "over-long-validity" \in c.issues <=> chain[1].days > 398
     /\ "weak-signature-algorithm" \in c.issues <=>
          \E x \in ToSet(certs) : x.weakSignature /\ ~SelfNamed(x)

LEMMA Analyzed ==
  ASSUME NEW chain, chain # <<>>, ~chain[1].unparsable,
         NEW anchors, NEW named \in BOOLEAN, NEW revoked \in BOOLEAN
  PROVE  Says(Analyze(chain, anchors, named, revoked), chain, anchors, named, revoked)
<1> DEFINE certs  == Parsed(chain)
           anchor == FindAnchor(certs, anchors)
           problems ==
             If(~Ordered(certs), "chain-out-of-order")
             \cup If(Len(certs) > 1 /\ SelfNamed(Last(certs)), "root-included")
             \cup If(anchor = None, "incomplete-chain")
             \cup If(anchor.store \notin {"none", Mozilla}, "trusted-by-extra-root")
             \cup If(~Signed(certs), "bad-signature")
             \cup If(chain[1].date = "past", "expired")
             \cup If(chain[1].date = "future", "not-yet-valid")
             \cup If(\E i \in 2..Len(certs) : certs[i].date = "past", "expired-intermediate")
             \cup If(~named, "hostname-mismatch")
             \cup If(WeakKey(chain[1].strength), "weak-key")
             \cup If(\E x \in ToSet(certs) : x.weakSignature /\ ~SelfNamed(x), "weak-signature-algorithm")
             \cup If(SelfNamed(chain[1]), "self-signed")
             \cup If(chain[1].days > 398, "over-long-validity")
             \cup If(chain[1].scts = 0, "no-sct")
             \cup If(revoked, "revoked")
           trusted == anchor # None /\ problems \cap {"expired", "not-yet-valid", "bad-signature", "revoked"} = {}
<1>1. Analyze(chain, anchors, named, revoked) =
        [trusted |-> trusted, leaf |-> TRUE, store |-> anchor.store,
         issues |-> problems \cup If(~trusted, "not-trusted")]
  BY DEF Analyze
<1>2. /\ "expired" \in problems <=> chain[1].date = "past"
      /\ "not-yet-valid" \in problems <=> chain[1].date = "future"
      /\ "revoked" \in problems <=> revoked
      /\ "bad-signature" \in problems <=> ~Signed(certs)
      /\ "incomplete-chain" \in problems <=> anchor = None
      /\ "trusted-by-extra-root" \in problems <=> anchor.store \notin {"none", Mozilla}
      /\ "hostname-mismatch" \in problems <=> ~named
      /\ "self-signed" \in problems <=> SelfNamed(chain[1])
      /\ "weak-key" \in problems <=> WeakKey(chain[1].strength)
      /\ "over-long-validity" \in problems <=> chain[1].days > 398
      /\ "weak-signature-algorithm" \in problems <=>
           \E x \in ToSet(certs) : x.weakSignature /\ ~SelfNamed(x)
      /\ "not-trusted" \notin problems
  <2> HIDE DEF certs, anchor
  <2> QED
    BY DEF If
<1> HIDE DEF problems, anchor, certs
<1>3. trusted <=> /\ anchor # None /\ Signed(certs) /\ ~revoked
                  /\ chain[1].date \notin {"past", "future"}
  BY <1>2
<1> HIDE DEF trusted
<1>4. \A name \in {"expired", "not-yet-valid", "revoked", "bad-signature", "incomplete-chain",
                   "trusted-by-extra-root", "hostname-mismatch", "self-signed", "weak-key",
                   "over-long-validity", "weak-signature-algorithm"} :
        name \in Analyze(chain, anchors, named, revoked).issues <=> name \in problems
  BY <1>1 DEF If
<1>5. "not-trusted" \in Analyze(chain, anchors, named, revoked).issues <=> ~trusted
  BY <1>1, <1>2 DEF If
<1> QED
  BY <1>1, <1>2, <1>3, <1>4, <1>5 DEF Says, certs, anchor
\* The anchor that findAnchor finds is one of those that issued a certificate
\* of the chain, and one of Mozilla's where there is any (trust.js:106-124).
LEMMA AnchorFound ==
  ASSUME NEW chain, DOMAIN chain \subseteq Nat, NEW anchors, DOMAIN anchors \subseteq Nat
  PROVE  LET found == Anchored(chain, anchors)
             a     == FindAnchor(chain, anchors)
         IN /\ found = {} => a = None
            /\ found # {} => \E m \in found : a.store = anchors[m[2]].store
            /\ (\E m \in found : anchors[m[2]].store = Mozilla) => a.store = Mozilla
<1> DEFINE found == Anchored(chain, anchors)
           ours  == {m \in found : anchors[m[2]].store = Mozilla}
           all   == IF ours # {} THEN ours ELSE found
           i     == Min({m[1] : m \in all})
           J     == {m[2] : m \in {n \in all : n[1] = i}}
<1>1. FindAnchor(chain, anchors) =
        IF all = {} THEN None ELSE [store |-> anchors[Min(J)].store, position |-> i]
  BY DEF FindAnchor
<1>2. found \subseteq (DOMAIN chain) \X (DOMAIN anchors) /\ all \subseteq found
  BY DEF Anchored
<1>3. ASSUME all # {} PROVE \E m \in all : Min(J) = m[2]
  <2> HIDE DEF all
  <2>1. {m[1] : m \in all} \subseteq Nat /\ {m[1] : m \in all} # {}
    BY <1>2, <1>3
  <2>2. i \in {m[1] : m \in all}
    BY <2>1, LeastOf
  <2> HIDE DEF i
  <2>3. J \subseteq Nat /\ J # {}
    BY <1>2, <2>2
  <2>4. Min(J) \in J
    BY <2>3, LeastOf
  <2> QED
    BY <2>4
<1> HIDE DEF i, J
<1>4. all # {} => \E m \in all : FindAnchor(chain, anchors).store = anchors[m[2]].store
  BY <1>1, <1>3
<1>5. (found = {} => all = {}) /\ (found # {} => all # {})
  OBVIOUS
<1>6. ours # {} => all = ours
  OBVIOUS
<1> HIDE DEF all
<1> QED
  BY <1>1, <1>2, <1>4, <1>5, <1>6

LEMMA TheAnchors == DOMAIN Anchors = 1..2 /\ Anchors[1].store = "extra" /\ Anchors[2].store = Mozilla
  BY DEF Anchors

\* A path of signatures to an anchor of some stores: the chain is signed, and
\* a certificate of it was issued by such an anchor.
LEMMA SignedPath ==
  ASSUME NEW s, NEW S, s.chain \in Seq(S), Signed(Parsed(s.chain)),
         NEW m \in Anchored(Parsed(s.chain), Anchors), NEW stores, Anchors[m[2]].store \in stores
  PROVE  PathTo(s, stores)
<1> DEFINE sent == Parsed(s.chain)
<1>1. PICK T : sent \in Seq(T)
  BY ParsedList
<1> HIDE DEF sent
<1>2. /\ m[1] \in DOMAIN sent /\ m[2] \in DOMAIN Anchors
      /\ Issued(sent[m[1]], Anchors[m[2]].cert) /\ Verifies(sent[m[1]], Anchors[m[2]].cert)
  BY DEF Anchored, sent
<1>3. \A i \in 1..(m[1] - 1) : sent[i].signer = sent[i + 1].key
  BY <1>1, <1>2 DEF Signed, Verifies, sent
<1>4. Anchors[m[2]] \in ToSet(Anchors)
  BY <1>2 DEF ToSet
<1> QED
  BY <1>2, <1>3, <1>4 DEF PathTo, Issued, Verifies, sent

LEMMA PathAnchors ==
  ASSUME NEW s, NEW stores, PathTo(s, stores)
  PROVE  \E m \in Anchored(Parsed(s.chain), Anchors) : Anchors[m[2]].store \in stores
<1> DEFINE sent == Parsed(s.chain)
<1>1. PICK n \in DOMAIN sent, a \in ToSet(Anchors) :
        a.store \in stores /\ a.cert.subject = sent[n].issuer /\ a.cert.key = sent[n].signer
  BY DEF PathTo
<1>2. PICK j \in DOMAIN Anchors : Anchors[j] = a
  BY <1>1 DEF ToSet
<1> HIDE DEF sent
<1>3. <<n, j>> \in Anchored(sent, Anchors)
  BY <1>1, <1>2 DEF Anchored, Issued, Verifies
<1> QED
  BY <1>1, <1>2, <1>3 DEF sent
-----------------------------------------------------------------------------
(***************************************************************************)
(* The sites that getting worse leads to.                                  *)
(***************************************************************************)
Tri == {"true", "false", "null"}

KeySizes == {40, 80, 112, 128}

Certs ==
  [subject : {"site", "mid", "root", "extra"}, issuer : {"site", "mid", "root", "extra"},
   key : {"kl", "km", "kr", "ke", "kf"}, signer : {"kl", "km", "kr", "ke", "kf"},
   date : {"fresh", "soon", "past", "future"}, days : {90, 400}, scts : {0, 2},
   strength : KeySizes, weakSignature : BOOLEAN, unparsable : BOOLEAN]

CertLists == Seq(Certs)

Groups == {Undefined, 512, 1024, 2048, 4096}

Sites ==
  [protocols : SUBSET ToSet(Versions), ssl2 : BOOLEAN, suites : SUBSET (Registry \cup {UnknownSuite}),
   groups : SUBSET {80, 112, 128}, dh : Groups, chain : CertLists,
   named : BOOLEAN, stapled : {"good", "none", "revoked"}, mustStaple : BOOLEAN,
   compression : Tri, heartbeat : Tri, secureRenegotiation : Tri, clientRenegotiation : Tri,
   fallbackScsv : Tri, hsts : {"long", "short", "none"}, plain : {"https", "skipped"},
   reachable : BOOLEAN, incomplete : BOOLEAN]

\* What the report says of the chain.
LEMMA CertOf ==
  ASSUME NEW s
  PROVE  Assemble(s).cert = Analyze(s.chain, Anchors, s.named, s.stapled = "revoked")
  BY DEF Assemble, Assembled

\* A leaf is the first certificate, where that can be parsed.
LEMMA LeafIsFirst ==
  ASSUME NEW s \in Sites
  PROVE  /\ Assemble(s).cert.leaf <=> s.chain # <<>> /\ ~s.chain[1].unparsable
         /\ Assemble(s).cert.leaf \in BOOLEAN /\ Assemble(s).cert.trusted \in BOOLEAN
         /\ ~Assemble(s).cert.leaf => /\ ~Assemble(s).cert.trusted
                                      /\ Assemble(s).cert.issues \in {{"no-certificates"}, {"unparsable-certificate"}}
<1> DEFINE c == Analyze(s.chain, Anchors, s.named, s.stapled = "revoked")
<1>1. c = Assemble(s).cert
  BY CertOf
<1>2. CASE s.chain = <<>>
  <2>1. c = [trusted |-> FALSE, leaf |-> FALSE, issues |-> {"no-certificates"}, store |-> "none"]
    BY <1>2 DEF Analyze
  <2> HIDE DEF c
  <2>2. c.trusted = FALSE /\ c.leaf = FALSE /\ c.issues = {"no-certificates"}
    BY <2>1
  <2> QED
    BY <1>1, <1>2, <2>2
<1>3. CASE s.chain # <<>> /\ s.chain[1].unparsable
  <2>1. c = [trusted |-> FALSE, leaf |-> FALSE, issues |-> {"unparsable-certificate"}, store |-> "none"]
    BY <1>3 DEF Analyze
  <2> HIDE DEF c
  <2>2. c.trusted = FALSE /\ c.leaf = FALSE /\ c.issues = {"unparsable-certificate"}
    BY <2>1
  <2> QED
    BY <1>1, <1>3, <2>2
<1>4. CASE s.chain # <<>> /\ ~s.chain[1].unparsable
  <2>1. s.named \in BOOLEAN /\ (s.stapled = "revoked") \in BOOLEAN
    BY DEF Sites
  <2> HIDE DEF c
  <2>2. c.leaf = TRUE
    BY <1>4, <2>1, Analyzed DEF c, Says
  <2>3. c.trusted \in BOOLEAN
    BY <1>4 DEF c, Analyze
  <2> QED
    BY <1>1, <1>4, <2>2, <2>3
<1> QED
  BY <1>2, <1>3, <1>4

\* Of the chain of a site with a leaf.
LEMMA LeafSays ==
  ASSUME NEW s \in Sites, Assemble(s).cert.leaf
  PROVE  Says(Assemble(s).cert, s.chain, Anchors, s.named, s.stapled = "revoked")
<1> DEFINE chain == s.chain  named == s.named  revoked == s.stapled = "revoked"
<1>1. named \in BOOLEAN /\ revoked \in BOOLEAN
  BY DEF Sites
<1>2. chain # <<>> /\ ~chain[1].unparsable
  BY LeafIsFirst
<1>3. Assemble(s).cert = Analyze(chain, Anchors, named, revoked)
  BY CertOf
<1> HIDE DEF chain, named, revoked
<1>4. Says(Assemble(s).cert, chain, Anchors, named, revoked)
  BY <1>1, <1>2, <1>3, Analyzed
<1> QED
  BY <1>4 DEF chain, named, revoked

\* Trust and the doubt about it, by the paths that the chain has.
LEMMA TrustPaths ==
  ASSUME NEW s \in Sites, Assemble(s).cert.trusted
  PROVE  /\ PathTo(s, {a.store : a \in ToSet(Anchors)})
         /\ PathTo(s, {Mozilla}) <=> "trusted-by-extra-root" \notin Assemble(s).cert.issues
<1> DEFINE certs  == Parsed(s.chain)
           found  == Anchored(certs, Anchors)
           anchor == FindAnchor(certs, Anchors)
<1>1. Assemble(s).cert.leaf
  BY LeafIsFirst
<1>2. /\ anchor # None /\ Signed(certs)
      /\ "trusted-by-extra-root" \in Assemble(s).cert.issues <=> anchor.store \notin {"none", Mozilla}
  BY <1>1, LeafSays DEF Says
<1>3. s.chain \in Seq(Certs)
  BY DEF Sites, CertLists
<1>4. DOMAIN certs \subseteq Nat /\ DOMAIN Anchors \subseteq Nat
  <2>1. PICK T : certs \in Seq(T)
    BY <1>3, ParsedList
  <2> HIDE DEF certs
  <2> QED
    BY <2>1, TheAnchors
<1>5. /\ found = {} => anchor = None
      /\ found # {} => \E m \in found : anchor.store = Anchors[m[2]].store
      /\ (\E m \in found : Anchors[m[2]].store = Mozilla) => anchor.store = Mozilla
  BY <1>4, AnchorFound
<1>6. PICK m \in found : anchor.store = Anchors[m[2]].store
  BY <1>2, <1>5
<1>7. m[2] \in DOMAIN Anchors
  BY <1>6 DEF Anchored
<1>8. Anchors[m[2]].store \in {a.store : a \in ToSet(Anchors)}
  BY <1>7 DEF ToSet
<1>9. PathTo(s, {a.store : a \in ToSet(Anchors)})
  BY <1>2, <1>3, <1>6, <1>8, SignedPath
<1>10. ASSUME PathTo(s, {Mozilla}) PROVE anchor.store = Mozilla
  BY <1>5, <1>10, PathAnchors
<1>11. ASSUME anchor.store \in {"none", Mozilla} PROVE PathTo(s, {Mozilla})
  <2>1. Anchors[m[2]].store \in {Mozilla}
    BY <1>6, <1>7, <1>11, TheAnchors DEF Mozilla
  <2> QED
    BY <1>2, <1>3, <1>6, <2>1, SignedPath
<1> QED
  BY <1>2, <1>9, <1>10, <1>11

\* Trust is earned by whatever site.
LEMMA SitesEarn == ASSUME NEW s \in Sites PROVE Earns(s, Assemble(s))
<1> DEFINE r == Assemble(s)
<1>1. ASSUME r.cert.trusted
      PROVE  /\ PathTo(s, {a.store : a \in ToSet(Anchors)})
             /\ s.chain[1].date \in {"fresh", "soon"} /\ s.stapled # "revoked"
             /\ PathTo(s, {Mozilla}) <=> "trusted-by-extra-root" \notin r.cert.issues
  <2>1. r.cert.leaf /\ s.chain # <<>>
    BY <1>1, LeafIsFirst
  <2>2. s.chain[1].date \in {"fresh", "soon", "past", "future"}
    <3>1. s.chain \in Seq(Certs)
      BY DEF Sites, CertLists
    <3>2. s.chain[1] \in Certs
      BY <2>1, <3>1
    <3> QED
      BY <3>2 DEF Certs
  <2>3. s.chain[1].date \notin {"past", "future"} /\ s.stapled # "revoked"
    BY <1>1, <2>1, LeafSays DEF Says
  <2> QED
    BY <1>1, <2>2, <2>3, TrustPaths
<1>2. ASSUME r.cert.leaf, ~r.cert.trusted PROVE Grade(r) \in {"T", "M"}
  <2>1. "not-trusted" \in r.cert.issues
    BY <1>2, LeafSays DEF Says
  <2>2. r.cert.issues \cap Distrust # {}
    BY <2>1 DEF Distrust
  <2> HIDE DEF r
  <2>3. CASE "hostname-mismatch" \in r.cert.issues
    BY <2>3 DEF Grade
  <2>4. CASE "hostname-mismatch" \notin r.cert.issues
    BY <2>2, <2>4 DEF Grade
  <2> QED
    BY <2>3, <2>4
<1> QED
  BY <1>1, <1>2 DEF Earns
-----------------------------------------------------------------------------
(***************************************************************************)
(* The suites of the registry: what the parts of a name tell together.     *)
(***************************************************************************)
Lefts ==
  {"ECDHE_ECDSA", "ECDHE_RSA", "ECDHE_PSK", "ECDH_ECDSA", "ECDH_RSA", "ECDH_anon", "DHE_RSA",
   "DHE_DSS", "DHE_PSK", "DH_RSA", "DH_DSS", "DH_anon", "RSA_PSK", "RSA", "PSK", "SRP_SHA_RSA",
   "SRP_SHA_DSS", "SRP_SHA", "KRB5", "NULL", "TLS13"}

\* Short keys are those of NULL and DES, unless a suite is for export.
ProperRight(r) ==
  /\ r.cipher \in {"AES", "CAMELLIA", "ARIA", "SEED", "IDEA", "CHACHA20", "RC4", "3DES", "DES", "NULL"}
  /\ Bits(r) \in {0, 56, 112, 128, 256}
  /\ Bits(r) < 112 => r.cipher \in {"NULL", "DES"}
  /\ Bits(r) = 112 => r.cipher = "3DES"

ExportRight(r) == r.cipher \in {"DES40", "DES", "RC4", "RC2"} /\ Bits(r) \in {40, 56}

Proper(n) ==
  /\ n.left \in Lefts /\ n.export \in BOOLEAN
  /\ IF n.export THEN n.left \in Prime /\ ExportRight(n.right) ELSE ProperRight(n.right)

LEMMA PlainProper ==
  ASSUME NEW lefts, lefts \subseteq Lefts, NEW rights, \A r \in rights : ProperRight(r)
  PROVE  \A n \in Plain(lefts, rights) : Proper(n)
  BY DEF Plain, Proper

LEMMA ExportProper ==
  ASSUME NEW lefts, lefts \subseteq Prime, NEW rights, \A r \in rights : ExportRight(r)
  PROVE  \A n \in Export(lefts, rights) : Proper(n)
<1>1. lefts \subseteq Lefts
  BY DEF Prime, Lefts
<1> QED
  BY <1>1 DEF Export, Proper

LEMMA ProperRights ==
  /\ \A h : ProperRight(Clear(h)) /\ ProperRight(Stream(128, h))
  /\ \A c \in {"DES", "3DES", "IDEA", "SEED"} : \A h : ProperRight(Block(c, 0, h))
  /\ \A c \in {"AES", "CAMELLIA", "ARIA"}, l \in {128, 256} : \A m, h : ProperRight(Right(c, l, m, h))
  /\ ProperRight(ChaCha)
<1>1. ASSUME NEW h PROVE ProperRight(Clear(h)) /\ ProperRight(Stream(128, h))
  BY DEF ProperRight, Clear, Stream, Right, Bits
<1>2. ASSUME NEW c \in {"DES", "3DES", "IDEA", "SEED"}, NEW h PROVE ProperRight(Block(c, 0, h))
  BY DEF ProperRight, Block, Right, Bits
<1>3. ASSUME NEW c \in {"AES", "CAMELLIA", "ARIA"}, NEW l \in {128, 256}, NEW m, NEW h
      PROVE  ProperRight(Right(c, l, m, h))
  BY DEF ProperRight, Right, Bits
<1>4. ProperRight(ChaCha)
  BY DEF ProperRight, ChaCha, Right, Bits
<1> QED
  BY <1>1, <1>2, <1>3, <1>4

LEMMA ProperFamilies ==
  ASSUME NEW c \in {"AES", "CAMELLIA", "ARIA"}
  PROVE  \A r \in Sha1(c) \cup Sha2(c) \cup Gcm(c) \cup {Block(c, l, "SHA256") : l \in {128, 256}} :
           ProperRight(r)
  BY ProperRights DEF Sha1, Sha2, Gcm, Block

LEMMA ProperCcm == \A mode : \A r \in Ccm(mode) : ProperRight(r)
  BY ProperRights DEF Ccm

LEMMA TLS13Proper == \A n \in TLS13Suites : Proper(n)
<1>1. \A r \in Gcm("AES") \cup {ChaCha, Right("AES", 128, "CCM", "SHA256"),
                                 Right("AES", 128, "CCM_8", "SHA256")} : ProperRight(r)
  BY ProperRights, ProperFamilies
<1> QED
  BY <1>1, PlainProper DEF TLS13Suites, Lefts

LEMMA FirstProper == \A n \in FirstSuites : Proper(n)
<1> USE ProperRights, ProperFamilies
<1>1. \A n \in Plain({"NULL"}, {Clear("none")}) : Proper(n)
  BY PlainProper DEF Lefts
<1>2. \A n \in Plain({"RSA"}, {Clear(h) : h \in {"MD5", "SHA", "SHA256"}}
                      \cup {Stream(128, "MD5"), Stream(128, "SHA"), Block("IDEA", 0, "SHA")}) : Proper(n)
  BY PlainProper DEF Lefts
<1>3. \A n \in Plain(Prime, {Block("DES", 0, "SHA"), TripleDES, Block("SEED", 0, "SHA"),
                     Block("AES", 128, "SHA256"), Block("AES", 256, "SHA256")}
                    \cup Sha1("AES") \cup Sha1("CAMELLIA")) : Proper(n)
  <2>1. Prime \subseteq Lefts
    BY DEF Prime, Lefts
  <2>2. ProperRight(Block("AES", 128, "SHA256")) /\ ProperRight(Block("AES", 256, "SHA256"))
        /\ ProperRight(TripleDES)
    BY DEF TripleDES, Block
  <2> QED
    BY <2>1, <2>2, PlainProper
<1>4. \A n \in Plain(Prime \cup Psk, Gcm("AES")) : Proper(n)
  BY PlainProper DEF Lefts, Prime, Psk
<1>5. \A n \in Plain(Psk, {Stream(128, "SHA"), TripleDES, Clear("SHA256"), Clear("SHA384")}
                  \cup Sha1("AES") \cup Sha2("AES")) : Proper(n)
  <2>1. ProperRight(TripleDES) /\ Psk \subseteq Lefts
    BY DEF TripleDES, Psk, Lefts
  <2> QED
    BY <2>1, PlainProper
<1>6. \A n \in Plain({"KRB5"}, {Block(c, 0, h) : c \in {"DES", "3DES"}, h \in {"SHA", "MD5"}}
                       \cup {Stream(128, "SHA"), Stream(128, "MD5")}) : Proper(n)
  BY PlainProper DEF Lefts
<1>7. \A n \in Plain({"DH_anon"}, {Stream(128, "MD5")}) \cup Plain({"DHE_DSS"}, {Stream(128, "SHA")}) : Proper(n)
  BY PlainProper DEF Lefts
<1>8. /\ \A h : \A l \in {40, 56} : ExportRight(Stream(l, h)) /\ ExportRight(Block("RC2", l, h))
      /\ \A h : ExportRight(Block("DES40", 0, h)) /\ ExportRight(Block("DES", 0, h))
  <2>1. ASSUME NEW h, NEW l \in {40, 56} PROVE ExportRight(Stream(l, h)) /\ ExportRight(Block("RC2", l, h))
    BY DEF ExportRight, Stream, Block, Right, Bits
  <2>2. ASSUME NEW h PROVE ExportRight(Block("DES40", 0, h)) /\ ExportRight(Block("DES", 0, h))
    BY DEF ExportRight, Block, Right, Bits
  <2> QED
    BY <2>1, <2>2
<1>9. \A n \in Export(Prime, {Block("DES40", 0, "SHA")})
               \cup Export({"RSA", "DH_anon"}, {Stream(40, "MD5")})
               \cup Export({"RSA", "DHE_DSS"}, {Block("DES", 0, "SHA"), Stream(56, "SHA")})
               \cup Export({"RSA"}, {Block("RC2", 40, "MD5"), Block("RC2", 56, "MD5"), Stream(56, "MD5")}) :
        Proper(n)
  <2>1. {"RSA", "DH_anon", "DHE_DSS"} \subseteq Prime
    BY DEF Prime
  <2>2. \A n \in Export(Prime, {Block("DES40", 0, "SHA")}) : Proper(n)
    BY <1>8, ExportProper
  <2>3. \A n \in Export({"RSA", "DH_anon"}, {Stream(40, "MD5")}) : Proper(n)
    BY <1>8, <2>1, ExportProper
  <2>4. \A n \in Export({"RSA", "DHE_DSS"}, {Block("DES", 0, "SHA"), Stream(56, "SHA")}) : Proper(n)
    BY <1>8, <2>1, ExportProper
  <2>5. \A n \in Export({"RSA"}, {Block("RC2", 40, "MD5"), Block("RC2", 56, "MD5"), Stream(56, "MD5")}) :
          Proper(n)
    BY <1>8, <2>1, ExportProper
  <2> QED
    BY <2>2, <2>3, <2>4, <2>5
<1> QED
  BY <1>1, <1>2, <1>3, <1>4, <1>5, <1>6, <1>7, <1>9 DEF FirstSuites

LEMMA LaterProper == \A n \in LaterSuites : Proper(n)
<1> USE ProperRights, ProperFamilies
<1>1. \A n \in Plain(Prime, {Block("CAMELLIA", l, "SHA256") : l \in {128, 256}}) : Proper(n)
  BY PlainProper DEF Lefts, Prime, Block
<1>2. \A n \in Plain(Curve \cup {"ECDH_anon", "ECDHE_PSK"}, {Clear("SHA"), Stream(128, "SHA")}) : Proper(n)
  BY PlainProper DEF Lefts, Curve
<1>3. \A n \in Plain(Curve \cup {"ECDH_anon", "ECDHE_PSK", "SRP_SHA", "SRP_SHA_RSA", "SRP_SHA_DSS"},
             {TripleDES} \cup Sha1("AES")) : Proper(n)
  BY PlainProper DEF Lefts, Curve, TripleDES
<1>4. \A n \in Plain(Curve, Gcm("AES") \cup Sha2("CAMELLIA")) : Proper(n)
  BY PlainProper DEF Lefts, Curve
<1>5. \A n \in Plain(Curve \cup {"ECDHE_PSK"}, Sha2("AES"))
               \cup Plain({"ECDHE_PSK"}, {Clear("SHA256"), Clear("SHA384")}) : Proper(n)
  BY PlainProper DEF Lefts, Curve
<1>6. \A n \in Plain(Late, Sha2("ARIA") \cup Gcm("ARIA") \cup Gcm("CAMELLIA")) : Proper(n)
  BY PlainProper DEF Lefts, Late
<1>7. \A n \in Plain(Late \ {"ECDHE_RSA"}, Ccm("CCM") \cup Ccm("CCM_8"))
               \cup Plain({"PSK"}, Ccm("CCM")) : Proper(n)
  BY ProperCcm, PlainProper DEF Lefts, Late
<1>8. \A n \in Plain(Psk \cup (Late \ {"RSA"}) \cup {"ECDHE_PSK"}, {ChaCha}) : Proper(n)
  BY PlainProper DEF Lefts, Late, Psk
<1> QED
  BY <1>1, <1>2, <1>3, <1>4, <1>5, <1>6, <1>7, <1>8 DEF LaterSuites

LEMMA RegistryProper == \A n \in Registry : Proper(n)
  BY TLS13Proper, FirstProper, LaterProper DEF Registry
\* The key exchange that a name stands for.
LEMMA Exchanges ==
  ASSUME NEW n, n.left \in Lefts
  PROVE  /\ Exchange(n)[2] = "anon" <=> n.left \in {"DH_anon", "ECDH_anon", "SRP_SHA"}
         /\ n.left \in Prime => Exchange(n)[1] \in {"RSA", "DHE", "DH"}
         /\ Exchange(n)[1] # "unknown"
<1>1. CASE n.left = "TLS13"
  BY <1>1 DEF Exchange, Prime
<1>2. CASE n.left # "TLS13"
  <2>1. Exchange(n) = KeyExchanges[n.left]
    BY <1>2 DEF Exchange, Lefts
  <2>2. \A l \in Lefts \ {"TLS13"} :
          /\ KeyExchanges[l][2] = "anon" <=> l \in {"DH_anon", "ECDH_anon", "SRP_SHA"}
          /\ l \in Prime => KeyExchanges[l][1] \in {"RSA", "DHE", "DH"}
          /\ KeyExchanges[l][1] # "unknown"
    BY DEF Lefts, KeyExchanges, Prime
  <2> QED
    BY <1>2, <2>1, <2>2
<1> QED
  BY <1>1, <1>2

\* What describeSuite says of a suite.
LEMMA DescribeSays ==
  ASSUME NEW n
  PROVE  LET d == Describe(n).suite
         IN /\ d.kx = Exchange(n)[1] /\ d.auth = Exchange(n)[2]
            /\ d.encryption = IF n.right.cipher = "DES40" THEN "DES" ELSE n.right.cipher
            /\ d.bits = Bits(n.right) /\ d.export = n.export
            /\ d.pfs <=> Exchange(n)[1] \in {"ECDHE", "DHE"}
            /\ d.anonymous <=> Exchange(n)[2] = "anon"
            /\ Describe(n).strength = Strength(d)
  BY DEF Describe

\* What of the suites a finding takes to be called a weakness.
LEMMA SuiteFindings ==
  ASSUME NEW r
  PROVE  /\ Findings(r)["freak"].status = "vulnerable" <=> \E d \in Described(r) : d.export /\ d.kx = "RSA"
         /\ Findings(r)["logjam"].status = "vulnerable" <=>
              \/ \E d \in Described(r) : d.export /\ d.kx \in {"DHE", "DH"}
              \/ r.dh # Undefined /\ r.dh < 1024
         /\ Findings(r)["sweet32"].status = "vulnerable" <=>
              \E d \in Described(r) : d.encryption \in {"3DES", "IDEA", "DES"}
         /\ Findings(r)["rc4"].status = "vulnerable" <=> \E d \in Described(r) : d.encryption = "RC4"
         /\ Findings(r)["null_anon"].status = "vulnerable" <=>
              \E d \in Described(r) : d.encryption = "NULL" \/ d.anonymous
         /\ Findings(r)["no_forward_secrecy"].status = "vulnerable" <=>
              r.suites # {} /\ ~\E n \in r.suites : Describe(n).suite.pfs
<1>1. Findings(r)["freak"].status = "vulnerable" <=> \E d \in Described(r) : d.export /\ d.kx = "RSA"
  BY DEF Findings, Finding, Vulnerable
<1>2. Findings(r)["logjam"].status = "vulnerable" <=>
        \/ \E d \in Described(r) : d.export /\ d.kx \in {"DHE", "DH"}
        \/ r.dh # Undefined /\ r.dh < 1024
  BY DEF Findings, Finding, Vulnerable
<1>3. /\ Findings(r)["sweet32"].status = "vulnerable" <=>
           \E d \in Described(r) : d.encryption \in {"3DES", "IDEA", "DES"}
      /\ Findings(r)["rc4"].status = "vulnerable" <=> \E d \in Described(r) : d.encryption = "RC4"
  BY DEF Findings, Finding, Vulnerable
<1>4. Findings(r)["null_anon"].status = "vulnerable" <=>
        \E d \in Described(r) : d.encryption = "NULL" \/ d.anonymous
  BY DEF Findings, Finding, Vulnerable
<1>5. Findings(r)["no_forward_secrecy"].status = "vulnerable" <=>
        r.suites # {} /\ ~\E n \in r.suites : Describe(n).suite.pfs
  <2> DEFINE withPfs == {n \in r.suites : Describe(n).suite.pfs}
  <2>1. Findings(r)["no_forward_secrecy"].status =
          CASE r.suites = {}       -> "unknown"
            [] r.suites # {} /\ withPfs = {} -> "vulnerable"
            [] r.suites # {} /\ withPfs = r.suites -> "safe"
            [] OTHER -> "partial"
    BY DEF Findings, Finding
  <2>2. withPfs = {} <=> ~\E n \in r.suites : Describe(n).suite.pfs
    OBVIOUS
  <2>3. r.suites # {} /\ withPfs = {} => withPfs # r.suites
    OBVIOUS
  <2> HIDE DEF withPfs
  <2> QED
    BY <2>1, <2>2, <2>3
<1> QED
  BY <1>1, <1>2, <1>3, <1>4, <1>5

\* What of the rest does.
LEMMA OtherFindings ==
  ASSUME NEW r
  PROVE  /\ Findings(r)["crime"].status = "vulnerable" <=> r.compression = "true"
         /\ Findings(r)["insecure_renegotiation"].status = "vulnerable" <=> r.secureRenegotiation = "false"
         /\ Findings(r)["poodle"].status = "safe" <=> "SSL 3.0" \notin r.protocols
         /\ Findings(r)["poodle"].status \in {"safe", "partial", "vulnerable"}
<1>1. /\ Findings(r)["crime"].status = "vulnerable" <=> r.compression = "true"
      /\ Findings(r)["insecure_renegotiation"].status = "vulnerable" <=> r.secureRenegotiation = "false"
  BY DEF Findings, Finding, ByFeature
<1>2. /\ Findings(r)["poodle"].status = "safe" <=> "SSL 3.0" \notin r.protocols
      /\ Findings(r)["poodle"].status \in {"safe", "partial", "vulnerable"}
  BY DEF Findings, Finding
<1> QED
  BY <1>1, <1>2

LEMMA DrownFinding ==
  ASSUME NEW r PROVE Findings(r)["drown"].status = "vulnerable" <=> r.ssl2
  BY DEF Findings, Finding, Vulnerable

LEMMA WeakDhFinding ==
  ASSUME NEW r PROVE Findings(r)["weak_dh"].status = "vulnerable" <=> r.dh # Undefined /\ r.dh < 2048
  BY DEF Findings, Finding, Vulnerable
-----------------------------------------------------------------------------
(***************************************************************************)
(* Letters: what caps and withholds them, of the site itself.              *)
(***************************************************************************)

\* What the report takes over from the site.
LEMMA Reported ==
  ASSUME NEW s \in Sites
  PROVE  LET r == Assemble(s)
         IN /\ r.protocols = IF s.incomplete THEN {} ELSE s.protocols
            /\ r.ssl2 = s.ssl2 /\ r.incomplete = s.incomplete
            /\ r.compression = s.compression /\ r.heartbeat = s.heartbeat
            /\ r.secureRenegotiation = s.secureRenegotiation
            /\ r.clientRenegotiation = s.clientRenegotiation
            /\ r.mustStaple = s.mustStaple /\ (r.stapling <=> s.stapled # "none")
            /\ r.hsts = s.hsts /\ r.reachable = s.reachable /\ r.plain = s.plain
            /\ r.dh \in {Undefined, 512, 1024, 2048, 4096}
            /\ r.groups \subseteq {80, 112, 128}
            /\ r.suites = {n \in s.suites : \E v \in r.protocols : OfferedAt(v, n)}
<1>1. s.dh \in {Undefined, 512, 1024, 2048, 4096} /\ s.groups \subseteq {80, 112, 128}
  BY DEF Sites, Groups
<1> DEFINE r == Assemble(s)
<1>2. /\ r.protocols = IF s.incomplete THEN {} ELSE s.protocols
      /\ r.ssl2 = s.ssl2 /\ r.incomplete = s.incomplete
      /\ r.compression = s.compression /\ r.heartbeat = s.heartbeat
      /\ r.secureRenegotiation = s.secureRenegotiation
      /\ r.clientRenegotiation = s.clientRenegotiation
      /\ r.mustStaple = s.mustStaple /\ r.stapling = (s.stapled # "none")
      /\ r.hsts = s.hsts /\ r.reachable = s.reachable /\ r.plain = s.plain
  BY DEF Assemble, Assembled
<1>3. /\ r.dh = IF r.protocols = {} THEN Undefined ELSE s.dh
      /\ r.groups = IF r.protocols = {} THEN {} ELSE s.groups
  BY DEF Assemble, Assembled
<1>4. r.suites = {n \in s.suites : \E v \in r.protocols : OfferedAt(v, n)}
  BY DEF Assemble, Assembled
<1> HIDE DEF r
<1>5. r.dh \in {Undefined, 512, 1024, 2048, 4096} /\ r.groups \subseteq {80, 112, 128}
  BY <1>1, <1>3
<1>6. r.stapling <=> s.stapled # "none"
  BY <1>2
<1> QED
  BY <1>2, <1>4, <1>5, <1>6 DEF r

LEMMA ReportedLeaf ==
  ASSUME NEW s \in Sites, Assemble(s).cert.leaf
  PROVE  LET r == Assemble(s)
         IN /\ r.strength = s.chain[1].strength /\ r.scts = s.chain[1].scts
            /\ r.weakSignature = s.chain[1].weakSignature
            /\ r.days = CASE s.chain[1].date = "soon" -> 10 [] s.chain[1].date = "past" -> -1 [] OTHER -> 60
  BY CertOf DEF Assemble, Assembled

\* A suite that was seen is one of the registry.
LEMMA SuitesSeen ==
  ASSUME NEW s \in Sites
  PROVE  \A n \in Assemble(s).suites : n \in s.suites /\ Proper(n)
<1>1. ASSUME NEW v PROVE ~OfferedAt(v, UnknownSuite)
  BY DEF OfferedAt, UnknownSuite, Describe, Right
<1>2. s.suites \subseteq Registry \cup {UnknownSuite}
  BY DEF Sites
<1> QED
  BY <1>1, <1>2, Reported, RegistryProper

\* The bounds that the caps compare a Diffie-Hellman group with.
LEMMA DhBounds ==
  \A d \in {Undefined, 512, 1024, 2048, 4096} :
    /\ d # Undefined /\ d < 1024 <=> d \in 1..1023
    /\ d > 0 /\ d < 2048 <=> d \in 1..2047
    /\ d # Undefined /\ d < 2048 <=> d \in 1..2047
  BY DEF Undefined

\* The rules of grade.js, by the facets of the site: the published ones and
\* those that the README leaves out (grade.js:144-239).
CodeF(s, r) == IsF(s, r) \/ (r.suites # {} /\ ~Some(r, LAMBDA n : n.right.cipher # "RC4"))

CodeC(s, r) == IsC(s, r) \/ s.protocols \cap {"TLS 1.2", "TLS 1.3"} = {}

CodeWithheld(s, r) == Withheld(s, r) \/ s.compression = "null"

CodeLowest(s, r) ==
  Worst({LetterFor(Score(r))}
        \cup {l \in {"F", "C", "B", "T"} :
                \/ l = "F" /\ CodeF(s, r)
                \/ l = "C" /\ CodeC(s, r)
                \/ l = "B" /\ IsB(s, r)
                \/ l = "T" /\ r.cert.leaf /\ s.mustStaple /\ s.stapled = "none"})

CodeLetter(s, r) ==
  IF r.cert.leaf /\ ~s.named THEN "M"
  ELSE IF r.cert.leaf /\ (~r.cert.trusted \/ s.chain[1].subject = s.chain[1].issuer) THEN "T"
  ELSE IF s.incomplete THEN "?"
  ELSE IF CodeLowest(s, r) # "A" THEN CodeLowest(s, r)
  ELSE IF CodeWithheld(s, r) THEN "A_minus"
  ELSE IF s.hsts = "long" THEN "A_plus" ELSE "A"

\* The caps of a report, by the facets of its site (grade.js:159-234).
LEMMA CapsPublished ==
  ASSUME NEW s \in Sites, ~s.incomplete
  PROVE  LET r == Assemble(s)
         IN /\ Capped(r)["F"] <=> CodeF(s, r)
            /\ Capped(r)["C"] <=> CodeC(s, r)
            /\ Capped(r)["B"] <=> IsB(s, r)
            /\ Capped(r)["T"] <=> r.cert.leaf /\ s.mustStaple /\ s.stapled = "none"
<1> DEFINE r == Assemble(s)
<1>1. r.protocols = s.protocols /\ r.compression = s.compression
  BY Reported
<1>0. /\ r.ssl2 = s.ssl2 /\ r.secureRenegotiation = s.secureRenegotiation
      /\ r.mustStaple = s.mustStaple /\ (r.stapling <=> s.stapled # "none")
  BY Reported
<1>9. r.dh \in {Undefined, 512, 1024, 2048, 4096}
  BY Reported
<1>2. \A n \in r.suites : Proper(n)
  BY SuitesSeen
<1> HIDE DEF r
<1>3. ASSUME NEW n \in r.suites
      PROVE  LET d == Describe(n).suite
             IN /\ d.anonymous <=> n.left \in {"DH_anon", "ECDH_anon", "SRP_SHA"}
                /\ d.export <=> n.export
                /\ d.export => d.kx \in {"RSA", "DHE", "DH"}
                /\ d.encryption = "NULL" <=> n.right.cipher = "NULL"
                /\ d.encryption = "RC4" <=> n.right.cipher = "RC4"
                /\ d.encryption \in {"3DES", "IDEA", "DES"} <=> n.right.cipher \in {"DES40", "DES", "3DES", "IDEA"}
                /\ d.pfs <=> Exchange(n)[1] \in {"DHE", "ECDHE"}
  <2>1. n.left \in Lefts /\ (n.export => n.left \in Prime)
    BY <1>2 DEF Proper
  <2> QED
    BY <2>1, Exchanges, DescribeSays
<1>4. \A d : d \in Described(r) <=> \E n \in r.suites : d = Describe(n).suite
  BY DEF Described
<1>5. Capped(r)["F"] <=> CodeF(s, r)
  <2> DEFINE export512 == Findings(r)["freak"].status = "vulnerable" \/ Findings(r)["logjam"].status = "vulnerable"
             below1024 == r.dh \in 1..1023
             exported  == \E n \in r.suites : n.export
             clear     == \E n \in r.suites : n.right.cipher = "NULL" \/ n.left \in {"DH_anon", "ECDH_anon", "SRP_SHA"}
             onlyRc4   == r.suites # {} /\ ~\E n \in r.suites : n.right.cipher # "RC4"
  <2>1. Capped(r)["F"] <=>
          \/ r.ssl2 \/ Findings(r)["insecure_renegotiation"].status = "vulnerable"
          \/ Findings(r)["null_anon"].status = "vulnerable" \/ export512
          \/ (r.suites # {} /\ \A d \in Described(r) : d.encryption = "RC4")
    BY DEF Capped
  <2>2. Findings(r)["null_anon"].status = "vulnerable" <=> clear
    <3>1. ASSUME NEW d \in Described(r), d.encryption = "NULL" \/ d.anonymous PROVE clear
      <4>1. PICK n \in r.suites : d = Describe(n).suite
        BY <1>4
      <4> QED
        BY <1>3, <3>1, <4>1
    <3>2. ASSUME clear PROVE \E d \in Described(r) : d.encryption = "NULL" \/ d.anonymous
      <4>1. PICK n \in r.suites : n.right.cipher = "NULL" \/ n.left \in {"DH_anon", "ECDH_anon", "SRP_SHA"}
        BY <3>2
      <4>2. Describe(n).suite \in Described(r)
        BY <1>4
      <4>3. Describe(n).suite.encryption = "NULL" \/ Describe(n).suite.anonymous
        BY <1>3, <4>1
      <4> QED
        BY <4>2, <4>3
    <3> QED
      BY <3>1, <3>2, SuiteFindings
  <2>3. export512 <=> exported \/ below1024
    <3>1. (\E d \in Described(r) : d.export /\ d.kx = "RSA")
          \/ (\E d \in Described(r) : d.export /\ d.kx \in {"DHE", "DH"}) <=> \E n \in r.suites : n.export
      BY <1>3, <1>4
    <3>2. r.dh # Undefined /\ r.dh < 1024 <=> r.dh \in 1..1023
      BY <1>9, DhBounds, SMTT(20)
    <3> QED
      BY <3>1, <3>2, SuiteFindings
  <2>4. (r.suites # {} /\ \A d \in Described(r) : d.encryption = "RC4") <=> onlyRc4
    BY <1>3, <1>4
  <2>5. CodeF(s, r) <=> s.ssl2 \/ s.secureRenegotiation = "false" \/ below1024 \/ exported \/ clear \/ onlyRc4
    BY DEF CodeF, IsF, Some
  <2> HIDE DEF export512, below1024, exported, clear, onlyRc4
  <2> QED
    BY <1>0, <2>1, <2>2, <2>3, <2>4, <2>5, OtherFindings
<1>6. Capped(r)["C"] <=> CodeC(s, r)
  <2>1. Capped(r)["C"] <=>
          \/ Findings(r)["crime"].status = "vulnerable" \/ Findings(r)["sweet32"].status = "vulnerable"
          \/ "SSL 3.0" \in r.protocols \/ r.protocols \cap {"TLS 1.2", "TLS 1.3"} = {}
    BY DEF Capped
  <2>2. Findings(r)["sweet32"].status = "vulnerable" <=>
          \E n \in r.suites : n.right.cipher \in {"DES40", "DES", "3DES", "IDEA"}
    BY <1>3, <1>4, SuiteFindings
  <2> QED
    BY <1>1, <2>1, <2>2, OtherFindings DEF CodeC, IsC, Some
<1>7. Capped(r)["B"] <=> IsB(s, r)
  <2> DEFINE rc4       == \E n \in r.suites : n.right.cipher = "RC4"
             noPfs     == r.suites # {} /\ ~\E n \in r.suites : Exchange(n)[1] \in {"DHE", "ECDHE"}
             small     == r.dh > 0 /\ r.dh < 2048
             below2048 == r.dh \in 1..2047
             early     == r.protocols \cap {"TLS 1.0", "TLS 1.1"} # {}
  <2>1. Capped(r)["B"] <=> \/ Findings(r)["rc4"].status = "vulnerable"
                           \/ Findings(r)["no_forward_secrecy"].status = "vulnerable"
                           \/ small \/ early
    BY DEF Capped
  <2>2. Findings(r)["rc4"].status = "vulnerable" <=> rc4
    BY <1>3, <1>4, SuiteFindings
  <2>3. Findings(r)["no_forward_secrecy"].status = "vulnerable" <=> noPfs
    BY <1>3, SuiteFindings
  <2>4. small <=> below2048
    <3> DEFINE d == r.dh
    <3>1. d \in {Undefined, 512, 1024, 2048, 4096}
      BY <1>9
    <3> HIDE DEF d
    <3>2. d > 0 /\ d < 2048 <=> d \in 1..2047
      BY <3>1, DhBounds, SMTT(20)
    <3> QED
      BY <3>2 DEF d
  <2>5. IsB(s, r) <=> rc4 \/ below2048 \/ noPfs \/ early
    BY <1>1 DEF IsB, Some
  <2> HIDE DEF rc4, noPfs, small, below2048, early
  <2> QED
    BY <2>1, <2>2, <2>3, <2>4, <2>5
<1>8. Capped(r)["T"] <=> r.cert.leaf /\ s.mustStaple /\ s.stapled = "none"
  <2>1. Capped(r)["T"] <=> r.cert.leaf /\ r.mustStaple /\ ~r.stapling
    BY DEF Capped
  <2> QED
    BY <1>0, <2>1
<1> QED
  BY <1>5, <1>6, <1>7, <1>8 DEF r
\* The lowest letter is the same of both (grade.js:144-236).
LEMMA LowestLetter ==
  ASSUME NEW s \in Sites, ~s.incomplete
  PROVE  CodeLowest(s, Assemble(s)) = Worst({LetterFor(Score(Assemble(s)))} \cup Caps(Assemble(s)))
<1> DEFINE r == Assemble(s)
           isF == CodeF(s, r)
           isC == CodeC(s, r)
           isB == IsB(s, r)
           isT == r.cert.leaf /\ s.mustStaple /\ s.stapled = "none"
           published == {l \in {"F", "C", "B", "T"} :
                           \/ l = "F" /\ isF
                           \/ l = "C" /\ isC
                           \/ l = "B" /\ isB
                           \/ l = "T" /\ isT}
<1>1. (Capped(r)["F"] <=> isF) /\ (Capped(r)["C"] <=> isC) /\ (Capped(r)["B"] <=> isB) /\ (Capped(r)["T"] <=> isT)
  BY CapsPublished
<1>2. CodeLowest(s, r) = Worst({LetterFor(Score(r))} \cup published)
  BY DEF CodeLowest
<1> HIDE DEF isF, isC, isB, isT, r
<1>3. Caps(r) = published
  BY <1>1 DEF Caps
<1> QED
  BY <1>2, <1>3 DEF r

\* A leaf that is distrusted is untrusted or self-signed.
LEMMA Distrusted ==
  ASSUME NEW s \in Sites, Assemble(s).cert.leaf
  PROVE  LET c == Assemble(s).cert
         IN c.issues \cap Distrust # {} <=> ~c.trusted \/ SelfNamed(s.chain[1])
<1> DEFINE c      == Assemble(s).cert
           certs  == Parsed(s.chain)
           anchor == FindAnchor(certs, Anchors)
<1>1. /\ c.trusted <=> /\ anchor # None /\ Signed(certs) /\ ~(s.stapled = "revoked")
                       /\ s.chain[1].date \notin {"past", "future"}
      /\ "not-trusted" \in c.issues <=> ~c.trusted
      /\ "expired" \in c.issues <=> s.chain[1].date = "past"
      /\ "not-yet-valid" \in c.issues <=> s.chain[1].date = "future"
      /\ "revoked" \in c.issues <=> s.stapled = "revoked"
      /\ "bad-signature" \in c.issues <=> ~Signed(certs)
      /\ "incomplete-chain" \in c.issues <=> anchor = None
      /\ "self-signed" \in c.issues <=> SelfNamed(s.chain[1])
  BY LeafSays DEF Says
<1> HIDE DEF c, certs, anchor
<1>2. c.issues \cap Distrust # {} <=>
        \/ "expired" \in c.issues \/ "not-yet-valid" \in c.issues \/ "self-signed" \in c.issues
        \/ "revoked" \in c.issues \/ "not-trusted" \in c.issues
        \/ "incomplete-chain" \in c.issues \/ "bad-signature" \in c.issues
  BY DEF Distrust
<1>3. c.issues \cap Distrust # {} <=> ~c.trusted \/ SelfNamed(s.chain[1])
  BY <1>1, <1>2
<1> QED
  BY <1>3 DEF c

\* What stands in the way of an A+, of the site itself (grade.js:40-56).
LEMMA WithheldBlocks ==
  ASSUME NEW s \in Sites, ~s.incomplete,
         Assemble(s).cert.leaf => Assemble(s).cert.trusted
  PROVE  CodeWithheld(s, Assemble(s)) <=> Blocking(Assemble(s)) # {}
<1> DEFINE r == Assemble(s)
           tls13  == "TLS 1.3" \notin r.protocols
           compr  == r.compression = "null"
           hbeat  == r.heartbeat = "true"
           reneg  == r.clientRenegotiation = "true"
           noSct  == r.cert.leaf /\ r.scts = 0
           long   == "over-long-validity" \in r.cert.issues
           other  == "trusted-by-extra-root" \in r.cert.issues
           scts0  == r.cert.leaf /\ s.chain[1].scts = 0
           days398 == r.cert.leaf /\ s.chain[1].days > 398
           noPath == r.cert.trusted /\ ~PathTo(s, {Mozilla})
<1>1. Blocking(r) # {} <=> tls13 \/ compr \/ hbeat \/ reneg \/ noSct \/ long \/ other
  <2>1. Blocking(r) = If(tls13, "no-tls13") \cup If(compr, "compression-unknown")
                      \cup If(hbeat, "heartbeat-extension-enabled")
                      \cup If(reneg, "client-initiated-renegotiation")
                      \cup If(noSct, "no-certificate-transparency")
                      \cup If(long, "certificate-valid-too-long") \cup If(other, "trusted-by-extra-root")
    BY DEF Blocking, If
  <2> HIDE DEF tls13, compr, hbeat, reneg, noSct, long, other
  <2> QED
    BY <2>1 DEF If
<1>2. /\ tls13 <=> "TLS 1.3" \notin s.protocols
      /\ compr <=> s.compression = "null"
      /\ hbeat <=> s.heartbeat = "true"
      /\ reneg <=> s.clientRenegotiation = "true"
  <2>1. /\ r.protocols = s.protocols /\ r.compression = s.compression
        /\ r.heartbeat = s.heartbeat /\ r.clientRenegotiation = s.clientRenegotiation
    BY Reported
  <2> QED
    BY <2>1
<1>3. CodeWithheld(s, r) <=> \/ "TLS 1.3" \notin s.protocols \/ s.compression = "null"
                         \/ s.heartbeat = "true" \/ s.clientRenegotiation = "true"
                         \/ scts0 \/ days398 \/ noPath
  BY DEF CodeWithheld, Withheld
<1>4. CASE r.cert.leaf
  <2>1. noSct <=> scts0
    BY <1>4, ReportedLeaf
  <2>2. long <=> days398
    BY <1>4, LeafSays DEF Says
  <2>3. other <=> noPath
    BY <1>4, TrustPaths
  <2> HIDE DEF tls13, compr, hbeat, reneg, noSct, long, other, scts0, days398, noPath, r
  <2>4. CodeWithheld(s, r) <=> Blocking(r) # {}
    BY <1>1, <1>2, <1>3, <2>1, <2>2, <2>3
  <2> QED
    BY <2>4 DEF r
<1>5. CASE ~r.cert.leaf
  <2>1. ~r.cert.trusted /\ r.cert.issues \in {{"no-certificates"}, {"unparsable-certificate"}}
    BY <1>5, LeafIsFirst
  <2>2. ~noSct /\ ~scts0 /\ ~days398 /\ ~noPath
    BY <1>5, <2>1
  <2>3. ~long /\ ~other
    BY <2>1
  <2> HIDE DEF tls13, compr, hbeat, reneg, noSct, long, other, scts0, days398, noPath, r
  <2>4. CodeWithheld(s, r) <=> Blocking(r) # {}
    BY <1>1, <1>2, <1>3, <2>2, <2>3
  <2> QED
    BY <2>4 DEF r
<1> QED
  BY <1>4, <1>5

\* The letter of whatever site, by those rules.
LEMMA SitesGraded == ASSUME NEW s \in Sites PROVE Grade(Assemble(s)) = CodeLetter(s, Assemble(s))
<1> DEFINE r == Assemble(s)
           letter == Worst({LetterFor(Score(r))} \cup Caps(r))
<1>1. r.incomplete = s.incomplete /\ r.hsts = s.hsts
  BY Reported
<1>2. SelfNamed(s.chain[1]) <=> s.chain[1].subject = s.chain[1].issuer
  BY DEF SelfNamed
<1>3. ASSUME r.cert.leaf
      PROVE  /\ "hostname-mismatch" \in r.cert.issues <=> ~s.named
             /\ r.cert.issues \cap Distrust # {} <=> ~r.cert.trusted \/ SelfNamed(s.chain[1])
  BY <1>3, LeafSays, Distrusted DEF Says
<1>4. ASSUME ~r.cert.leaf
      PROVE  "hostname-mismatch" \notin r.cert.issues /\ r.cert.issues \cap Distrust = {}
  <2>1. r.cert.issues \in {{"no-certificates"}, {"unparsable-certificate"}}
    BY <1>4, LeafIsFirst
  <2> QED
    BY <2>1 DEF Distrust
<1>5. ASSUME ~s.incomplete, r.cert.leaf => r.cert.trusted
      PROVE  CodeLowest(s, r) = letter /\ (CodeWithheld(s, r) <=> Blocking(r) # {})
  BY <1>5, LowestLetter, WithheldBlocks
<1>6. r.cert.leaf \in BOOLEAN
  BY LeafIsFirst
<1> HIDE DEF r
<1>7. CASE "hostname-mismatch" \in r.cert.issues
  <2>1. Grade(r) = "M"
    BY <1>7 DEF Grade
  <2>2. r.cert.leaf /\ ~s.named
    BY <1>3, <1>4, <1>7
  <2> QED
    BY <2>1, <2>2 DEF CodeLetter, r
<1>8. CASE "hostname-mismatch" \notin r.cert.issues /\ r.cert.issues \cap Distrust # {}
  <2>1. Grade(r) = "T"
    BY <1>8 DEF Grade
  <2>2. r.cert.leaf /\ s.named /\ (~r.cert.trusted \/ SelfNamed(s.chain[1]))
    BY <1>3, <1>4, <1>8
  <2> QED
    BY <1>2, <2>1, <2>2 DEF CodeLetter, r
<1>9. CASE "hostname-mismatch" \notin r.cert.issues /\ r.cert.issues \cap Distrust = {}
  <2>1. r.cert.leaf => s.named /\ r.cert.trusted /\ ~SelfNamed(s.chain[1])
    BY <1>3, <1>9
  <2> HIDE DEF letter
  <2>2. Grade(r) = IF r.incomplete THEN "?"
                   ELSE IF letter # "A" THEN letter
                   ELSE IF Blocking(r) # {} THEN "A_minus"
                   ELSE IF r.hsts = "long" THEN "A_plus" ELSE "A"
    <3>1. r.cert.issues \cap ({"hostname-mismatch"} \cup Distrust) = {}
      BY <1>9
    <3> QED
      BY <1>9, <3>1 DEF Grade, letter
  <2>3. CodeLetter(s, r) = IF s.incomplete THEN "?"
                          ELSE IF CodeLowest(s, r) # "A" THEN CodeLowest(s, r)
                          ELSE IF CodeWithheld(s, r) THEN "A_minus"
                          ELSE IF s.hsts = "long" THEN "A_plus" ELSE "A"
    BY <1>2, <2>1 DEF CodeLetter
  <2>4. Grade(r) = CodeLetter(s, r)
    BY <1>1, <1>5, <2>1, <2>2, <2>3
  <2> QED
    BY <2>4 DEF r
<1> QED
  BY <1>7, <1>8, <1>9

-----------------------------------------------------------------------------
(***************************************************************************)
(* The invariant: every site is one of Sites, and answers at some version  *)
(* with some suite, whose loss needs one more way of getting worse.        *)
(***************************************************************************)
Answers(s, last) ==
  \E n \in s.suites, v \in s.protocols : OfferedAt(v, n) /\ (v = "TLS 1.3" => last)

SiteInv == site \in Sites /\ Answers(site, faults = MaxFaults)

LEMMA GreatestOf ==
  ASSUME NEW S, S \subseteq Int, NEW m \in S, \A y \in S : y <= m PROVE Max(S) = m
<1>1. ASSUME NEW x \in S, \A y \in S : x >= y PROVE x = m
  <2>1. x \in Int /\ m \in Int /\ x >= m /\ x <= m
    BY <1>1
  <2> QED
    BY <2>1
<1>2. \A y \in S : m >= y
  OBVIOUS
<1> QED
  BY <1>1, <1>2 DEF Max

\* The strengths that a table of six has for keys of a length.
Entries(bits, a, b, c, d, e, f) == {t[2] : t \in {u \in {a, b, c, d, e, f} : bits >= u[1]}}

LEMMA EntriesOf ==
  ASSUME NEW bits, NEW a, NEW b, NEW c, NEW d, NEW e, NEW f
  PROVE  \A n : n \in Entries(bits, a, b, c, d, e, f) <=>
            \/ bits >= a[1] /\ n = a[2]
            \/ bits >= b[1] /\ n = b[2]
            \/ bits >= c[1] /\ n = c[2]
            \/ bits >= d[1] /\ n = d[2]
            \/ bits >= e[1] /\ n = e[2]
            \/ bits >= f[1] /\ n = f[2]
<1>1. \A n : n \in Entries(bits, a, b, c, d, e, f) <=>
              \E t \in {a, b, c, d, e, f} : bits >= t[1] /\ n = t[2]
  BY Zenon DEF Entries
<1> QED
  BY <1>1, Zenon

RsaEntries(bits) ==
  Entries(bits, <<15360, 256>>, <<7680, 192>>, <<3072, 128>>, <<2048, 112>>, <<1024, 80>>, <<1024, 80>>)

CurveEntries(bits) ==
  Entries(bits, <<512, 256>>, <<384, 192>>, <<256, 128>>, <<224, 112>>, <<192, 96>>, <<0, 80>>)

LEMMA RsaEntriesAre ==
  ASSUME NEW bits \in {1024, 2048}
  PROVE  \A n : n \in RsaEntries(bits) <=> n = 80 \/ (n = 112 /\ bits = 2048)
<1> DEFINE a == <<15360, 256>>  b == <<7680, 192>>  c == <<3072, 128>>
           d == <<2048, 112>>   e == <<1024, 80>>
<1>1. RsaEntries(bits) = Entries(bits, a, b, c, d, e, e)
  BY DEF RsaEntries
<1>2. /\ a[1] = 15360 /\ a[2] = 256 /\ b[1] = 7680 /\ b[2] = 192 /\ c[1] = 3072 /\ c[2] = 128
      /\ d[1] = 2048 /\ d[2] = 112 /\ e[1] = 1024 /\ e[2] = 80
  OBVIOUS
<1> HIDE DEF a, b, c, d, e
<1>3. \A n : n \in Entries(bits, a, b, c, d, e, e) <=>
            \/ bits >= a[1] /\ n = a[2]
            \/ bits >= b[1] /\ n = b[2]
            \/ bits >= c[1] /\ n = c[2]
            \/ bits >= d[1] /\ n = d[2]
            \/ bits >= e[1] /\ n = e[2]
            \/ bits >= e[1] /\ n = e[2]
  BY EntriesOf
<1> QED
  BY <1>1, <1>2, <1>3

LEMMA CurveEntriesAre == \A n : n \in CurveEntries(256) <=> n \in {128, 112, 96, 80}
<1> DEFINE a == <<512, 256>>  b == <<384, 192>>  c == <<256, 128>>
           d == <<224, 112>>  e == <<192, 96>>   f == <<0, 80>>
<1>1. CurveEntries(256) = Entries(256, a, b, c, d, e, f)
  BY DEF CurveEntries
<1>2. /\ a[1] = 512 /\ a[2] = 256 /\ b[1] = 384 /\ b[2] = 192 /\ c[1] = 256 /\ c[2] = 128
      /\ d[1] = 224 /\ d[2] = 112 /\ e[1] = 192 /\ e[2] = 96 /\ f[1] = 0 /\ f[2] = 80
  OBVIOUS
<1> HIDE DEF a, b, c, d, e, f
<1>3. \A n : n \in Entries(256, a, b, c, d, e, f) <=>
            \/ 256 >= a[1] /\ n = a[2]
            \/ 256 >= b[1] /\ n = b[2]
            \/ 256 >= c[1] /\ n = c[2]
            \/ 256 >= d[1] /\ n = d[2]
            \/ 256 >= e[1] /\ n = e[2]
            \/ 256 >= f[1] /\ n = f[2]
  BY EntriesOf
<1> QED
  BY <1>1, <1>2, <1>3

\* The symmetric strength of the keys that the certificates have.
LEMMA Strengths ==
  /\ KeyStrength("ec", 256) = 128 /\ KeyStrength("dsa", 512) = 40
  /\ KeyStrength("rsa", 512) = 40 /\ KeyStrength("rsa", 1024) = 80 /\ KeyStrength("rsa", 2048) = 112
<1>1. ASSUME NEW type \in {"rsa", "dsa"} PROVE KeyStrength(type, 512) = 40
  <2>1. KeyStrength(type, 512) = Max({40, (512 + 10) \div 20})
    BY DEF KeyStrength
  <2>2. (512 + 10) \div 20 = 26
    OBVIOUS
  <2>3. Max({40, 26}) = 40
    BY GreatestOf
  <2> QED
    BY <2>1, <2>2, <2>3
<1>2. ASSUME NEW bits \in {1024, 2048} PROVE KeyStrength("rsa", bits) = IF bits = 1024 THEN 80 ELSE 112
  <2> DEFINE U == RsaEntries(bits)
             T == {u \in {<<15360, 256>>, <<7680, 192>>, <<3072, 128>>, <<2048, 112>>, <<1024, 80>>} :
                     bits >= u[1]}
  <2>1. KeyStrength("rsa", bits) = Max({t[2] : t \in T})
    BY DEF KeyStrength
  <2>2. U = {t[2] : t \in T}
    BY DEF RsaEntries, Entries
  <2>3. \A n : n \in U <=> n = 80 \/ (n = 112 /\ bits = 2048)
    BY RsaEntriesAre
  <2> HIDE DEF T, U
  <2>4. KeyStrength("rsa", bits) = Max(U)
    BY <2>1, <2>2
  <2>5. Max(U) = IF bits = 1024 THEN 80 ELSE 112
    <3>1. CASE bits = 1024
      BY <2>3, <3>1, GreatestOf
    <3>2. CASE bits = 2048
      BY <2>3, <3>2, GreatestOf
    <3> QED
      BY <3>1, <3>2
  <2> QED
    BY <2>4, <2>5
<1>3. KeyStrength("ec", 256) = 128
  <2> DEFINE U == CurveEntries(256)
             T == {u \in {<<512, 256>>, <<384, 192>>, <<256, 128>>, <<224, 112>>, <<192, 96>>, <<0, 80>>} :
                     256 >= u[1]}
  <2>1. KeyStrength("ec", 256) = Max({t[2] : t \in T})
    BY DEF KeyStrength
  <2>2. U = {t[2] : t \in T}
    BY DEF CurveEntries, Entries
  <2>3. U = {128, 112, 96, 80}
    BY CurveEntriesAre
  <2> HIDE DEF T, U
  <2>4. KeyStrength("ec", 256) = Max(U)
    BY <2>1, <2>2
  <2>5. Max(U) = 128
    BY <2>3, GreatestOf
  <2> QED
    BY <2>4, <2>5
<1> QED
  BY <1>1, <1>2, <1>3

\* A certificate with another value of a field.
LEMMA CertsChange ==
  ASSUME NEW c \in Certs
  PROVE  /\ \A d \in {"fresh", "soon", "past", "future"} : [c EXCEPT !.date = d] \in Certs
         /\ \A n \in KeySizes : [c EXCEPT !.strength = n] \in Certs
         /\ [c EXCEPT !.days = 400] \in Certs /\ [c EXCEPT !.scts = 0] \in Certs
         /\ [c EXCEPT !.weakSignature = TRUE] \in Certs /\ [c EXCEPT !.unparsable = TRUE] \in Certs
         /\ [c EXCEPT !.date = "past", !.weakSignature = TRUE] \in Certs
<1>1. \A d \in {"fresh", "soon", "past", "future"} : [c EXCEPT !.date = d] \in Certs
  BY DEF Certs
<1>2. \A n \in KeySizes : [c EXCEPT !.strength = n] \in Certs
  BY DEF Certs
<1>3. (\A n \in {90, 400} : [c EXCEPT !.days = n] \in Certs) /\ \A n \in {0, 2} : [c EXCEPT !.scts = n] \in Certs
  BY DEF Certs
<1>4. \A b \in BOOLEAN : [c EXCEPT !.weakSignature = b] \in Certs /\ [c EXCEPT !.unparsable = b] \in Certs
  BY DEF Certs
<1>5. [c EXCEPT !.date = "past", !.weakSignature = TRUE] \in Certs
  <2> DEFINE x == [c EXCEPT !.date = "past"]
  <2>1. [c EXCEPT !.date = "past", !.weakSignature = TRUE] = [x EXCEPT !.weakSignature = TRUE]
    OBVIOUS
  <2>2. x \in Certs
    BY <1>1
  <2> HIDE DEF x
  <2>3. \A b \in BOOLEAN : [x EXCEPT !.weakSignature = b] \in Certs
    BY <2>2 DEF Certs
  <2> QED
    BY <2>1, <2>3
<1> QED
  BY <1>1, <1>2, <1>3, <1>4, <1>5

\* The certificates that the sites present, and the chains of them.
LEMMA CertsPresented ==
  {leaf, self, mid, cross, bridge, root, forged, stale, junk} \subseteq Certs
<1>1. ASSUME NEW a \in {"site", "mid", "root", "extra"}, NEW b \in {"site", "mid", "root", "extra"},
             NEW c \in {"kl", "km", "kr", "ke", "kf"}, NEW d \in {"kl", "km", "kr", "ke", "kf"}
      PROVE  Cert(a, b, c, d) \in Certs
  <2> DEFINE k == KeyStrength("ec", 256)
  <2>1. k \in KeySizes
    BY Strengths DEF KeySizes
  <2>2. Cert(a, b, c, d) = [subject |-> a, issuer |-> b, key |-> c, signer |-> d,
                            date |-> "fresh", days |-> 90, scts |-> 2, strength |-> k,
                            weakSignature |-> FALSE, unparsable |-> FALSE]
    BY DEF Cert
  <2> HIDE DEF k
  <2> QED
    BY <2>1, <2>2 DEF Certs
<1>2. leaf \in Certs /\ self \in Certs /\ mid \in Certs
  BY <1>1 DEF leaf, self, mid
<1>3. cross \in Certs /\ root \in Certs /\ bridge \in Certs /\ forged \in Certs
  BY <1>1 DEF cross, root, bridge, forged
<1>4. stale \in Certs /\ junk \in Certs
  BY <1>2, CertsChange DEF stale, junk
<1> QED
  BY <1>1, <1>2, <1>3, <1>4

LEMMA ChainsPresented == Chains \subseteq CertLists
<1> DEFINE C == {leaf, self, mid, cross, bridge, root, forged, stale, junk}
<1>1. C \subseteq Certs
  BY CertsPresented
<1> HIDE DEF C
<1>2. ASSUME NEW n \in 0..3, NEW f \in [1..n -> C] PROVE f \in Seq(Certs)
  BY <1>1
<1> QED
  BY <1>2 DEF Chains, C, CertLists

LEMMA BadRegistered == BadSuites \subseteq Registry
<1>1. {Suite("RSA", FALSE, CBC), Suite("DH_anon", FALSE, CBC)} \subseteq FirstSuites
  BY DEF Suite, CBC, FirstSuites, Plain, Prime, Sha1, Block
<1>2. {Suite("RSA", FALSE, Right("3DES", 0, "CBC", "SHA")), Suite("RSA", FALSE, Right("NULL", 0, "NULL", "SHA"))}
        \subseteq FirstSuites
  BY DEF Suite, FirstSuites, Plain, Prime, TripleDES, Block, Clear
<1>3. Suite("ECDHE_RSA", FALSE, RC4) \in LaterSuites
  BY DEF Suite, RC4, LaterSuites, Plain, Curve, Stream
<1>4. Suite("KRB5", FALSE, Right("DES", 0, "CBC", "MD5")) \in FirstSuites
  BY DEF Suite, FirstSuites, Plain, Block
<1>5. {Suite("RSA", TRUE, Right("DES40", 0, "CBC", "SHA")), Suite("DHE_RSA", TRUE, Right("DES40", 0, "CBC", "SHA"))}
        \subseteq FirstSuites
  BY DEF Suite, FirstSuites, Export, Prime, Block
<1> QED
  BY <1>1, <1>2, <1>3, <1>4, <1>5 DEF BadSuites, Registry

LEMMA GoodRegistered ==
  /\ Suite("TLS13", FALSE, GCM) \in Registry /\ Suite("ECDHE_RSA", FALSE, GCM) \in Registry
  /\ Suite("ECDHE_RSA", FALSE, CBC) \in Registry /\ Suite("RSA", FALSE, RC4) \in Registry
  /\ Suite("DHE_DSS", FALSE, CBC) \in Registry
<1>1. Suite("TLS13", FALSE, GCM) \in TLS13Suites
  BY DEF Suite, GCM, TLS13Suites, Plain, Gcm
<1>2. Suite("ECDHE_RSA", FALSE, GCM) \in LaterSuites
  BY DEF Suite, GCM, LaterSuites, Plain, Curve, Gcm
<1>3. Suite("ECDHE_RSA", FALSE, CBC) \in LaterSuites
  BY DEF Suite, CBC, LaterSuites, Plain, Curve, Sha1, Block
<1>4. Suite("RSA", FALSE, RC4) \in FirstSuites
  BY DEF Suite, RC4, FirstSuites, Plain, Stream
<1>5. Suite("DHE_DSS", FALSE, CBC) \in FirstSuites
  BY DEF Suite, CBC, FirstSuites, Plain, Prime, Sha1, Block
<1> QED
  BY <1>1, <1>2, <1>3, <1>4, <1>5 DEF Registry
\* A site with another value of a field.
LEMMA SuitesChange == ASSUME NEW s \in Sites, NEW x \in SUBSET (Registry \cup {UnknownSuite}) PROVE [s EXCEPT !.suites = x] \in Sites
  BY DEF Sites

LEMMA ProtocolsChange == ASSUME NEW s \in Sites, NEW x \in SUBSET ToSet(Versions) PROVE [s EXCEPT !.protocols = x] \in Sites
  BY DEF Sites

LEMMA GroupsChange == ASSUME NEW s \in Sites, NEW x \in SUBSET {80, 112, 128} PROVE [s EXCEPT !.groups = x] \in Sites
  BY DEF Sites

LEMMA DhChange == ASSUME NEW s \in Sites, NEW x \in Groups PROVE [s EXCEPT !.dh = x] \in Sites
  BY DEF Sites

LEMMA ChainChange == ASSUME NEW s \in Sites, NEW x \in CertLists PROVE [s EXCEPT !.chain = x] \in Sites
  BY DEF Sites

LEMMA FlagChange ==
  ASSUME NEW s \in Sites, NEW b \in BOOLEAN
  PROVE  /\ [s EXCEPT !.ssl2 = b] \in Sites /\ [s EXCEPT !.named = b] \in Sites
         /\ [s EXCEPT !.mustStaple = b] \in Sites /\ [s EXCEPT !.reachable = b] \in Sites
         /\ [s EXCEPT !.incomplete = b] \in Sites
<1>1. [s EXCEPT !.ssl2 = b] \in Sites
  BY DEF Sites
<1>2. [s EXCEPT !.named = b] \in Sites
  BY DEF Sites
<1>3. [s EXCEPT !.mustStaple = b] \in Sites
  BY DEF Sites
<1>4. [s EXCEPT !.reachable = b] \in Sites
  BY DEF Sites
<1>5. [s EXCEPT !.incomplete = b] \in Sites
  BY DEF Sites
<1> QED
  BY <1>1, <1>2, <1>3, <1>4, <1>5

LEMMA FeatureChange ==
  ASSUME NEW s \in Sites, NEW x \in Tri
  PROVE  /\ [s EXCEPT !.compression = x] \in Sites
         /\ [s EXCEPT !.heartbeat = x] \in Sites
         /\ [s EXCEPT !.secureRenegotiation = x] \in Sites
         /\ [s EXCEPT !.clientRenegotiation = x] \in Sites
<1>1. [s EXCEPT !.compression = x] \in Sites
  BY DEF Sites
<1>2. [s EXCEPT !.heartbeat = x] \in Sites
  BY DEF Sites
<1>3. [s EXCEPT !.secureRenegotiation = x] \in Sites
  BY DEF Sites
<1>4. [s EXCEPT !.clientRenegotiation = x] \in Sites
  BY DEF Sites
<1> QED
  BY <1>1, <1>2, <1>3, <1>4

LEMMA HeaderChange ==
  ASSUME NEW s \in Sites
  PROVE  /\ \A x \in {"good", "none", "revoked"} : [s EXCEPT !.stapled = x] \in Sites
         /\ \A x \in {"long", "short", "none"} : [s EXCEPT !.hsts = x] \in Sites
         /\ \A x \in {"https", "skipped"} : [s EXCEPT !.plain = x] \in Sites
<1>1. ASSUME NEW x \in {"good", "none", "revoked"} PROVE [s EXCEPT !.stapled = x] \in Sites
  BY DEF Sites
<1>2. ASSUME NEW x \in {"long", "short", "none"} PROVE [s EXCEPT !.hsts = x] \in Sites
  BY DEF Sites
<1>3. ASSUME NEW x \in {"https", "skipped"} PROVE [s EXCEPT !.plain = x] \in Sites
  BY DEF Sites
<1> QED
  BY <1>1, <1>2, <1>3

\* What a change leaves alone.
LEMMA KeepsAnswers ==
  ASSUME NEW s \in Sites, NEW t, s.suites \subseteq t.suites,
         s.protocols \ {"TLS 1.3"} \subseteq t.protocols,
         NEW last \in BOOLEAN, Answers(s, FALSE)
  PROVE  Answers(t, last)
<1>1. PICK n \in s.suites, v \in s.protocols : OfferedAt(v, n) /\ v # "TLS 1.3"
  BY DEF Answers
<1>2. n \in t.suites /\ v \in t.protocols
  BY <1>1
<1> QED
  BY <1>1, <1>2 DEF Answers
\* A site that still has its suites and its versions, but for TLS 1.3.
Kept(s, t) ==
  t \in Sites /\ s.suites \subseteq t.suites /\ s.protocols \ {"TLS 1.3"} \subseteq t.protocols

LEMMA Fields == ASSUME NEW s \in Sites PROVE {"suites", "protocols"} \subseteq DOMAIN s
  BY DEF Sites
LEMMA OlderVersions == ASSUME NEW S PROVE Older(S) \subseteq ToSet(Versions)
  BY DEF Older, ToSet

\* A chain whose leaf has another value of a field.
LEMMA LeafChange ==
  ASSUME NEW s \in Sites, s.chain # <<>>, NEW c \in Certs
  PROVE  Kept(s, [s EXCEPT !.chain = [@ EXCEPT ![1] = c]])
<1>1. s.chain \in Seq(Certs)
  BY DEF Sites, CertLists
<1>2. [s.chain EXCEPT ![1] = c] \in Seq(Certs)
  BY <1>1
<1>3. [s EXCEPT !.chain = [s.chain EXCEPT ![1] = c]] \in Sites
  BY <1>2, ChainChange DEF CertLists
<1> QED
  BY <1>3, Fields DEF Kept

\* No way of getting worse leads out of Sites, nor takes a suite or a version.
LEMMA WorseKept == ASSUME NEW s \in Sites, NEW t \in Worse(s) PROVE Kept(s, t)
<1>1. ASSUME NEW n \in BadSuites PROVE Kept(s, [s EXCEPT !.suites = @ \cup {n}])
  <2>1. s.suites \cup {n} \in SUBSET (Registry \cup {UnknownSuite})
    BY BadRegistered DEF Sites
  <2>2. [s EXCEPT !.suites = s.suites \cup {n}] \in Sites
    BY <2>1, SuitesChange
  <2> QED
    BY <2>2, Fields DEF Kept
<1>2. ASSUME NEW v \in Older(s.protocols) PROVE Kept(s, [s EXCEPT !.protocols = @ \cup {v}])
  <2>1. s.protocols \cup {v} \in SUBSET ToSet(Versions)
    BY OlderVersions DEF Sites
  <2>2. [s EXCEPT !.protocols = s.protocols \cup {v}] \in Sites
    BY <2>1, ProtocolsChange
  <2> QED
    BY <2>2, Fields DEF Kept
<1>3. Kept(s, [s EXCEPT !.protocols = @ \ {"TLS 1.3"}])
  <2>1. s.protocols \ {"TLS 1.3"} \in SUBSET ToSet(Versions)
    <3>1. s.protocols \subseteq ToSet(Versions)
      BY DEF Sites
    <3> QED
      BY <3>1
  <2>2. [s EXCEPT !.protocols = s.protocols \ {"TLS 1.3"}] \in Sites
    BY <2>1, ProtocolsChange
  <2> QED
    BY <2>2, Fields DEF Kept
<1>4. \A n \in {512, 1024, 2048, 4096} : Kept(s, [s EXCEPT !.dh = n])
  <2>1. ASSUME NEW n \in Groups PROVE Kept(s, [s EXCEPT !.dh = n])
    <3>1. [s EXCEPT !.dh = n] \in Sites
      BY DhChange
    <3> QED
      BY <3>1, Fields DEF Kept
  <2> QED
    BY <2>1 DEF Groups
<1>5. ASSUME NEW n \in {80, 112} PROVE Kept(s, [s EXCEPT !.groups = @ \cup {n}])
  <2>1. s.groups \cup {n} \in SUBSET {80, 112, 128}
    BY DEF Sites
  <2>2. [s EXCEPT !.groups = s.groups \cup {n}] \in Sites
    BY <2>1, GroupsChange
  <2> QED
    BY <2>2, Fields, ZenonT(60) DEF Kept
<1>6. ASSUME NEW c \in Chains PROVE Kept(s, [s EXCEPT !.chain = c])
  <2>1. [s EXCEPT !.chain = c] \in Sites
    BY ChainsPresented, ChainChange
  <2> QED
    BY <2>1, Fields DEF Kept
<1>7. ASSUME s.chain # <<>>
      PROVE  /\ \A d \in {"soon", "past", "future"} : Kept(s, [s EXCEPT !.chain[1].date = d])
             /\ \A n \in WeakKeys : Kept(s, [s EXCEPT !.chain[1].strength = n])
             /\ Kept(s, [s EXCEPT !.chain[1].days = 400]) /\ Kept(s, [s EXCEPT !.chain[1].scts = 0])
             /\ Kept(s, [s EXCEPT !.chain[1].weakSignature = TRUE])
  <2>1. s.chain[1] \in Certs
    BY <1>7 DEF Sites, CertLists
  <2>2. WeakKeys \subseteq KeySizes
    BY Strengths DEF WeakKeys, KeySizes
  <2>3. \A c \in Certs : Kept(s, [s EXCEPT !.chain = [@ EXCEPT ![1] = c]])
    BY <1>7, LeafChange
  <2>4. ASSUME NEW d \in {"soon", "past", "future"} PROVE Kept(s, [s EXCEPT !.chain[1].date = d])
    <3>1. [s.chain[1] EXCEPT !.date = d] \in Certs
      BY <2>1, CertsChange, ZenonT(60)
    <3> QED
      BY <2>3, <3>1
  <2>5. ASSUME NEW n \in WeakKeys PROVE Kept(s, [s EXCEPT !.chain[1].strength = n])
    <3>1. [s.chain[1] EXCEPT !.strength = n] \in Certs
      BY <2>1, <2>2, CertsChange
    <3> QED
      BY <2>3, <3>1
  <2>6. Kept(s, [s EXCEPT !.chain[1].days = 400])
    <3>1. [s.chain[1] EXCEPT !.days = 400] \in Certs
      BY <2>1, CertsChange, ZenonT(60)
    <3> QED
      BY <2>3, <3>1
  <2>7. Kept(s, [s EXCEPT !.chain[1].scts = 0])
    <3>1. [s.chain[1] EXCEPT !.scts = 0] \in Certs
      BY <2>1, CertsChange
    <3> QED
      BY <2>3, <3>1
  <2>8. Kept(s, [s EXCEPT !.chain[1].weakSignature = TRUE])
    <3>1. [s.chain[1] EXCEPT !.weakSignature = TRUE] \in Certs
      BY <2>1, CertsChange
    <3> QED
      BY <2>3, <3>1
  <2> QED
    BY <2>4, <2>5, <2>6, <2>7, <2>8
<1>8. /\ Kept(s, [s EXCEPT !.ssl2 = TRUE]) /\ Kept(s, [s EXCEPT !.named = FALSE])
      /\ Kept(s, [s EXCEPT !.mustStaple = TRUE]) /\ Kept(s, [s EXCEPT !.incomplete = TRUE])
  BY FlagChange, Fields DEF Kept
<1>9. \A v \in Tri : /\ Kept(s, [s EXCEPT !.compression = v]) /\ Kept(s, [s EXCEPT !.heartbeat = v])
                     /\ Kept(s, [s EXCEPT !.secureRenegotiation = v])
                     /\ Kept(s, [s EXCEPT !.clientRenegotiation = v])
  BY FeatureChange, Fields DEF Kept
<1>10. /\ \A v \in {"none", "revoked"} : Kept(s, [s EXCEPT !.stapled = v])
       /\ \A v \in {"short", "none"} : Kept(s, [s EXCEPT !.hsts = v])
  BY HeaderChange, Fields DEF Kept
<1>11. Kept(s, [s EXCEPT !.reachable = FALSE, !.hsts = "none", !.plain = "skipped"])
  <2> DEFINE x == [s EXCEPT !.reachable = FALSE]
             y == [x EXCEPT !.hsts = "none"]
             z == [y EXCEPT !.plain = "skipped"]
  <2>1. x \in Sites /\ x.suites = s.suites /\ x.protocols = s.protocols
    BY FlagChange, Fields
  <2>2. [s EXCEPT !.reachable = FALSE, !.hsts = "none", !.plain = "skipped"] = z
    OBVIOUS
  <2> HIDE DEF x
  <2>3. y \in Sites /\ y.suites = s.suites /\ y.protocols = s.protocols
    BY <2>1, HeaderChange, Fields
  <2> HIDE DEF y
  <2>4. z \in Sites /\ z.suites = s.suites /\ z.protocols = s.protocols
    BY <2>3, HeaderChange, Fields
  <2> HIDE DEF z
  <2> QED
    BY <2>2, <2>4 DEF Kept
<1>12. \A x \in WorseSpoken(s) : Kept(s, x)
  BY <1>1, <1>2, <1>3, <1>8 DEF WorseSpoken
<1>13. \A x \in WorseGroups(s) : Kept(s, x)
  <2>1. WeakerPrimes(s) \subseteq {512, 1024, 2048, 4096}
    BY DEF WeakerPrimes
  <2> QED
    BY <1>4, <1>5, <2>1 DEF WorseGroups
<1>14. \A x \in WorseChain(s) : Kept(s, x)
  BY <1>6 DEF WorseChain
<1>15. \A x \in WorseLeaf(s) : Kept(s, x)
  <2>1. WeakerKeys(s) \subseteq WeakKeys
    BY DEF WeakerKeys
  <2>2. CASE s.chain = <<>>
    BY <2>2 DEF WorseLeaf
  <2>3. CASE s.chain # <<>>
    <3> DEFINE dated == {[s EXCEPT !.chain[1].date = d] :
                           d \in IF s.chain[1].date = "fresh" THEN {"soon", "past", "future"} ELSE {}}
               keyed == {[s EXCEPT !.chain[1].strength = n] : n \in WeakerKeys(s)}
               rest  == {[s EXCEPT !.chain[1].days = 400], [s EXCEPT !.chain[1].scts = 0],
                         [s EXCEPT !.chain[1].weakSignature = TRUE]}
    <3>1. WorseLeaf(s) = dated \cup keyed \cup rest
      BY <2>3 DEF WorseLeaf
    <3>2. \A x \in dated : Kept(s, x)
      BY <1>7, <2>3
    <3>3. \A x \in keyed : Kept(s, x)
      BY <1>7, <2>1, <2>3
    <3>4. \A x \in rest : Kept(s, x)
      <4> DEFINE a == [s EXCEPT !.chain[1].days = 400]
                 b == [s EXCEPT !.chain[1].scts = 0]
                 c == [s EXCEPT !.chain[1].weakSignature = TRUE]
      <4>1. Kept(s, a) /\ Kept(s, b) /\ Kept(s, c)
        BY <1>7, <2>3
      <4>2. rest = {a, b, c}
        OBVIOUS
      <4> HIDE DEF a, b, c, rest
      <4> QED
        BY <4>1, <4>2
    <3> HIDE DEF dated, keyed, rest
    <3> QED
      BY <3>1, <3>2, <3>3, <3>4
  <2> QED
    BY <2>2, <2>3
<1>16. \A x \in WorseStaple(s) : Kept(s, x)
  BY <1>8, <1>10 DEF WorseStaple
<1>17. \A x \in WorseFeatures(s) : Kept(s, x)
  <2>1. "true" \in Tri /\ "false" \in Tri /\ "null" \in Tri
    BY DEF Tri
  <2> QED
    BY <1>9, <2>1, Zenon DEF WorseFeatures
<1>18. \A x \in WorseAnswers(s) : Kept(s, x)
  BY <1>8, <1>10, <1>11 DEF WorseAnswers
<1> QED
  BY <1>12, <1>13, <1>14, <1>15, <1>16, <1>17, <1>18 DEF Worse
LEMMA VersionSet == ToSet(Versions) = {"SSL 3.0", "TLS 1.0", "TLS 1.1", "TLS 1.2", "TLS 1.3"}
<1>1. /\ DOMAIN Versions = 1..5 /\ Versions[1] = "SSL 3.0" /\ Versions[2] = "TLS 1.0"
      /\ Versions[3] = "TLS 1.1" /\ Versions[4] = "TLS 1.2" /\ Versions[5] = "TLS 1.3"
  BY DEF Versions
<1>2. 1..5 = {1, 2, 3, 4, 5}
  OBVIOUS
<1>3. ToSet(Versions) = {Versions[i] : i \in {1, 2, 3, 4, 5}}
  BY <1>1, <1>2 DEF ToSet
<1> QED
  BY <1>1, <1>3

\* The sites that the ways of getting worse start from.
LEMMA ModernSite == Modern \in Sites
<1> DEFINE c == <<leaf, mid>>
           S == {Suite("TLS13", FALSE, GCM), Suite("ECDHE_RSA", FALSE, GCM)}
           P == {"TLS 1.2", "TLS 1.3"}
<1>1. c \in CertLists
  BY CertsPresented DEF CertLists
<1>2. S \in SUBSET (Registry \cup {UnknownSuite})
  BY GoodRegistered
<1>3. P \in SUBSET ToSet(Versions)
  BY VersionSet
<1>4. Undefined \in Groups
  BY DEF Groups
<1>5. Modern = [protocols |-> P, ssl2 |-> FALSE, suites |-> S,
                groups |-> {128}, dh |-> Undefined, chain |-> c, named |-> TRUE,
                stapled |-> "good", mustStaple |-> FALSE,
                compression |-> "false", heartbeat |-> "false", secureRenegotiation |-> "true",
                clientRenegotiation |-> "false", fallbackScsv |-> "true",
                hsts |-> "long", plain |-> "https", reachable |-> TRUE, incomplete |-> FALSE]
  BY DEF Modern
<1>6. {128} \in SUBSET {80, 112, 128}
  OBVIOUS
<1> HIDE DEF c, S, P
<1> QED
  BY <1>1, <1>2, <1>3, <1>4, <1>5, <1>6 DEF Sites, Tri

LEMMA StartingSites == {Modern, Old, Rc4, Dsa} \subseteq Sites
<1>1. {"TLS 1.0"} \in SUBSET ToSet(Versions)
  BY VersionSet
<1>2. Old \in Sites
  <2> DEFINE x == [Modern EXCEPT !.protocols = {"TLS 1.0"}]
  <2>1. x \in Sites
    BY <1>1, ModernSite, ProtocolsChange
  <2>2. Old = [x EXCEPT !.suites = {Suite("ECDHE_RSA", FALSE, CBC)}]
    BY DEF Old
  <2> HIDE DEF x
  <2>3. {Suite("ECDHE_RSA", FALSE, CBC)} \in SUBSET (Registry \cup {UnknownSuite})
    BY GoodRegistered
  <2> QED
    BY <2>1, <2>2, <2>3, SuitesChange
<1>3. Rc4 \in Sites
  <2>1. {Suite("RSA", FALSE, RC4)} \in SUBSET (Registry \cup {UnknownSuite})
    BY GoodRegistered
  <2> QED
    BY <1>2, <2>1, SuitesChange DEF Rc4
<1>4. Dsa \in Sites
  <2> DEFINE c == [Old.chain[1] EXCEPT !.strength = KeyStrength("dsa", 512)]
             x == [Old EXCEPT !.chain = [@ EXCEPT ![1] = c]]
             y == [x EXCEPT !.groups = {}]
  <2>1. Dsa = [y EXCEPT !.suites = {Suite("DHE_DSS", FALSE, CBC)}]
    BY DEF Dsa
  <2>2. Old.chain = <<leaf, mid>>
    BY DEF Old, Modern
  <2>3. c \in Certs
    <3> DEFINE k == KeyStrength("dsa", 512)
    <3>1. k \in KeySizes
      BY Strengths DEF KeySizes
    <3>2. Old.chain[1] \in Certs
      BY <2>2, CertsPresented
    <3> HIDE DEF k
    <3>3. [Old.chain[1] EXCEPT !.strength = k] \in Certs
      BY <3>1, <3>2, CertsChange
    <3> QED
      BY <3>3 DEF k
  <2> HIDE DEF c
  <2>4. x \in Sites
    <3>1. Old.chain # <<>>
      BY <2>2
    <3> QED
      BY <1>2, <2>3, <3>1, LeafChange DEF Kept
  <2> HIDE DEF x
  <2>5. {} \in SUBSET {80, 112, 128}
    OBVIOUS
  <2>6. y \in Sites
    BY <2>4, <2>5, GroupsChange
  <2> HIDE DEF y
  <2>7. {Suite("DHE_DSS", FALSE, CBC)} \in SUBSET (Registry \cup {UnknownSuite})
    BY GoodRegistered
  <2> QED
    BY <2>1, <2>6, <2>7, SuitesChange
<1> QED
  BY ModernSite, <1>2, <1>3, <1>4
\* A suite that is in the registry is offered at TLS 1.3 or at TLS 1.2.
LEMMA Offered ==
  ASSUME NEW n \in Registry PROVE OfferedAt("TLS 1.3", n) \/ OfferedAt("TLS 1.2", n)
<1>1. n.left \in Lefts
  BY RegistryProper DEF Proper
<1>2. n.left # "unknown"
  BY <1>1 DEF Lefts
<1> QED
  BY <1>2 DEF OfferedAt

LEMMA StartingAnswers ==
  /\ Answers(Modern, FALSE) /\ Answers(Old, FALSE) /\ Answers(Rc4, FALSE) /\ Answers(Dsa, FALSE)
<1>1. Answers(Modern, FALSE)
  <2>1. OfferedAt("TLS 1.2", Suite("ECDHE_RSA", FALSE, GCM))
    BY DEF OfferedAt, Suite
  <2>2. /\ Suite("ECDHE_RSA", FALSE, GCM) \in Modern.suites
        /\ "TLS 1.2" \in Modern.protocols
    BY DEF Modern
  <2> QED
    BY <2>1, <2>2 DEF Answers
<1>2. ASSUME NEW l PROVE OfferedAt("TLS 1.0", Suite(l, FALSE, CBC)) /\ OfferedAt("TLS 1.0", Suite(l, FALSE, RC4))
  <2> DEFINE c == Suite(l, FALSE, CBC)
             r == Suite(l, FALSE, RC4)
  <2>1. c.right.mode = "CBC" /\ c.right.mac = "SHA" /\ r.right.mode = "none" /\ r.right.mac = "SHA"
    BY DEF Suite, CBC, RC4, Right
  <2> HIDE DEF c, r
  <2>2. Describe(c).suite.mac = c.right.mac /\ Describe(r).suite.mac = r.right.mac
    BY DEF Describe
  <2>3. ~Describe(c).suite.aead /\ ~Describe(r).suite.aead
    BY <2>1 DEF Describe
  <2>4. OfferedAt("TLS 1.0", c) /\ OfferedAt("TLS 1.0", r)
    BY <2>1, <2>2, <2>3 DEF OfferedAt
  <2> QED
    BY <2>4 DEF c, r
<1>3. /\ Old.protocols = {"TLS 1.0"} /\ Old.suites = {Suite("ECDHE_RSA", FALSE, CBC)}
      /\ Rc4.protocols = {"TLS 1.0"} /\ Rc4.suites = {Suite("RSA", FALSE, RC4)}
  BY DEF Old, Rc4, Modern
<1>4. Dsa.protocols = {"TLS 1.0"} /\ Dsa.suites = {Suite("DHE_DSS", FALSE, CBC)}
  BY DEF Dsa, Old, Modern
<1>5. Answers(Old, FALSE)
  BY <1>2, <1>3 DEF Answers
<1>6. Answers(Rc4, FALSE)
  BY <1>2, <1>3 DEF Answers
<1>7. Answers(Dsa, FALSE)
  BY <1>2, <1>4 DEF Answers
<1> QED
  BY <1>1, <1>5, <1>6, <1>7

LEMMA SiteStarts == Init => SiteInv
<1>1. ASSUME NEW s \in {Modern, Old, Rc4, Dsa}, site = s PROVE SiteInv
  <2>1. Answers(s, FALSE)
    BY StartingAnswers
  <2>2. Answers(s, faults = MaxFaults)
    BY <2>1 DEF Answers
  <2> QED
    BY <1>1, <2>2, StartingSites DEF SiteInv
<1>2. /\ Modern.protocols = {"TLS 1.2", "TLS 1.3"} /\ Modern.suites \subseteq Registry
      /\ Answers(Modern, FALSE)
  BY StartingAnswers, GoodRegistered DEF Modern
<1>3. ASSUME faults = MaxFaults, NEW n \in Registry \cup {UnknownSuite},
             site = [Modern EXCEPT !.suites = @ \cup {n}]
      PROVE  SiteInv
  <2> DEFINE S == Modern.suites \cup {n}
  <2>1. S \in SUBSET (Registry \cup {UnknownSuite})
    BY <1>2
  <2>2. site = [Modern EXCEPT !.suites = S]
    BY <1>3
  <2>3. site \in Sites
    BY <2>1, <2>2, SuitesChange, ModernSite
  <2>4. site.suites = S /\ site.protocols = Modern.protocols
    BY <2>2, ModernSite, Fields
  <2>5. Answers(site, TRUE)
    BY <1>2, <2>4, ModernSite, KeepsAnswers
  <2> QED
    BY <1>3, <2>3, <2>5 DEF SiteInv, Answers
<1>4. ASSUME faults = MaxFaults, NEW n \in Registry, site = [Modern EXCEPT !.suites = {n}]
      PROVE  SiteInv
  <2>1. site \in Sites
    BY <1>4, SuitesChange, ModernSite
  <2>2. site.suites = {n} /\ site.protocols = {"TLS 1.2", "TLS 1.3"}
    BY <1>2, <1>4, ModernSite, Fields
  <2>3. Answers(site, faults = MaxFaults)
    BY <1>4, <2>2, Offered DEF Answers
  <2> QED
    BY <2>1, <2>3 DEF SiteInv
<1> QED
  BY <1>1, <1>3, <1>4 DEF Init

LEMMA SiteStays == SiteInv /\ [Break]_vars => SiteInv'
<1>1. ASSUME SiteInv, Break PROVE SiteInv'
  <2>1. faults # MaxFaults /\ site \in Sites /\ Answers(site, faults = MaxFaults)
    BY <1>1, FaultsAssumption DEF SiteInv, Break
  <2>2. Answers(site, FALSE)
    BY <2>1 DEF Answers
  <2>3. Kept(site, site')
    BY <1>1, <2>1, WorseKept DEF Break
  <2>4. Answers(site', (faults = MaxFaults)')
    BY <2>1, <2>2, <2>3, KeepsAnswers DEF Kept
  <2> QED
    BY <2>3, <2>4 DEF SiteInv, Kept
<1>2. ASSUME SiteInv, UNCHANGED vars PROVE SiteInv'
  BY <1>2 DEF SiteInv, vars
<1> QED
  BY <1>1, <1>2

LEMMA SitesReached == Spec => []SiteInv
  BY SiteStarts, SiteStays, PTL DEF Spec

(***************************************************************************)
(* However a site gets worse: the report trusts only a leaf that is in     *)
(* date, not revoked and signed all the way up to an anchor, says which    *)
(* store that is in, and gives no other leaf a letter above T              *)
(* (cert.js:166-291, trust.js:88-124, grade.js:144-157).                   *)
(***************************************************************************)
THEOREM TrustAlwaysEarned == Spec => []TrustIsEarned
<1>1. SiteInv => TrustIsEarned
  BY SitesEarn DEF SiteInv, TrustIsEarned
<1> QED
  BY <1>1, SitesReached, PTL

-----------------------------------------------------------------------------
(***************************************************************************)
(* What the page shows in red: nothing, of a report without a weakness.    *)
(***************************************************************************)

LEMMA GreatestUpTo ==
  ASSUME NEW b \in Nat, NEW S, S # {}, \A y \in S : y \in Nat /\ y <= b
  PROVE  Max(S) \in S
<1> DEFINE T == {b - x : x \in S}
<1>1. \A y \in T : y \in Nat
  BY Z3
<1>2. T \subseteq Nat /\ T # {}
  BY <1>1, Zenon
<1>3. Min(T) \in T /\ \A y \in T : Min(T) <= y
  BY <1>2, LeastOf
<1>4. PICK m \in S : Min(T) = b - m
  BY <1>3
<1>5. ASSUME NEW y \in S PROVE y <= m
  <2>1. b - m <= b - y
    BY <1>3, <1>4
  <2> QED
    BY <2>1
<1> HIDE DEF T
<1>6. S \subseteq Int
  OBVIOUS
<1>7. Max(S) = m
  BY <1>5, <1>6, GreatestOf
<1> QED
  BY <1>7

\* The middle of a set of numbers is within its bounds.
LEMMA Middle ==
  ASSUME NEW a \in Nat, NEW b \in Nat, NEW S, S # {}, \A y \in S : y \in a..b
  PROVE  Max(S) \in S /\ Min(S) \in S /\ Half(Max(S), Min(S)) \in a..b
<1>1. S \subseteq Nat /\ \A y \in S : y \in Nat /\ y <= b
  OBVIOUS
<1>2. Min(S) \in S
  BY <1>1, LeastOf
<1>3. Max(S) \in S
  BY <1>1, GreatestUpTo
<1>4. ASSUME NEW x \in a..b, NEW y \in a..b PROVE Half(x, y) \in a..b
  BY DEF Half
<1> QED
  BY <1>2, <1>3, <1>4
\* The protocols, the groups and the key of a report without a weakness in them.
Recent  == {"TLS 1.0", "TLS 1.1", "TLS 1.2", "TLS 1.3"}
Primes  == {Undefined, 2048, 4096}
Curves  == {80, 112, 128}
Strong  == {112, 128}

LEMMA RecentScores == \A v \in Recent : ProtocolScores[v] \in {90, 95, 100}
<1>1. ASSUME NEW v \in Recent
      PROVE  ProtocolScores[v] = IF v = "TLS 1.0" THEN 90 ELSE IF v = "TLS 1.1" THEN 95 ELSE 100
  <2>1. v \in {"SSL 2.0", "SSL 3.0"} \cup Recent /\ v # "SSL 2.0" /\ v # "SSL 3.0"
    BY <1>1 DEF Recent
  <2> QED
    BY <2>1 DEF ProtocolScores, Recent
<1> QED
  BY <1>1, ZenonT(40)

KeyScore(bits) ==
  CASE bits < 512  -> 20
    [] bits \in 512..1023  -> 40
    [] bits \in 1024..2047 -> 80
    [] bits \in 2048..4095 -> 90
    [] OTHER -> 100

LEMMA KeyBits == ASSUME NEW bits \in Int, 1024 <= bits PROVE KeyScore(bits) \in {80, 90, 100}
<1> DEFINE small == bits < 512
           short == bits \in 512..1023
           fair  == bits \in 1024..2047
           good  == bits \in 2048..4095
<1>1. ~small /\ ~short
  OBVIOUS
<1> HIDE DEF small, short, fair, good
<1>2. (CASE small -> 20 [] short -> 40 [] fair -> 80 [] good -> 90 [] OTHER -> 100) \in {80, 90, 100}
  <2>1. CASE fair \/ good
    BY <1>1, <2>1
  <2>2. CASE ~fair /\ ~good
    BY <1>1, <2>2
  <2> QED
    BY <2>1, <2>2
<1> QED
  BY <1>2 DEF KeyScore, small, short, fair, good

LEMMA LeastBits ==
  ASSUME NEW parts, parts # {}, \A y \in parts : y \in Nat /\ 1024 <= y
  PROVE  Min(parts) \in Int /\ 1024 <= Min(parts)
<1>1. parts \subseteq Nat
  OBVIOUS
<1>2. Min(parts) \in parts
  BY <1>1, LeastOf
<1> QED
  BY <1>2

LEMMA ProtocolsScore ==
  ASSUME NEW r, r.protocols \subseteq Recent, r.protocols # {}, ~r.ssl2
  PROVE  ProtocolScore(r) \in 80..100
<1> DEFINE P == r.protocols
           S == {ProtocolScores[v] : v \in P}
<1>1. ASSUME NEW v \in Recent PROVE ProtocolScores[v] \in 80..100
  BY RecentScores
<1>2. P \cup (IF r.ssl2 THEN {"SSL 2.0"} ELSE {}) = P
  OBVIOUS
<1>3. ProtocolScore(r) = IF S = {} THEN 0 ELSE Half(Max(S), Min(S))
  BY <1>2, Zenon DEF ProtocolScore
<1>4. P \subseteq Recent /\ P # {}
  OBVIOUS
<1> HIDE DEF P
<1>5. S # {}
  BY <1>4
<1>6. \A y \in S : y \in 80..100
  BY <1>1, <1>4
<1> HIDE DEF S
<1>7. Half(Max(S), Min(S)) \in 80..100
  BY <1>5, <1>6, Middle
<1> QED
  BY <1>3, <1>5, <1>7

LEMMA CiphersScore ==
  ASSUME NEW r, r.suites # {}, \A n \in r.suites : Bits(n.right) \in {128, 256}
  PROVE  CipherScore(r) \in 80..100
<1> DEFINE S     == {d.bits : d \in Described(r)} \ {Undefined}
           Of(b) == IF b = 0 THEN 0 ELSE IF b < 128 THEN 20 ELSE IF b < 256 THEN 80 ELSE 100
<1>1. \A n : Describe(n).suite.bits = Bits(n.right)
  BY DescribeSays
<1>2. ASSUME NEW y \in S PROVE y \in {128, 256}
  <2>1. PICK d \in Described(r) : y = d.bits
    BY <1>2
  <2>2. PICK n \in r.suites : d = Describe(n).suite
    BY <2>1 DEF Described
  <2> QED
    BY <1>1, <2>1, <2>2
<1>3. S # {}
  <2>1. PICK n \in r.suites : TRUE
    OBVIOUS
  <2>2. Describe(n).suite \in Described(r)
    BY <2>1 DEF Described
  <2>3. Bits(n.right) # Undefined
    BY <2>1 DEF Undefined
  <2>4. Bits(n.right) \in S
    BY <1>1, <2>2, <2>3
  <2> QED
    BY <2>4
<1>4. CipherScore(r) = IF S = {} THEN 0 ELSE Half(Of(Max(S)), Of(Min(S)))
  BY DEF CipherScore
<1> HIDE DEF S
<1>5. Max(S) \in S /\ Min(S) \in S
  <2> DEFINE a == 128
             b == 256
  <2>1. a \in Nat /\ b \in Nat /\ \A y \in S : y \in a..b
    BY <1>2
  <2> HIDE DEF a, b
  <2> QED
    BY <1>3, <2>1, Middle
<1>6. Of(128) \in 80..100 /\ Of(256) \in 80..100
  OBVIOUS
<1> HIDE DEF Of
<1>7. Of(Max(S)) \in 80..100 /\ Of(Min(S)) \in 80..100
  BY <1>2, <1>5, <1>6
<1>8. ASSUME NEW x \in 80..100, NEW y \in 80..100 PROVE Half(x, y) \in 80..100
  BY DEF Half
<1> QED
  BY <1>3, <1>4, <1>7, <1>8

LEMMA KeysScore ==
  ASSUME NEW r, r.strength \in Strong, r.dh \in Primes, r.groups \subseteq Curves,
         \A d \in Described(r) : ~d.anonymous
  PROVE  KeyExchangeScore(r) \in 80..100
<1> DEFINE k == r.strength  d == r.dh  g == r.groups
           own   == IF k > 0 THEN {RsaEquivalent(k)} ELSE {}
           prime == IF d > 0 THEN {d} ELSE {}
           curve == IF g # {} THEN {RsaEquivalent(Min(g))} ELSE {}
           parts == own \cup prime \cup curve
           bits  == Min(parts)
<1>1. KeyExchangeScore(r) =
        IF (\E x \in Described(r) : x.anonymous) \/ parts = {} THEN 0 ELSE KeyScore(bits)
  BY DEF KeyExchangeScore, KeyScore
<1>2. k \in Strong /\ d \in Primes /\ g \subseteq Curves
  OBVIOUS
<1> HIDE DEF k, d, g
<1>3. RsaEquivalent(80) = 1024 /\ RsaEquivalent(112) = 2048 /\ RsaEquivalent(128) = 3072
  BY DEF RsaEquivalent
<1>4. own # {} /\ \A y \in own : y \in Nat /\ 1024 <= y
  BY <1>2, <1>3 DEF Strong
<1>5. \A y \in prime : y \in Nat /\ 1024 <= y
  BY <1>2 DEF Primes, Undefined
<1>6. \A y \in curve : y \in Nat /\ 1024 <= y
  <2>1. ASSUME g # {} PROVE Min(g) \in Curves
    <3>1. g \subseteq Nat
      BY <1>2 DEF Curves
    <3>2. Min(g) \in g
      BY <2>1, <3>1, LeastOf
    <3> QED
      BY <1>2, <3>2
  <2> QED
    BY <1>3, <2>1 DEF Curves
<1> HIDE DEF own, prime, curve
<1>7. parts # {} /\ \A y \in parts : y \in Nat /\ 1024 <= y
  BY <1>4, <1>5, <1>6
<1> HIDE DEF parts
<1>8. bits \in Int /\ 1024 <= bits
  BY <1>7, LeastBits, ZenonT(40)
<1> HIDE DEF bits
<1>9. KeyScore(bits) \in {80, 90, 100}
  BY <1>8, KeyBits
<1>10. KeyExchangeScore(r) = KeyScore(bits)
  BY <1>1, <1>7
<1> QED
  BY <1>9, <1>10
\* What of a report gives no value a reason to be red: what it speaks,
Sturdy(r) ==
  /\ ~r.ssl2 /\ "SSL 3.0" \notin r.protocols /\ r.protocols # {}
  /\ r.dh \in Primes /\ r.suites # {}
  /\ \A n \in r.suites : /\ ~n.export /\ ~Describe(n).suite.anonymous
                         /\ n.right.cipher \notin {"NULL", "DES", "3DES"}
  /\ \E n \in r.suites : Describe(n).suite.pfs

\* and what it says of the chain.
Earned(r) ==
  /\ r.cert.issues = {} /\ r.cert.leaf /\ r.cert.trusted /\ r.cert.store # "none"
  /\ ~(r.days < 0) /\ r.strength \in Strong /\ r.weakSignature = FALSE

\* Without an issue there is a leaf with a good key, in date and trusted.
LEMMA NoIssues ==
  ASSUME NEW s \in Sites, Assemble(s).cert.issues = {}
  PROVE  Earned(Assemble(s))
<1> DEFINE r      == Assemble(s)
           c      == r.cert
           certs  == Parsed(s.chain)
           anchor == FindAnchor(certs, Anchors)
<1>1. c.leaf
  BY LeafIsFirst
<1>2. s.chain # <<>> /\ ~s.chain[1].unparsable
  BY <1>1, LeafIsFirst
<1>3. s.chain \in Seq(Certs)
  BY DEF Sites, CertLists
<1>4. s.chain[1] \in Certs
  BY <1>2, <1>3
<1>5. /\ c.trusted /\ c.store = anchor.store /\ anchor # None
      /\ s.chain[1].date # "past" /\ ~SelfNamed(s.chain[1]) /\ ~WeakKey(s.chain[1].strength)
      /\ ~\E x \in ToSet(certs) : x.weakSignature /\ ~SelfNamed(x)
  BY <1>1, LeafSays, ZenonT(60) DEF Says
<1>6. ~(r.days < 0)
  <2>1. r.days = CASE s.chain[1].date = "soon" -> 10 [] s.chain[1].date = "past" -> -1 [] OTHER -> 60
    BY <1>1, ReportedLeaf
  <2>2. r.days \in {10, 60}
    BY <1>5, <2>1
  <2> DEFINE d == r.days
  <2>3. d \in {10, 60}
    BY <2>2
  <2> HIDE DEF d
  <2>4. ~(d < 0)
    BY <2>3
  <2> QED
    BY <2>4 DEF d
<1>7. r.strength \in Strong
  <2>1. r.strength = s.chain[1].strength
    BY <1>1, ReportedLeaf
  <2>2. s.chain[1].strength \in KeySizes
    BY <1>4 DEF Certs
  <2>3. ASSUME NEW n \in KeySizes, ~WeakKey(n) PROVE n \in Strong
    BY <2>3 DEF KeySizes, WeakKey, Strong
  <2> QED
    BY <1>5, <2>1, <2>2, <2>3
<1>8. r.weakSignature = FALSE
  <2>1. r.weakSignature = s.chain[1].weakSignature
    BY <1>1, ReportedLeaf
  <2>2. 1 \in DOMAIN certs /\ certs[1] = s.chain[1]
    BY <1>2, <1>3, ParsedList
  <2>3. s.chain[1] \in ToSet(certs)
    BY <2>2 DEF ToSet
  <2>4. s.chain[1].weakSignature \in BOOLEAN
    BY <1>4 DEF Certs
  <2> QED
    BY <1>5, <2>1, <2>3, <2>4
<1>9. c.store # "none"
  <2>1. DOMAIN certs \subseteq Nat /\ DOMAIN Anchors \subseteq Nat
    <3>1. PICK T : certs \in Seq(T)
      BY <1>3, ParsedList
    <3> HIDE DEF certs
    <3> QED
      BY <3>1, TheAnchors
  <2>2. PICK m \in Anchored(certs, Anchors) : anchor.store = Anchors[m[2]].store
    BY <1>5, <2>1, AnchorFound
  <2>3. m[2] \in DOMAIN Anchors
    BY <2>2 DEF Anchored
  <2> QED
    BY <1>5, <2>2, <2>3, TheAnchors DEF Mozilla
<1> QED
  BY <1>1, <1>5, <1>6, <1>7, <1>8, <1>9 DEF Earned

\* Card by card.
NoneRed(fields) == \A f \in DOMAIN fields : fields[f] # "bad"

LEMMA ScoresNotRed ==
  ASSUME NEW s \in Sites, Earned(Assemble(s)), Sturdy(Assemble(s))
  PROVE  LET r == Assemble(s)
         IN NoneRed(HeroFields(r)) /\ \A f \in DOMAIN GradeFields(r) :
              GradeFields(r)[f] = "bad" => f = "grade_caps" /\ Tags(r) # {}
<1> DEFINE r == Assemble(s)
<1>1. ASSUME NEW score \in 80..100 PROVE Meter(score) = "ok"
  BY DEF Meter
<1>2. ProtocolScore(r) \in 80..100
  <2>0. s.protocols \subseteq ToSet(Versions)
    BY DEF Sites
  <2>3. r.protocols \subseteq ToSet(Versions)
    BY <2>0, Reported
  <2>1. r.protocols \subseteq ToSet(Versions) /\ r.protocols # {} /\ ~r.ssl2 /\ "SSL 3.0" \notin r.protocols
    BY <2>3 DEF Sturdy
  <2>2. r.protocols \subseteq Recent
    BY <2>1, VersionSet DEF Recent
  <2> HIDE DEF r
  <2> QED
    BY <2>1, <2>2, ProtocolsScore
<1>3. CipherScore(r) \in 80..100
  <2>1. ASSUME NEW n \in r.suites PROVE Bits(n.right) \in {128, 256}
    <3>1. Proper(n) /\ ~n.export /\ n.right.cipher \notin {"NULL", "DES", "3DES"}
      BY SuitesSeen DEF Sturdy
    <3>2. ProperRight(n.right)
      BY <3>1 DEF Proper
    <3> DEFINE x == n.right
    <3> HIDE DEF x
    <3>3. ProperRight(x) /\ x.cipher \notin {"NULL", "DES", "3DES"}
      BY <3>1, <3>2 DEF x
    <3> DEFINE b == Bits(x)
    <3>4. /\ b \in {0, 56, 112, 128, 256}
          /\ ~(b < 112) /\ b # 112
      BY <3>3 DEF ProperRight
    <3> HIDE DEF b
    <3>5. b \in {128, 256}
      BY <3>4
    <3> QED
      BY <3>5 DEF b, x
  <2>2. r.suites # {}
    BY DEF Sturdy
  <2> HIDE DEF r
  <2> QED
    BY <2>1, <2>2, CiphersScore
<1>4. KeyExchangeScore(r) \in 80..100
  <2>1. r.groups \subseteq Curves
    BY Reported DEF Curves
  <2>2. r.strength \in Strong /\ r.dh \in Primes
    BY DEF Earned, Sturdy
  <2>3. \A d \in Described(r) : ~d.anonymous
    BY DEF Sturdy, Described
  <2> HIDE DEF r
  <2> QED
    BY <2>1, <2>2, <2>3, KeysScore
<1> HIDE DEF r
<1>5. /\ Meter(ProtocolScore(r)) = "ok" /\ Meter(KeyExchangeScore(r)) = "ok"
      /\ Meter(CipherScore(r)) = "ok"
  BY <1>1, <1>2, <1>3, <1>4
<1>6. \A f \in DOMAIN GradeFields(r) : GradeFields(r)[f] = "bad" => f = "grade_caps" /\ Tags(r) # {}
  <2> DEFINE caps == If2(Tags(r) # {}, "bad", "absent")
  <2>1. GradeFields(r) = [score_protocol |-> "ok", score_kex |-> "ok", score_cipher |-> "ok",
                          grade_caps |-> caps]
    BY <1>5 DEF GradeFields
  <2>2. caps = "bad" => Tags(r) # {}
    BY DEF If2
  <2> HIDE DEF caps
  <2> QED
    BY <2>1, <2>2
<1>7. NoneRed(HeroFields(r))
  <2> DEFINE best == If2("TLS 1.3" \in r.protocols, "ok", "warn")
             days == CASE ~r.cert.leaf -> "absent"
                       [] r.cert.leaf /\ r.days < 0 -> "bad"
                       [] r.cert.leaf /\ r.days \in 0..20 -> "warn"
                       [] OTHER -> "ok"
             hsts == CASE r.hsts = "long" -> "ok" [] r.hsts = "short" -> "warn" [] OTHER -> "absent"
  <2>1. HeroFields(r) = [chip_best |-> best, chip_days |-> days, chip_hsts |-> hsts]
    BY DEF HeroFields
  <2>2. Earned(r)
    BY DEF r
  <2>3. days # "bad"
    BY <2>2 DEF Earned
  <2>4. best # "bad" /\ hsts # "bad"
    BY DEF If2
  <2> HIDE DEF best, days, hsts
  <2> QED
    BY <2>1, <2>3, <2>4 DEF NoneRed
<1> QED
  BY <1>6, <1>7 DEF r

LEMMA CertificatesNotRed ==
  ASSUME NEW r, Earned(r) PROVE NoneRed(CertificateFields(r)) /\ NoneRed(ChainFields(r))
<1>1. ASSUME NEW n \in Strong PROVE (CASE n >= 128 -> "ok" [] n \in 112..127 -> "plain" [] OTHER -> "bad") # "bad"
  BY DEF Strong
<1> DEFINE key == CASE r.strength >= 128 -> "ok" [] r.strength \in 112..127 -> "plain" [] OTHER -> "bad"
           to  == CASE r.days < 0 -> "bad" [] r.days \in 0..20 -> "warn" [] OTHER -> "ok"
<1>2. key # "bad"
  BY <1>1 DEF Earned
<1>3. to # "bad"
  BY DEF Earned
<1>4. CertificateFields(r) =
        [cert_to |-> to, cert_key |-> key, cert_sig |-> If2(r.weakSignature, "bad", "ok"),
         cert_sct |-> If2(r.scts > 0, "ok", "warn"), cert_muststaple |-> If2(r.mustStaple, "ok", "warn")]
  BY DEF CertificateFields, If2, Earned
<1> HIDE DEF key, to
<1>5. NoneRed(CertificateFields(r))
  BY <1>2, <1>3, <1>4 DEF NoneRed, If2, Earned
<1>6. NoneRed(ChainFields(r))
  <2> DEFINE revocation == CASE "revoked" \in r.cert.issues -> "bad"
                             [] r.cert.leaf /\ r.stapling /\ "revoked" \notin r.cert.issues -> "ok"
                             [] OTHER -> "muted"
             ours == r.cert.trusted /\ r.cert.store = "mozilla"
  <2>1. revocation # "bad"
    BY DEF Earned
  <2>2. ChainFields(r) =
          [chain_trusted  |-> If2(r.cert.trusted, If2(ours, "ok", "warn"), "bad"),
           chain_complete |-> If2(r.cert.store # "none", "ok", "bad"),
           chain_store    |-> If2(ours, "ok", If2(r.cert.store # "none", "warn", "plain")),
           chain_host     |-> If2(r.cert.leaf /\ "hostname-mismatch" \notin r.cert.issues, "ok", "bad"),
           chain_ocsp     |-> If2(r.stapling, "ok", "warn"),
           chain_revocation |-> revocation,
           chain_issues   |-> If2(r.cert.issues # {}, "bad", "ok")]
    BY DEF ChainFields
  <2> HIDE DEF revocation, ours
  <2> QED
    BY <2>1, <2>2 DEF NoneRed, If2, Earned
<1> QED
  BY <1>5, <1>6

LEMMA SpokenNotRed ==
  ASSUME NEW r, Sturdy(r) PROVE NoneRed(ProtocolFields(r)) /\ NoneRed(KexFields(r))
<1>1. NoneRed(ProtocolFields(r))
  <2> DEFINE ssl2  == If2(r.ssl2, "bad", "ok")
             ssl3  == If2("SSL 3.0" \in r.protocols, "bad", "ok")
             tls10 == If2("TLS 1.0" \in r.protocols, "warn", "ok")
             tls11 == If2("TLS 1.1" \in r.protocols, "warn", "ok")
             tls12 == If2("TLS 1.2" \in r.protocols, "ok", "muted")
             tls13 == If2("TLS 1.3" \in r.protocols, "ok", "muted")
  <2>1. ProtocolFields(r) = [row_ssl2 |-> ssl2, row_ssl3 |-> ssl3, row_tls10 |-> tls10,
                             row_tls11 |-> tls11, row_tls12 |-> tls12, row_tls13 |-> tls13]
    BY DEF ProtocolFields
  <2>2. ~r.ssl2 /\ "SSL 3.0" \notin r.protocols
    BY DEF Sturdy
  <2>3. ssl2 # "bad" /\ ssl3 # "bad"
    BY <2>2 DEF If2
  <2>4. tls10 # "bad" /\ tls11 # "bad" /\ tls12 # "bad" /\ tls13 # "bad"
    BY DEF If2
  <2> HIDE DEF ssl2, ssl3, tls10, tls11, tls12, tls13
  <2> QED
    BY <2>1, <2>3, <2>4 DEF NoneRed
<1> DEFINE withPfs == {n \in r.suites : Describe(n).suite.pfs}
           prime   == CASE r.dh = Undefined -> "muted" [] r.dh >= 2048 -> "ok" [] OTHER -> "bad"
           pfs     == CASE r.suites = {} -> "plain" [] r.suites # {} /\ withPfs = r.suites -> "ok"
                        [] withPfs \notin {{}, r.suites} -> "warn" [] OTHER -> "bad"
<1>2. prime # "bad"
  <2>1. ASSUME NEW d \in Primes PROVE d = Undefined \/ d >= 2048
    BY <2>1 DEF Primes, Undefined
  <2>2. r.dh \in Primes
    BY DEF Sturdy
  <2> DEFINE none == r.dh = Undefined
             fair == r.dh >= 2048
  <2>3. none \/ fair
    BY <2>1, <2>2
  <2>4. prime = CASE none -> "muted" [] fair -> "ok" [] OTHER -> "bad"
    OBVIOUS
  <2> HIDE DEF none, fair, prime
  <2> QED
    BY <2>3, <2>4
<1>3. pfs # "bad"
  <2>0. (\E n \in r.suites : Describe(n).suite.pfs) /\ r.suites # {}
    BY DEF Sturdy
  <2>1. withPfs # {} /\ r.suites # {}
    BY <2>0
  <2> HIDE DEF withPfs
  <2> QED
    BY <2>1
<1>4. KexFields(r) = [kex_groups |-> If2(r.groups # {}, "ok", "plain"), kex_dh |-> prime, kex_pfs |-> pfs]
  BY DEF KexFields
<1> HIDE DEF prime, pfs
<1>5. NoneRed(KexFields(r))
  BY <1>2, <1>3, <1>4 DEF NoneRed, If2
<1> QED
  BY <1>1, <1>5

LEMMA RestNotRed == ASSUME NEW r PROVE NoneRed(FeatureFields(r)) /\ NoneRed(HttpFields(r))
  BY DEF NoneRed, FeatureFields, HttpFields, Flag, If2

LEMMA NothingRed ==
  ASSUME NEW s \in Sites, Assemble(s).cert.issues = {}, Sturdy(Assemble(s))
  PROVE  LET r == Assemble(s)
         IN Red(r) = {} \/ (Red(r) = {"grade_caps"} /\ Tags(r) # {})
<1> DEFINE r == Assemble(s)
<1>1. Earned(r)
  BY NoIssues
<1>2. /\ NoneRed(HeroFields(r))
      /\ \A f \in DOMAIN GradeFields(r) : GradeFields(r)[f] = "bad" => f = "grade_caps" /\ Tags(r) # {}
  BY <1>1, ScoresNotRed
<1>3. Sturdy(r)
  OBVIOUS
<1> HIDE DEF r
<1> DEFINE In(fields) == {f \in DOMAIN fields : fields[f] = "bad"}
<1>4. ASSUME NEW fields, NoneRed(fields) PROVE In(fields) = {}
  BY <1>4 DEF NoneRed
<1>5. In(GradeFields(r)) = {} \/ (In(GradeFields(r)) = {"grade_caps"} /\ Tags(r) # {})
  BY <1>2
<1>6. Red(r) = In(HeroFields(r)) \cup In(GradeFields(r)) \cup In(CertificateFields(r)) \cup In(ChainFields(r))
        \cup In(ProtocolFields(r)) \cup In(KexFields(r)) \cup In(FeatureFields(r)) \cup In(HttpFields(r))
  BY DEF Red
<1>7. /\ In(HeroFields(r)) = {} /\ In(CertificateFields(r)) = {} /\ In(ChainFields(r)) = {}
      /\ In(ProtocolFields(r)) = {} /\ In(KexFields(r)) = {}
      /\ In(FeatureFields(r)) = {} /\ In(HttpFields(r)) = {}
  BY <1>1, <1>2, <1>3, <1>4, CertificatesNotRed, SpokenNotRed, RestNotRed, Zenon
<1> HIDE DEF In
<1>8. Red(r) = {} \/ (Red(r) = {"grade_caps"} /\ Tags(r) # {})
  BY <1>5, <1>6, <1>7
<1> QED
  BY <1>8 DEF r

\* Whether the findings leave a report without such a weakness.
Spared(r) ==
  /\ ~r.ssl2 /\ "SSL 3.0" \notin r.protocols /\ r.dh \in Primes
  /\ Findings(r)["null_anon"].status # "vulnerable" /\ Findings(r)["freak"].status # "vulnerable"
  /\ Findings(r)["logjam"].status # "vulnerable" /\ Findings(r)["sweet32"].status # "vulnerable"
  /\ Findings(r)["no_forward_secrecy"].status # "vulnerable"

LEMMA SparedIsSturdy ==
  ASSUME NEW s \in Sites, NEW last, Answers(s, last), ~s.incomplete, Spared(Assemble(s))
  PROVE  Sturdy(Assemble(s))
<1> DEFINE r == Assemble(s)
<1>1. r.suites # {} /\ r.protocols # {}
  <2>1. PICK n \in s.suites, v \in s.protocols : OfferedAt(v, n)
    BY DEF Answers
  <2>2. r.protocols = s.protocols /\ r.suites = {m \in s.suites : \E w \in r.protocols : OfferedAt(w, m)}
    BY Reported
  <2> HIDE DEF r
  <2>3. n \in r.suites /\ v \in r.protocols
    BY <2>1, <2>2
  <2> QED
    BY <2>3
<1>3. \A n \in r.suites : Proper(n)
  BY SuitesSeen
<1>4. Spared(r)
  OBVIOUS
<1> HIDE DEF r
<1>2. /\ ~r.ssl2 /\ "SSL 3.0" \notin r.protocols /\ r.dh \in Primes
      /\ ~\E d \in Described(r) : d.export /\ d.kx = "RSA"
      /\ ~\E d \in Described(r) : d.export /\ d.kx \in {"DHE", "DH"}
  BY <1>4, SuiteFindings, ZenonT(60) DEF Spared
<1>5. /\ ~\E d \in Described(r) : d.encryption \in {"3DES", "IDEA", "DES"}
      /\ ~\E d \in Described(r) : d.encryption = "NULL" \/ d.anonymous
      /\ Findings(r)["no_forward_secrecy"].status # "vulnerable"
  <2>1. /\ Findings(r)["null_anon"].status # "vulnerable"
        /\ Findings(r)["sweet32"].status # "vulnerable"
        /\ Findings(r)["no_forward_secrecy"].status # "vulnerable"
    BY <1>4 DEF Spared
  <2>2. ~\E d \in Described(r) : d.encryption \in {"3DES", "IDEA", "DES"}
    BY <2>1, SuiteFindings
  <2>3. ~\E d \in Described(r) : d.encryption = "NULL" \/ d.anonymous
    BY <2>1, SuiteFindings
  <2> QED
    BY <2>1, <2>2, <2>3
<1>6. ASSUME NEW n \in r.suites
      PROVE  /\ ~n.export /\ ~Describe(n).suite.anonymous
             /\ n.right.cipher \notin {"NULL", "DES", "3DES"}
  <2> DEFINE d == Describe(n).suite
  <2>1. d \in Described(r)
    BY DEF Described
  <2>2. /\ ~(d.export /\ d.kx = "RSA") /\ ~(d.export /\ d.kx \in {"DHE", "DH"})
        /\ d.encryption \notin {"3DES", "IDEA", "DES"} /\ d.encryption # "NULL" /\ ~d.anonymous
    BY <1>2, <1>5, <2>1
  <2>3. d.kx = Exchange(n)[1] /\ d.export = n.export
    BY DescribeSays
  <2>4. d.encryption = IF n.right.cipher = "DES40" THEN "DES" ELSE n.right.cipher
    BY DescribeSays
  <2>5. n.left \in Lefts /\ n.export \in BOOLEAN /\ (n.export => n.left \in Prime)
    BY <1>3 DEF Proper
  <2>6. n.export => Exchange(n)[1] \in {"RSA", "DHE", "DH"}
    BY <2>5, Exchanges
  <2> HIDE DEF d
  <2>7. ~n.export
    BY <2>2, <2>3, <2>6
  <2>8. n.right.cipher \notin {"NULL", "DES", "3DES"}
    BY <2>2, <2>4
  <2> QED
    BY <2>2, <2>7, <2>8 DEF d
<1>7. \E n \in r.suites : Describe(n).suite.pfs
  BY <1>1, <1>5, SuiteFindings
<1>8. Sturdy(r)
  BY <1>1, <1>2, <1>5, <1>6, <1>7, Zenon DEF Sturdy
<1> QED
  BY <1>8 DEF r

LEMMA DhInPrimes ==
  \A d \in {Undefined, 512, 1024, 2048, 4096} :
    ~(d > 0 /\ d < 2048) \/ ~(d # Undefined /\ d < 2048) => d \in Primes
  BY DEF Undefined, Primes

\* Under a good letter there is no cap.
LEMMA GoodIsUncapped ==
  ASSUME NEW r, Grade(r) \in {"A_plus", "A", "A_minus"} PROVE Caps(r) = {}
<1>1. Rank["A_plus"] = 0 /\ Rank["A"] = 1 /\ Rank["A_minus"] = 2
  BY DEF Rank
<1>2. ASSUME NEW l \in Caps(r) PROVE FALSE
  <2>1. l \in {"F", "C", "B", "T"}
    BY <1>2 DEF Caps
  <2>2. Grade(r) # "?"
    OBVIOUS
  <2>3. Rank[l] <= Rank[Grade(r)]
    BY <1>2, <2>2, CapsBind
  <2> QED
    BY <1>1, <2>1, <2>3, Ranks
<1> QED
  BY <1>2

\* A good letter spares the report, and so do findings that are all at peace.
LEMMA GoodIsSpared ==
  ASSUME NEW s \in Sites, Grade(Assemble(s)) \in {"A_plus", "A", "A_minus"}
  PROVE  Spared(Assemble(s))
<1> DEFINE r == Assemble(s)
           d == r.dh
<1>1. d \in {Undefined, 512, 1024, 2048, 4096}
  BY Reported
<1>2. Grade(r) \in {"A_plus", "A", "A_minus"}
  OBVIOUS
<1> HIDE DEF r
<1>3. Caps(r) = {}
  BY <1>2, GoodIsUncapped
<1>5. ~Capped(r)["F"] /\ ~Capped(r)["C"] /\ ~Capped(r)["B"]
  BY <1>3 DEF Caps
<1>6. /\ ~r.ssl2 /\ Findings(r)["null_anon"].status # "vulnerable"
      /\ Findings(r)["freak"].status # "vulnerable" /\ Findings(r)["logjam"].status # "vulnerable"
  BY <1>5 DEF Capped
<1>7. Findings(r)["sweet32"].status # "vulnerable" /\ "SSL 3.0" \notin r.protocols
  BY <1>5 DEF Capped
<1> DEFINE small == d > 0 /\ d < 2048
<1>8. Findings(r)["no_forward_secrecy"].status # "vulnerable" /\ ~small
  <2>1. Capped(r)["B"] <=> \/ Findings(r)["rc4"].status = "vulnerable"
                           \/ Findings(r)["no_forward_secrecy"].status = "vulnerable"
                           \/ small \/ r.protocols \cap {"TLS 1.0", "TLS 1.1"} # {}
    BY DEF Capped
  <2> HIDE DEF small
  <2> QED
    BY <1>5, <2>1
<1> HIDE DEF d
<1>9. d \in Primes
  BY <1>1, <1>8, DhInPrimes
<1>10. r.dh \in Primes
  BY <1>9 DEF d
<1> HIDE DEF small
<1>11. Spared(r)
  BY <1>6, <1>7, <1>8, <1>10 DEF Spared
<1> QED
  BY <1>11 DEF r

LEMMA QuietIsSpared ==
  ASSUME NEW s \in Sites,
         \A id \in DOMAIN Findings(Assemble(s)) :
           StatusSeverity(Findings(Assemble(s))[id].status) \notin {"bad", "warn"}
  PROVE  Spared(Assemble(s))
<1> DEFINE r == Assemble(s)
           d == r.dh
           f == Findings(r)
<1>1. d \in {Undefined, 512, 1024, 2048, 4096}
  BY Reported
<1>2. \A id \in DOMAIN f : StatusSeverity(f[id].status) \notin {"bad", "warn"}
  OBVIOUS
<1> HIDE DEF r
<1>3. {"drown", "poodle", "freak", "logjam", "sweet32", "null_anon", "no_forward_secrecy", "weak_dh"} \subseteq DOMAIN f
  BY FindingIds DEF FindingNames
<1>4. StatusSeverity("vulnerable") = "bad" /\ StatusSeverity("partial") = "warn"
  BY DEF StatusSeverity
<1> HIDE DEF f
<1>5. /\ f["drown"].status # "vulnerable" /\ f["poodle"].status \notin {"vulnerable", "partial"}
      /\ f["freak"].status # "vulnerable" /\ f["logjam"].status # "vulnerable"
      /\ f["sweet32"].status # "vulnerable" /\ f["null_anon"].status # "vulnerable"
      /\ f["no_forward_secrecy"].status # "vulnerable" /\ f["weak_dh"].status # "vulnerable"
  BY <1>2, <1>3, <1>4
<1>6. ~r.ssl2 /\ "SSL 3.0" \notin r.protocols
  BY <1>5, DrownFinding, OtherFindings DEF f
<1>7. ~(d # Undefined /\ d < 2048)
  BY <1>5, WeakDhFinding DEF f
<1> HIDE DEF d
<1>8. d \in Primes
  BY <1>1, <1>7, DhInPrimes
<1>9. Spared(r)
  BY <1>5, <1>6, <1>8 DEF Spared, f, d
<1> QED
  BY <1>9 DEF r

\* Where the findings are at peace, the caps are those without a finding.
LEMMA QuietCaps ==
  ASSUME NEW s \in Sites, NEW last, Answers(s, last), ~s.incomplete, Caps(Assemble(s)) # {},
         \A id \in DOMAIN Findings(Assemble(s)) :
           StatusSeverity(Findings(Assemble(s))[id].status) \notin {"bad", "warn"}
  PROVE  Capped(Assemble(s)).T \/ Assemble(s).protocols \cap {"TLS 1.0", "TLS 1.1"} # {}
<1> DEFINE r == Assemble(s)
           f == Findings(r)
           d == r.dh
           old == r.protocols \cap {"TLS 1.0", "TLS 1.1"} # {}
           small == d > 0 /\ d < 2048
<1>1. Sturdy(r)
  BY QuietIsSpared, SparedIsSturdy
<1>2. r.protocols \subseteq {"SSL 3.0", "TLS 1.0", "TLS 1.1", "TLS 1.2", "TLS 1.3"}
  <2>1. r.protocols \subseteq ToSet(Versions)
    BY Reported DEF Sites
  <2> QED
    BY <2>1, VersionSet
<1>3. \A id \in DOMAIN f : StatusSeverity(f[id].status) \notin {"bad", "warn"}
  OBVIOUS
<1>4. Caps(r) # {}
  OBVIOUS
<1> HIDE DEF r
<1>5. {"insecure_renegotiation", "null_anon", "freak", "logjam", "rc4", "crime", "sweet32",
       "no_forward_secrecy", "weak_dh"} \subseteq DOMAIN f
  BY FindingIds DEF FindingNames
<1>6. StatusSeverity("vulnerable") = "bad"
  BY DEF StatusSeverity
<1> HIDE DEF f
<1>7. \A id \in {"insecure_renegotiation", "null_anon", "freak", "logjam", "rc4", "crime", "sweet32",
               "no_forward_secrecy", "weak_dh"} : f[id].status # "vulnerable"
  BY <1>3, <1>5, <1>6
<1>8. ~Capped(r)["F"]
  <2>1. ~(r.suites # {} /\ \A e \in Described(r) : e.encryption = "RC4")
    <3>1. ~\E e \in Described(r) : e.encryption = "RC4"
      BY <1>7, SuiteFindings DEF f
    <3>2. r.suites # {} => \E e \in Described(r) : TRUE
      BY DEF Described
    <3> QED
      BY <3>1, <3>2
  <2>2. Capped(r)["F"] <=> \/ r.ssl2 \/ f["insecure_renegotiation"].status = "vulnerable"
                           \/ f["null_anon"].status = "vulnerable" \/ f["freak"].status = "vulnerable"
                           \/ f["logjam"].status = "vulnerable"
                           \/ (r.suites # {} /\ \A e \in Described(r) : e.encryption = "RC4")
    BY DEF Capped, f
  <2> QED
    BY <1>1, <1>7, <2>1, <2>2 DEF Sturdy
<1>9. Capped(r)["C"] => old
  <2>1. Capped(r)["C"] <=> \/ f["crime"].status = "vulnerable" \/ f["sweet32"].status = "vulnerable"
                           \/ "SSL 3.0" \in r.protocols
                           \/ r.protocols \cap {"TLS 1.2", "TLS 1.3"} = {}
    BY DEF Capped, f
  <2>2. r.protocols # {} /\ "SSL 3.0" \notin r.protocols
    BY <1>1 DEF Sturdy
  <2>4. r.protocols \cap {"TLS 1.2", "TLS 1.3"} # {} \/ old
    <3> DEFINE P == r.protocols
    <3>1. P # {} /\ "SSL 3.0" \notin P /\ P \subseteq {"SSL 3.0", "TLS 1.0", "TLS 1.1", "TLS 1.2", "TLS 1.3"}
      BY <1>2, <2>2
    <3> HIDE DEF P
    <3>2. P \cap {"TLS 1.2", "TLS 1.3"} # {} \/ P \cap {"TLS 1.0", "TLS 1.1"} # {}
      BY <3>1
    <3> QED
      BY <3>2 DEF P
  <2> HIDE DEF old
  <2> QED
    BY <1>7, <2>1, <2>2, <2>4
<1>10. Capped(r)["B"] => old
  <2>1. Capped(r)["B"] <=> \/ f["rc4"].status = "vulnerable"
                           \/ f["no_forward_secrecy"].status = "vulnerable"
                           \/ small \/ old
    BY DEF Capped, f
  <2>2. ~small
    <3>1. ~(d # Undefined /\ d < 2048)
      BY <1>7, WeakDhFinding DEF f
    <3> HIDE DEF d
    <3>2. d # Undefined => ~small
      BY <3>1
    <3>3. d = Undefined => ~small
      BY DEF Undefined
    <3> QED
      BY <3>2, <3>3
  <2> HIDE DEF small, old
  <2> QED
    BY <1>7, <2>1, <2>2
<1>11. Capped(r)["T"] \/ old
  <2> HIDE DEF old
  <2> QED
    BY <1>4, <1>8, <1>9, <1>10 DEF Caps
<1> QED
  BY <1>11 DEF r

\* No suite of a report without a weakness is called insecure.
LEMMA SuitesNotInsecure ==
  ASSUME NEW s \in Sites, Sturdy(Assemble(s)), NEW n \in Assemble(s).suites
  PROVE  Describe(n).strength # "insecure"
<1> DEFINE d == Describe(n).suite
<1>1. /\ ~n.export /\ ~d.anonymous /\ n.right.cipher \notin {"NULL", "DES", "3DES"}
  BY DEF Sturdy
<1>2. Proper(n)
  BY SuitesSeen
<1>3. ProperRight(n.right)
  BY <1>1, <1>2 DEF Proper
<1>4. d.bits = Bits(n.right) /\ ~d.export /\ Describe(n).strength = Strength(d)
  BY <1>1, DescribeSays
<1>5. d.encryption # "NULL"
  BY <1>1, DescribeSays
<1>6. ~(d.bits < 112)
  BY <1>1, <1>3, <1>4 DEF ProperRight
<1> HIDE DEF d
<1> QED
  BY <1>1, <1>4, <1>5, <1>6 DEF Strength, d

LEMMA SitesAgree ==
  ASSUME NEW s \in Sites, NEW last, Answers(s, last)
  PROVE  Agrees(Assemble(s), Findings(Assemble(s)), Red(Assemble(s)))
<1> DEFINE r == Assemble(s)
           f == Findings(r)
<1>1. r.incomplete = s.incomplete /\ s.incomplete \in BOOLEAN
  BY Reported DEF Sites
<1>2. ASSUME AllGood(r)
      PROVE  /\ Red(r) = {} /\ \A n \in r.suites : Describe(n).strength # "insecure"
             /\ \A id \in DOMAIN f : f[id].status = "vulnerable" => f[id].severity \notin {"critical", "high"}
  <2>1. /\ r.cert.issues = {} /\ ~s.incomplete /\ Grade(r) \in {"A_plus", "A", "A_minus"}
        /\ Critical(r) = {}
    BY <1>1, <1>2 DEF AllGood
  <2>2. Sturdy(r)
    BY <2>1, GoodIsSpared, SparedIsSturdy
  <2>3. Red(r) = {}
    <3>1. Tags(r) = {}
      BY <1>1, <2>1, GoodIsUncapped DEF Tags
    <3> QED
      BY <2>1, <2>2, <3>1, NothingRed
  <2>4. \A n \in r.suites : Describe(n).strength # "insecure"
    BY <2>2, SuitesNotInsecure
  <2> HIDE DEF r
  <2>5. ASSUME NEW id \in DOMAIN f, f[id].status = "vulnerable", id \notin OfCertificates
        PROVE  f[id].severity \notin {"critical", "high"}
    BY <2>1, <2>5 DEF Critical
  <2>6. /\ f["certificate_trust"].status # "vulnerable" /\ f["certificate_expiry"].status # "vulnerable"
        /\ f["certificate_name"].status # "vulnerable" /\ f["certificate_chain"].status # "vulnerable"
    BY <2>1 DEF Findings, Finding, Vulnerable
  <2> HIDE DEF f
  <2> QED
    BY <2>3, <2>4, <2>5, <2>6 DEF OfCertificates
<1>3. ASSUME Red(r) # {}, r.cert.issues = {}, ~r.incomplete
      PROVE  \/ \E id \in DOMAIN f : StatusSeverity(f[id].status) \in {"bad", "warn"}
             \/ /\ Red(r) = {"grade_caps"}
                /\ \/ r.cert.leaf /\ r.mustStaple /\ ~r.stapling
                   \/ r.protocols \cap {"TLS 1.0", "TLS 1.1"} # {}
  <2>1. SUFFICES ASSUME \A id \in DOMAIN f : StatusSeverity(f[id].status) \notin {"bad", "warn"}
                 PROVE  /\ Red(r) = {"grade_caps"}
                        /\ \/ r.cert.leaf /\ r.mustStaple /\ ~r.stapling
                           \/ r.protocols \cap {"TLS 1.0", "TLS 1.1"} # {}
    OBVIOUS
  <2>2. Sturdy(r)
    BY <1>1, <1>3, <2>1, QuietIsSpared, SparedIsSturdy
  <2>3. Red(r) = {"grade_caps"} /\ Tags(r) # {}
    BY <1>3, <2>2, NothingRed
  <2>4. Caps(r) # {}
    BY <1>3, <2>3 DEF Tags
  <2>5. Capped(r).T <=> r.cert.leaf /\ r.mustStaple /\ ~r.stapling
    BY DEF Capped
  <2> QED
    BY <1>1, <1>3, <2>1, <2>3, <2>4, <2>5, QuietCaps
<1> HIDE DEF r, f
<1>4. Agrees(r, f, Red(r))
  BY <1>2, <1>3 DEF Agrees
<1> QED
  BY <1>4 DEF r, f

(***************************************************************************)
(* However a site gets worse: above the alert that all is well no value    *)
(* and no tag is red, no suite insecure and no weakness serious; and       *)
(* nothing is red that no finding, no issue and no alert explains, but the *)
(* tags of the two caps without a finding (app.js:312-427).                *)
(***************************************************************************)
THEOREM ScreenAlwaysAgrees == Spec => []ScreenAgrees
<1>1. SiteInv => ScreenAgrees
  BY SitesAgree DEF SiteInv, ScreenAgrees
<1> QED
  BY <1>1, SitesReached, PTL

-----------------------------------------------------------------------------
(***************************************************************************)
(* Getting worse: how the sites before and after a step compare.           *)
(***************************************************************************)
Basic   == {Suite("ECDHE_RSA", FALSE, CBC), Suite("RSA", FALSE, RC4), Suite("DHE_DSS", FALSE, CBC)}
Current == Suite("ECDHE_RSA", FALSE, GCM)
Latest  == Suite("TLS13", FALSE, GCM)

\* A site that began well configured, and one that began old. Either keeps the
\* version and the suite that it began with.
BeganModern(s) ==
  /\ "TLS 1.2" \in s.protocols /\ s.protocols \subseteq ToSet(Versions)
  /\ {Latest, Current} \subseteq s.suites /\ s.suites \subseteq {Latest, Current} \cup BadSuites

BeganOld(s) ==
  /\ "TLS 1.0" \in s.protocols /\ s.protocols \subseteq {"SSL 3.0", "TLS 1.0"}
  /\ \E n \in Basic : n \in s.suites /\ s.suites \subseteq {n} \cup BadSuites

Began(s) == BeganModern(s) \/ BeganOld(s)

\* A chain with the same names, keys and signers, whose leaf is no better.
SameChain(c, d) ==
  /\ DOMAIN d = DOMAIN c
  /\ \A i \in DOMAIN c :
       /\ d[i].subject = c[i].subject /\ d[i].issuer = c[i].issuer
       /\ d[i].key = c[i].key /\ d[i].signer = c[i].signer
       /\ d[i].unparsable = c[i].unparsable
  /\ c # <<>> => /\ d[1].strength <= c[1].strength
                 /\ c[1].date \in {"past", "future"} => d[1].date \in {"past", "future"}
                 /\ c[1].scts = 0 => d[1].scts = 0
                 /\ c[1].days > 398 => d[1].days > 398

ChainSinks(s, t) ==
  \/ SameChain(s.chain, t.chain)
  \/ s.chain = <<leaf, mid>> /\ t.chain \in Chains

SpokenSinks(s, t) ==
  /\ s.ssl2 => t.ssl2
  /\ s.suites \subseteq t.suites /\ t.suites \subseteq s.suites \cup BadSuites
  /\ s.protocols \ {"TLS 1.3"} \subseteq t.protocols
  /\ t.protocols \subseteq s.protocols \cup Older(s.protocols)

GroupsSink(s, t) ==
  /\ s.groups \subseteq t.groups
  /\ s.dh # Undefined => t.dh # Undefined /\ t.dh <= s.dh

FacetsSink(s, t) ==
  /\ ~s.named => ~t.named
  /\ s.mustStaple => t.mustStaple
  /\ s.stapled # "good" => t.stapled = s.stapled
  /\ s.compression = "true" => t.compression = "true"
  /\ s.compression = "null" => t.compression \in {"true", "null"}
  /\ s.heartbeat = "true" => t.heartbeat = "true"
  /\ s.secureRenegotiation = "false" => t.secureRenegotiation = "false"
  /\ s.clientRenegotiation = "true" => t.clientRenegotiation = "true"
  /\ t.hsts = "long" => s.hsts = "long"
  /\ s.incomplete => t.incomplete

Sinks(s, t) ==
  /\ t \in Sites
  /\ SpokenSinks(s, t) /\ GroupsSink(s, t) /\ FacetsSink(s, t) /\ ChainSinks(s, t)

\* A list of certificates has strengths, and one that stays is no better.
LEMMA FirstStrength ==
  ASSUME NEW c \in CertLists, c # <<>>
  PROVE  c[1] \in Certs /\ c[1].strength \in KeySizes /\ c[1].strength \in Int /\ 1 \in DOMAIN c
<1>1. c[1] \in Certs /\ 1 \in DOMAIN c
  BY DEF CertLists
<1>2. c[1].strength \in KeySizes
  BY <1>1 DEF Certs
<1> QED
  BY <1>1, <1>2 DEF KeySizes

LEMMA SameChainReflexive == ASSUME NEW c \in CertLists PROVE SameChain(c, c)
<1>1. c # <<>> => c[1].strength <= c[1].strength
  BY FirstStrength
<1> QED
  BY <1>1 DEF SameChain

\* A field that stays is no better.
LEMMA SinkReflexive ==
  ASSUME NEW s \in Sites
  PROVE  SpokenSinks(s, s) /\ GroupsSink(s, s) /\ FacetsSink(s, s) /\ ChainSinks(s, s)
<1>1. SpokenSinks(s, s) /\ FacetsSink(s, s)
  BY DEF SpokenSinks, FacetsSink
<1>2. GroupsSink(s, s)
  <2>1. s.dh \in Groups
    BY DEF Sites
  <2>2. \A d \in Groups : d <= d
    BY DEF Groups, Undefined
  <2> QED
    BY <2>1, <2>2 DEF GroupsSink
<1>3. ChainSinks(s, s)
  <2>1. s.chain \in CertLists
    BY DEF Sites
  <2> QED
    BY <2>1, SameChainReflexive DEF ChainSinks
<1> QED
  BY <1>1, <1>2, <1>3

\* A step of each kind, by the fields that it leaves alone.
SameSpoken(s, t) == t.ssl2 = s.ssl2 /\ t.suites = s.suites /\ t.protocols = s.protocols
SameGroups(s, t) == t.groups = s.groups /\ t.dh = s.dh
SameFacets(s, t) ==
  /\ t.named = s.named /\ t.mustStaple = s.mustStaple /\ t.stapled = s.stapled
  /\ t.compression = s.compression /\ t.heartbeat = s.heartbeat
  /\ t.secureRenegotiation = s.secureRenegotiation
  /\ t.clientRenegotiation = s.clientRenegotiation
  /\ t.hsts = s.hsts /\ t.incomplete = s.incomplete

LEMMA SameSinks ==
  ASSUME NEW s \in Sites, NEW t
  PROVE  /\ SameSpoken(s, t) => SpokenSinks(s, t)
         /\ SameGroups(s, t) => GroupsSink(s, t)
         /\ SameFacets(s, t) => FacetsSink(s, t)
         /\ t.chain = s.chain => ChainSinks(s, t)
<1>1. SameSpoken(s, t) => SpokenSinks(s, t)
  BY SinkReflexive DEF SameSpoken, SpokenSinks
<1>2. SameGroups(s, t) => GroupsSink(s, t)
  BY SinkReflexive DEF SameGroups, GroupsSink
<1>3. SameFacets(s, t) => FacetsSink(s, t)
  BY SinkReflexive DEF SameFacets, FacetsSink
<1>4. t.chain = s.chain => ChainSinks(s, t)
  BY SinkReflexive DEF ChainSinks
<1> QED
  BY <1>1, <1>2, <1>3, <1>4


LEMMA AllFields ==
  ASSUME NEW s \in Sites
  PROVE  {"protocols", "ssl2", "suites", "groups", "dh", "chain", "named", "stapled", "mustStaple",
          "compression", "heartbeat", "secureRenegotiation", "clientRenegotiation", "hsts",
          "plain", "reachable", "incomplete"} \subseteq DOMAIN s
  BY DEF Sites

Same(s, t) == SameGroups(s, t) /\ SameFacets(s, t) /\ t.chain = s.chain

LEMMA SpokenWorse ==
  ASSUME NEW s \in Sites, NEW t \in WorseSpoken(s)
  PROVE  Same(s, t) /\ SpokenSinks(s, t)
<1>1. CASE \E n \in BadSuites \ s.suites : t = [s EXCEPT !.suites = @ \cup {n}]
  <2>1. PICK n \in BadSuites : t = [s EXCEPT !.suites = @ \cup {n}]
    BY <1>1
  <2>2. /\ t.suites = s.suites \cup {n} /\ t.protocols = s.protocols /\ t.ssl2 = s.ssl2
        /\ SameGroups(s, t) /\ SameFacets(s, t) /\ t.chain = s.chain
    BY <2>1, AllFields DEF SameGroups, SameFacets
  <2> QED
    BY <2>2 DEF Same, SpokenSinks
<1>2. CASE \E v \in Older(s.protocols) : t = [s EXCEPT !.protocols = @ \cup {v}]
  <2>1. PICK v \in Older(s.protocols) : t = [s EXCEPT !.protocols = @ \cup {v}]
    BY <1>2
  <2>2. /\ t.suites = s.suites /\ t.protocols = s.protocols \cup {v} /\ t.ssl2 = s.ssl2
        /\ SameGroups(s, t) /\ SameFacets(s, t) /\ t.chain = s.chain
    BY <2>1, AllFields DEF SameGroups, SameFacets
  <2> QED
    BY <2>2 DEF Same, SpokenSinks
<1>3. CASE t = [s EXCEPT !.protocols = @ \ {"TLS 1.3"}]
  <2>1. /\ t.suites = s.suites /\ t.protocols = s.protocols \ {"TLS 1.3"} /\ t.ssl2 = s.ssl2
        /\ SameGroups(s, t) /\ SameFacets(s, t) /\ t.chain = s.chain
    BY <1>3, AllFields DEF SameGroups, SameFacets
  <2> QED
    BY <2>1 DEF Same, SpokenSinks
<1>4. CASE t = [s EXCEPT !.ssl2 = TRUE]
  <2>1. /\ t.suites = s.suites /\ t.protocols = s.protocols /\ t.ssl2 = TRUE
        /\ SameGroups(s, t) /\ SameFacets(s, t) /\ t.chain = s.chain
    BY <1>4, AllFields DEF SameGroups, SameFacets
  <2> QED
    BY <2>1 DEF Same, SpokenSinks
<1> QED
  BY <1>1, <1>2, <1>3, <1>4, Zenon DEF WorseSpoken

LEMMA GroupsWorse ==
  ASSUME NEW s \in Sites, NEW t \in WorseGroups(s)
  PROVE  SameSpoken(s, t) /\ SameFacets(s, t) /\ t.chain = s.chain /\ GroupsSink(s, t)
<1>1. CASE \E n \in WeakerPrimes(s) : t = [s EXCEPT !.dh = n]
  <2>1. PICK n \in WeakerPrimes(s) : t = [s EXCEPT !.dh = n]
    BY <1>1
  <2>2. n \in {512, 1024, 2048, 4096} /\ (s.dh = Undefined \/ n < s.dh)
    BY <2>1 DEF WeakerPrimes
  <2>3. s.dh \in Groups
    BY DEF Sites
  <2>4. \A d \in Groups, m \in {512, 1024, 2048, 4096} : m # Undefined /\ (m < d => m <= d)
    BY DEF Groups, Undefined
  <2>5. /\ t.dh = n /\ t.groups = s.groups
        /\ SameSpoken(s, t) /\ SameFacets(s, t) /\ t.chain = s.chain
    BY <2>1, AllFields DEF SameSpoken, SameFacets
  <2>6. s.dh # Undefined => n # Undefined /\ n <= s.dh
    BY <2>2, <2>3, <2>4
  <2> QED
    BY <2>5, <2>6 DEF GroupsSink
<1>2. CASE \E n \in {80, 112} : t = [s EXCEPT !.groups = @ \cup {n}]
  <2>1. PICK n : t = [s EXCEPT !.groups = @ \cup {n}]
    BY <1>2
  <2>2. /\ t.dh = s.dh /\ t.groups = s.groups \cup {n}
        /\ SameSpoken(s, t) /\ SameFacets(s, t) /\ t.chain = s.chain
    BY <2>1, AllFields DEF SameSpoken, SameFacets
  <2> QED
    BY <2>2, SinkReflexive DEF GroupsSink
<1> QED
  BY <1>1, <1>2, Zenon DEF WorseGroups

LEMMA ChainWorse ==
  ASSUME NEW s \in Sites, NEW t \in WorseChain(s)
  PROVE  SameSpoken(s, t) /\ SameGroups(s, t) /\ SameFacets(s, t) /\ ChainSinks(s, t)
<1>1. s.chain = <<leaf, mid>>
  BY DEF WorseChain
<1>2. PICK c \in Chains : t = [s EXCEPT !.chain = c]
  BY <1>1 DEF WorseChain
<1>3. t.chain = c /\ SameSpoken(s, t) /\ SameGroups(s, t) /\ SameFacets(s, t)
  BY <1>2, AllFields DEF SameSpoken, SameGroups, SameFacets
<1> QED
  BY <1>1, <1>2, <1>3 DEF ChainSinks

\* A leaf with another value of a field, none of its names, keys and signers.
LEMMA LeafSinks ==
  ASSUME NEW s \in Sites, s.chain # <<>>, NEW c \in Certs,
         c.subject = s.chain[1].subject, c.issuer = s.chain[1].issuer,
         c.key = s.chain[1].key, c.signer = s.chain[1].signer,
         c.unparsable = s.chain[1].unparsable,
         c.strength <= s.chain[1].strength,
         s.chain[1].date \in {"past", "future"} => c.date \in {"past", "future"},
         s.chain[1].scts = 0 => c.scts = 0, s.chain[1].days > 398 => c.days > 398,
         NEW t, t = [s EXCEPT !.chain = [@ EXCEPT ![1] = c]]
  PROVE  SameSpoken(s, t) /\ SameGroups(s, t) /\ SameFacets(s, t) /\ ChainSinks(s, t)
<1>1. s.chain \in CertLists
  BY DEF Sites
<1>2. 1 \in DOMAIN s.chain
  BY <1>1, FirstStrength
<1>3. t.chain = [s.chain EXCEPT ![1] = c]
  BY AllFields
<1>4. /\ DOMAIN t.chain = DOMAIN s.chain /\ t.chain[1] = c
      /\ \A i \in DOMAIN s.chain : i # 1 => t.chain[i] = s.chain[i]
  BY <1>2, <1>3
<1>5. SameSpoken(s, t) /\ SameGroups(s, t) /\ SameFacets(s, t)
  BY AllFields DEF SameSpoken, SameGroups, SameFacets
<1> DEFINE a == s.chain
           b == t.chain
<1> HIDE DEF a, b
<1>6. SameChain(a, b)
  <2>1. /\ DOMAIN b = DOMAIN a /\ b[1] = c /\ \A i \in DOMAIN a : i # 1 => b[i] = a[i]
    BY <1>4 DEF a, b
  <2>2. /\ c.subject = a[1].subject /\ c.issuer = a[1].issuer /\ c.key = a[1].key
        /\ c.signer = a[1].signer /\ c.unparsable = a[1].unparsable
    BY DEF a
  <2>3. /\ c.strength <= a[1].strength
        /\ a[1].date \in {"past", "future"} => c.date \in {"past", "future"}
        /\ a[1].scts = 0 => c.scts = 0
        /\ a[1].days > 398 => c.days > 398
    BY DEF a
  <2> QED
    BY <2>1, <2>2, <2>3 DEF SameChain
<1> QED
  BY <1>5, <1>6 DEF ChainSinks, a, b


LeafOnly(s, t) == SameSpoken(s, t) /\ SameGroups(s, t) /\ SameFacets(s, t) /\ ChainSinks(s, t)

LEMMA LeafWorse == ASSUME NEW s \in Sites, NEW t \in WorseLeaf(s) PROVE LeafOnly(s, t)
<1> DEFINE first == s.chain[1]
<1>1. s.chain # <<>>
  BY DEF WorseLeaf
<1>2. s.chain \in CertLists
  BY DEF Sites
<1>3. first \in Certs /\ first.strength \in Int
  BY <1>1, <1>2, FirstStrength
<1>4. first.strength <= first.strength
  BY <1>3
<1>5. ASSUME NEW c \in Certs,
             c.subject = first.subject, c.issuer = first.issuer,
             c.key = first.key, c.signer = first.signer, c.unparsable = first.unparsable,
             c.strength <= first.strength,
             first.date \in {"past", "future"} => c.date \in {"past", "future"},
             first.scts = 0 => c.scts = 0, first.days > 398 => c.days > 398
      PROVE  LeafOnly(s, [s EXCEPT !.chain = [@ EXCEPT ![1] = c]])
  BY <1>1, <1>5, LeafSinks DEF LeafOnly
<1>6. {"subject", "issuer", "key", "signer", "unparsable", "strength", "date", "scts", "days",
       "weakSignature"} \subseteq DOMAIN first
  BY <1>3 DEF Certs
<1>7. CASE \E d \in {"soon", "past", "future"} : first.date = "fresh" /\ t = [s EXCEPT !.chain[1].date = d]
  <2>1. PICK d \in {"soon", "past", "future"} : first.date = "fresh" /\ t = [s EXCEPT !.chain[1].date = d]
    BY <1>7
  <2> DEFINE c == [first EXCEPT !.date = d]
  <2>2. c \in Certs
    BY <1>3, CertsChange, ZenonT(60)
  <2>3. /\ c.subject = first.subject /\ c.issuer = first.issuer /\ c.key = first.key
        /\ c.signer = first.signer /\ c.unparsable = first.unparsable
        /\ c.strength = first.strength /\ c.scts = first.scts /\ c.days = first.days
    BY <1>6
  <2>4. first.date \notin {"past", "future"}
    BY <2>1
  <2>5. t = [s EXCEPT !.chain = [@ EXCEPT ![1] = c]]
    BY <2>1
  <2> HIDE DEF first, c
  <2> QED
    BY <1>4, <1>5, <2>2, <2>3, <2>4, <2>5
<1>8. CASE \E n \in WeakerKeys(s) : t = [s EXCEPT !.chain[1].strength = n]
  <2>1. PICK n \in WeakerKeys(s) : t = [s EXCEPT !.chain[1].strength = n]
    BY <1>8
  <2> DEFINE c == [first EXCEPT !.strength = n]
  <2>2. n \in KeySizes /\ n < first.strength
    BY <2>1, Strengths DEF WeakerKeys, WeakKeys, KeySizes
  <2>3. c \in Certs
    BY <1>3, <2>2, CertsChange, ZenonT(60)
  <2>4. /\ c.subject = first.subject /\ c.issuer = first.issuer /\ c.key = first.key
        /\ c.signer = first.signer /\ c.unparsable = first.unparsable
        /\ c.strength = n /\ c.scts = first.scts /\ c.days = first.days /\ c.date = first.date
    BY <1>6
  <2>5. n <= first.strength
    BY <1>3, <2>2 DEF KeySizes
  <2>6. t = [s EXCEPT !.chain = [@ EXCEPT ![1] = c]]
    BY <2>1
  <2> HIDE DEF first, c
  <2> QED
    BY <1>5, <2>3, <2>4, <2>5, <2>6
<1>9. CASE t = [s EXCEPT !.chain[1].days = 400]
  <2> DEFINE c == [first EXCEPT !.days = 400]
  <2>1. c \in Certs
    BY <1>3, CertsChange, ZenonT(60)
  <2>2. /\ c.subject = first.subject /\ c.issuer = first.issuer /\ c.key = first.key
        /\ c.signer = first.signer /\ c.unparsable = first.unparsable
        /\ c.strength = first.strength /\ c.scts = first.scts /\ c.date = first.date
    BY <1>6
  <2>3. c.days > 398
    BY <1>6
  <2>4. t = [s EXCEPT !.chain = [@ EXCEPT ![1] = c]]
    BY <1>9
  <2> HIDE DEF first, c
  <2> QED
    BY <1>4, <1>5, <2>1, <2>2, <2>3, <2>4
<1>10. CASE t = [s EXCEPT !.chain[1].scts = 0]
  <2> DEFINE c == [first EXCEPT !.scts = 0]
  <2>1. c \in Certs
    BY <1>3, CertsChange, ZenonT(60)
  <2>2. /\ c.subject = first.subject /\ c.issuer = first.issuer /\ c.key = first.key
        /\ c.signer = first.signer /\ c.unparsable = first.unparsable
        /\ c.strength = first.strength /\ c.days = first.days /\ c.date = first.date /\ c.scts = 0
    BY <1>6
  <2>3. t = [s EXCEPT !.chain = [@ EXCEPT ![1] = c]]
    BY <1>10
  <2> HIDE DEF first, c
  <2> QED
    BY <1>4, <1>5, <2>1, <2>2, <2>3
<1>11. CASE t = [s EXCEPT !.chain[1].weakSignature = TRUE]
  <2> DEFINE c == [first EXCEPT !.weakSignature = TRUE]
  <2>1. c \in Certs
    BY <1>3, CertsChange, ZenonT(60)
  <2>2. /\ c.subject = first.subject /\ c.issuer = first.issuer /\ c.key = first.key
        /\ c.signer = first.signer /\ c.unparsable = first.unparsable
        /\ c.strength = first.strength /\ c.days = first.days /\ c.date = first.date
        /\ c.scts = first.scts
    BY <1>6
  <2>3. t = [s EXCEPT !.chain = [@ EXCEPT ![1] = c]]
    BY <1>11
  <2> HIDE DEF first, c
  <2> QED
    BY <1>4, <1>5, <2>1, <2>2, <2>3
<1> HIDE DEF LeafOnly, first
<1>12. \/ \E d \in {"soon", "past", "future"} : first.date = "fresh" /\ t = [s EXCEPT !.chain[1].date = d]
       \/ \E n \in WeakerKeys(s) : t = [s EXCEPT !.chain[1].strength = n]
       \/ t = [s EXCEPT !.chain[1].days = 400]
       \/ t = [s EXCEPT !.chain[1].scts = 0]
       \/ t = [s EXCEPT !.chain[1].weakSignature = TRUE]
  <2> DEFINE dates == IF s.chain[1].date = "fresh" THEN {"soon", "past", "future"} ELSE {}
             dated == {[s EXCEPT !.chain[1].date = d] : d \in dates}
             keyed == {[s EXCEPT !.chain[1].strength = n] : n \in WeakerKeys(s)}
             rest  == {[s EXCEPT !.chain[1].days = 400], [s EXCEPT !.chain[1].scts = 0],
                       [s EXCEPT !.chain[1].weakSignature = TRUE]}
  <2>1. t \in dated \cup keyed \cup rest
    BY <1>1 DEF WorseLeaf
  <2>2. CASE t \in dated
    <3>1. PICK d \in dates : t = [s EXCEPT !.chain[1].date = d]
      BY <2>2
    <3>2. s.chain[1].date = "fresh" /\ d \in {"soon", "past", "future"}
      BY <3>1
    <3> QED
      BY <3>1, <3>2, Zenon DEF first
  <2>3. CASE t \in keyed
    BY <2>3, Zenon
  <2>4. CASE t \in rest
    BY <2>4, Zenon
  <2> QED
    BY <2>1, <2>2, <2>3, <2>4, Zenon
<1> QED
  BY <1>7, <1>8, <1>9, <1>10, <1>11, <1>12, Zenon

Steady(s, t) == SameSpoken(s, t) /\ SameGroups(s, t) /\ t.chain = s.chain

LEMMA StapleWorse ==
  ASSUME NEW s \in Sites, NEW t \in WorseStaple(s) PROVE Steady(s, t) /\ FacetsSink(s, t)
<1>1. CASE t = [s EXCEPT !.named = FALSE]
  BY <1>1, AllFields DEF Steady, SameSpoken, SameGroups, FacetsSink
<1>2. CASE t = [s EXCEPT !.mustStaple = TRUE]
  BY <1>2, AllFields DEF Steady, SameSpoken, SameGroups, FacetsSink
<1>3. CASE \E v \in {"none", "revoked"} : s.stapled = "good" /\ t = [s EXCEPT !.stapled = v]
  <2>1. PICK v \in {"none", "revoked"} : s.stapled = "good" /\ t = [s EXCEPT !.stapled = v]
    BY <1>3
  <2> QED
    BY <2>1, AllFields DEF Steady, SameSpoken, SameGroups, FacetsSink
<1> QED
  BY <1>1, <1>2, <1>3 DEF WorseStaple

LEMMA FeaturesWorse ==
  ASSUME NEW s \in Sites, NEW t \in WorseFeatures(s) PROVE Steady(s, t) /\ FacetsSink(s, t)
<1>1. CASE \E v \in {"true", "null"} : s.compression # "true" /\ t = [s EXCEPT !.compression = v]
  <2>1. PICK v \in {"true", "null"} : s.compression # "true" /\ t = [s EXCEPT !.compression = v]
    BY <1>1
  <2> QED
    BY <2>1, AllFields DEF Steady, SameSpoken, SameGroups, FacetsSink
<1>2. CASE \E v \in {"true", "null"} : s.heartbeat # "true" /\ t = [s EXCEPT !.heartbeat = v]
  <2>1. PICK v \in {"true", "null"} : s.heartbeat # "true" /\ t = [s EXCEPT !.heartbeat = v]
    BY <1>2
  <2> QED
    BY <2>1, AllFields DEF Steady, SameSpoken, SameGroups, FacetsSink
<1>3. CASE \E v \in {"false", "null"} : /\ s.secureRenegotiation # "false"
                                        /\ t = [s EXCEPT !.secureRenegotiation = v]
  <2>1. PICK v \in {"false", "null"} : /\ s.secureRenegotiation # "false"
                                       /\ t = [s EXCEPT !.secureRenegotiation = v]
    BY <1>3
  <2> QED
    BY <2>1, AllFields DEF Steady, SameSpoken, SameGroups, FacetsSink
<1>4. CASE \E v \in {"true", "null"} : /\ s.clientRenegotiation # "true"
                                       /\ t = [s EXCEPT !.clientRenegotiation = v]
  <2>1. PICK v \in {"true", "null"} : /\ s.clientRenegotiation # "true"
                                      /\ t = [s EXCEPT !.clientRenegotiation = v]
    BY <1>4
  <2> QED
    BY <2>1, AllFields DEF Steady, SameSpoken, SameGroups, FacetsSink
<1> DEFINE a == {[s EXCEPT !.compression = v] : v \in IF s.compression = "true" THEN {} ELSE {"true", "null"}}
           b == {[s EXCEPT !.heartbeat = v] : v \in IF s.heartbeat = "true" THEN {} ELSE {"true", "null"}}
           c == {[s EXCEPT !.secureRenegotiation = v] :
                   v \in IF s.secureRenegotiation = "false" THEN {} ELSE {"false", "null"}}
           d == {[s EXCEPT !.clientRenegotiation = v] :
                   v \in IF s.clientRenegotiation = "true" THEN {} ELSE {"true", "null"}}
<1>5. t \in a \cup b \cup c \cup d
  BY DEF WorseFeatures
<1>6. t \in a => Steady(s, t) /\ FacetsSink(s, t)
  BY <1>1, Zenon
<1>7. t \in b => Steady(s, t) /\ FacetsSink(s, t)
  BY <1>2, Zenon
<1>8. t \in c => Steady(s, t) /\ FacetsSink(s, t)
  BY <1>3, Zenon
<1>9. t \in d => Steady(s, t) /\ FacetsSink(s, t)
  BY <1>4, Zenon
<1> HIDE DEF a, b, c, d
<1> QED
  BY <1>5, <1>6, <1>7, <1>8, <1>9

LEMMA AnswersWorse ==
  ASSUME NEW s \in Sites, NEW t \in WorseAnswers(s) PROVE Steady(s, t) /\ FacetsSink(s, t)
<1>1. CASE \E v \in {"short", "none"} : t = [s EXCEPT !.hsts = v]
  <2>1. PICK v \in {"short", "none"} : t = [s EXCEPT !.hsts = v]
    BY <1>1
  <2> QED
    BY <2>1, AllFields DEF Steady, SameSpoken, SameGroups, FacetsSink
<1>2. CASE t = [s EXCEPT !.reachable = FALSE, !.hsts = "none", !.plain = "skipped"]
  BY <1>2, AllFields DEF Steady, SameSpoken, SameGroups, FacetsSink
<1>3. CASE t = [s EXCEPT !.incomplete = TRUE]
  BY <1>3, AllFields DEF Steady, SameSpoken, SameGroups, FacetsSink
<1> QED
  BY <1>1, <1>2, <1>3 DEF WorseAnswers

\* A step makes nothing better.
LEMMA WorseSinks == ASSUME NEW s \in Sites, NEW t \in Worse(s) PROVE Sinks(s, t)
<1>1. t \in Sites
  BY WorseKept DEF Kept
<1>2. t \in WorseSpoken(s) => Sinks(s, t)
  BY <1>1, SpokenWorse, SameSinks DEF Same, Sinks
<1>3. t \in WorseGroups(s) => Sinks(s, t)
  BY <1>1, GroupsWorse, SameSinks DEF Sinks
<1>4. t \in WorseChain(s) => Sinks(s, t)
  BY <1>1, ChainWorse, SameSinks DEF Sinks
<1>5. t \in WorseLeaf(s) => Sinks(s, t)
  BY <1>1, LeafWorse, SameSinks DEF LeafOnly, Sinks
<1>6. t \in WorseStaple(s) \cup WorseFeatures(s) \cup WorseAnswers(s) => Sinks(s, t)
  BY <1>1, StapleWorse, FeaturesWorse, AnswersWorse, SameSinks DEF Steady, Sinks
<1> QED
  BY <1>2, <1>3, <1>4, <1>5, <1>6 DEF Worse


\* The suites that a site has: what they are and where they are offered.
OldFashioned(n) ==
  /\ n.left \notin {"TLS13", "unknown"} /\ n.right.mode \in {"CBC", "none", "NULL"}
  /\ n.right.mac \in {"SHA", "MD5"} /\ Bits(n.right) \in {0, 40, 56, 112, 128}

LEMMA BadAreOld == \A n \in BadSuites \cup Basic : OldFashioned(n)
<1>1. \A left, export : OldFashioned(Suite(left, export, CBC)) <=> left \notin {"TLS13", "unknown"}
  BY DEF OldFashioned, Suite, CBC, Right, Bits
<1>2. \A left, export : OldFashioned(Suite(left, export, RC4)) <=> left \notin {"TLS13", "unknown"}
  BY DEF OldFashioned, Suite, RC4, Right, Bits
<1>3. ASSUME NEW left, NEW export, NEW cipher \in {"3DES", "DES", "DES40"}, NEW mac \in {"SHA", "MD5"}
      PROVE  OldFashioned(Suite(left, export, Right(cipher, 0, "CBC", mac)))
               <=> left \notin {"TLS13", "unknown"}
  BY DEF OldFashioned, Suite, Right, Bits
<1>4. \A left, export : OldFashioned(Suite(left, export, Right("NULL", 0, "NULL", "SHA")))
                          <=> left \notin {"TLS13", "unknown"}
  BY DEF OldFashioned, Suite, Right, Bits
<1> QED
  BY <1>1, <1>2, <1>3, <1>4, Zenon DEF BadSuites, Basic

LEMMA OldOffered ==
  ASSUME NEW n, OldFashioned(n), NEW v PROVE OfferedAt(v, n) <=> v # "TLS 1.3"
<1>1. ~Describe(n).suite.aead /\ Describe(n).suite.mac = n.right.mac
  BY DEF Describe, OldFashioned
<1> QED
  BY <1>1 DEF OfferedAt, OldFashioned

LEMMA BasicSuites ==
  ASSUME NEW n \in Basic
  PROVE  /\ Bits(n.right) = 128
         /\ n.right.cipher = "RC4" \/ Exchange(n)[1] \in {"DHE", "ECDHE"}
<1>1. CASE n = Suite("ECDHE_RSA", FALSE, CBC)
  <2>1. n.left = "ECDHE_RSA" /\ Bits(n.right) = 128
    BY <1>1 DEF Suite, CBC, Right, Bits
  <2> QED
    BY <2>1 DEF Exchange, KeyExchanges
<1>2. CASE n = Suite("RSA", FALSE, RC4)
  BY <1>2 DEF Suite, RC4, Right, Bits
<1>3. CASE n = Suite("DHE_DSS", FALSE, CBC)
  <2>1. n.left = "DHE_DSS" /\ Bits(n.right) = 128
    BY <1>3 DEF Suite, CBC, Right, Bits
  <2> QED
    BY <2>1 DEF Exchange, KeyExchanges
<1> QED
  BY <1>1, <1>2, <1>3 DEF Basic

LEMMA GoodSuites ==
  /\ Bits(Current.right) = 256 /\ Exchange(Current)[1] = "ECDHE"
  /\ OfferedAt("TLS 1.2", Current)
  /\ Bits(Latest.right) = 256 /\ Latest.left = "TLS13" /\ ~Latest.export
  /\ Latest.right.cipher = "AES"
<1>1. /\ Current.left = "ECDHE_RSA" /\ Bits(Current.right) = 256
      /\ Bits(Latest.right) = 256 /\ Latest.left = "TLS13" /\ ~Latest.export
      /\ Latest.right.cipher = "AES"
  BY DEF Current, Latest, Suite, GCM, Right, Bits
<1> HIDE DEF Current, Latest
<1>2. Exchange(Current)[1] = "ECDHE"
  BY <1>1 DEF Exchange, KeyExchanges
<1>3. OfferedAt("TLS 1.2", Current)
  BY <1>1 DEF OfferedAt
<1> QED
  BY <1>1, <1>2, <1>3

\* Current is seen at TLS 1.2 alone, Latest at TLS 1.3 alone.
LEMMA OnlyAt ==
  ASSUME NEW v
  PROVE  OfferedAt(v, Latest) => v = "TLS 1.3"
<1>1. Latest.left = "TLS13" /\ Latest.right.mode = "GCM"
  BY DEF Latest, Suite, GCM, Right
<1> HIDE DEF Latest
<1>2. Describe(Latest).suite.aead
  BY <1>1 DEF Describe
<1> QED
  BY <1>1, <1>2 DEF OfferedAt

\* No version comes before another that is older.
LEMMA OlderThan ==
  ASSUME NEW S
  PROVE  /\ S \cap {"TLS 1.2", "TLS 1.3"} # {} => "TLS 1.3" \notin Older(S)
         /\ "TLS 1.0" \in S => Older(S) \subseteq {"SSL 3.0"}
<1>1. /\ DOMAIN Versions = 1..5 /\ Versions[1] = "SSL 3.0" /\ Versions[2] = "TLS 1.0"
      /\ Versions[3] = "TLS 1.1" /\ Versions[4] = "TLS 1.2" /\ Versions[5] = "TLS 1.3"
  BY DEF Versions
<1>2. ASSUME NEW v \in Older(S)
      PROVE  \E j \in 1..5 : v = Versions[j] /\ \A k \in 1..5 : Versions[k] \in S => j < k
  BY <1>1 DEF Older
<1>3. 1..5 = {1, 2, 3, 4, 5} /\ ~(5 < 4) /\ ~(5 < 5) /\ ~(2 < 2) /\ ~(3 < 2) /\ ~(4 < 2) /\ ~(5 < 2)
  OBVIOUS
<1> DEFINE before(j, k) == j < k
<1>4. ASSUME NEW v \in Older(S)
      PROVE  \E j \in {1, 2, 3, 4, 5} :
               v = Versions[j] /\ \A k \in {1, 2, 3, 4, 5} : Versions[k] \in S => before(j, k)
  BY <1>2, <1>3
<1>5. /\ ~before(5, 4) /\ ~before(5, 5)
      /\ ~before(2, 2) /\ ~before(3, 2) /\ ~before(4, 2) /\ ~before(5, 2)
  BY <1>3
<1> HIDE DEF before
<1>6. ASSUME S \cap {"TLS 1.2", "TLS 1.3"} # {}, "TLS 1.3" \in Older(S) PROVE FALSE
  <2>1. PICK j \in {1, 2, 3, 4, 5} :
          "TLS 1.3" = Versions[j] /\ \A k \in {1, 2, 3, 4, 5} : Versions[k] \in S => before(j, k)
    BY <1>4, <1>6
  <2>2. Versions[j] = Versions[5] => j = 5
    BY <1>1
  <2>3. Versions[4] \notin S /\ Versions[5] \notin S
    BY <1>1, <1>5, <2>1, <2>2
  <2> QED
    BY <1>1, <1>6, <2>3
<1>7. ASSUME "TLS 1.0" \in S, NEW v \in Older(S) PROVE v = "SSL 3.0"
  <2>1. PICK j \in {1, 2, 3, 4, 5} :
          v = Versions[j] /\ \A k \in {1, 2, 3, 4, 5} : Versions[k] \in S => before(j, k)
    BY <1>4, <1>7
  <2>2. before(j, 2)
    BY <1>1, <1>7, <2>1
  <2>3. j = 1
    BY <1>5, <2>1, <2>2
  <2> QED
    BY <1>1, <2>1, <2>3
<1> QED
  BY <1>6, <1>7

\* A site keeps what it began with.
LEMMA BeganStays == ASSUME NEW s, NEW t, Began(s), SpokenSinks(s, t), t \in Sites PROVE Began(t)
<1>1. CASE BeganModern(s)
  BY <1>1 DEF BeganModern, SpokenSinks, Began, Sites
<1>2. CASE BeganOld(s)
  <2>1. Older(s.protocols) \subseteq {"SSL 3.0"}
    BY <1>2, OlderThan DEF BeganOld
  <2>2. PICK n \in Basic : n \in s.suites /\ s.suites \subseteq {n} \cup BadSuites
    BY <1>2 DEF BeganOld
  <2>3. n \in t.suites /\ t.suites \subseteq {n} \cup BadSuites
    BY <2>2 DEF SpokenSinks
  <2>4. "TLS 1.0" \in t.protocols /\ t.protocols \subseteq {"SSL 3.0", "TLS 1.0"}
    BY <1>2, <2>1 DEF BeganOld, SpokenSinks
  <2> QED
    BY <2>3, <2>4 DEF BeganOld, Began
<1> QED
  BY <1>1, <1>2 DEF Began


\* The suites that two reports saw: both saw the strongest, and what the second
\* lost is the suite of TLS 1.3.
BitCounts == {0, 40, 56, 112, 128, 256}

Seen(r, q) ==
  \E n \in r.suites \cap q.suites :
    /\ n.right.cipher = "RC4" \/ Exchange(n)[1] \in {"DHE", "ECDHE"}
    /\ \A m \in r.suites \cup q.suites : Bits(m.right) \in BitCounts /\ Bits(m.right) <= Bits(n.right)
    /\ \A m \in r.suites \ q.suites : m = Latest /\ Bits(n.right) = 256

LEMMA CurrentNotLatest == ~OfferedAt("TLS 1.3", Current)
  BY DEF OfferedAt, Current, Suite

LEMMA SeenTogether ==
  ASSUME NEW s \in Sites, NEW t \in Sites, Began(s), SpokenSinks(s, t), ~s.incomplete, ~t.incomplete
  PROVE  Seen(Assemble(s), Assemble(t))
<1> DEFINE r == Assemble(s)
           q == Assemble(t)
<1>1. /\ r.suites = {n \in s.suites : \E v \in s.protocols : OfferedAt(v, n)}
      /\ q.suites = {n \in t.suites : \E v \in t.protocols : OfferedAt(v, n)}
  BY Reported
<1>2. \A m : OldFashioned(m) => Bits(m.right) \in {0, 40, 56, 112, 128}
  BY DEF OldFashioned
<1>3. \A b \in {0, 40, 56, 112, 128} : b \in BitCounts /\ b <= 128 /\ b <= 256
  BY DEF BitCounts
<1>4. 256 \in BitCounts /\ 256 <= 256
  BY DEF BitCounts
<1>5. ASSUME NEW m \in r.suites, m \notin q.suites PROVE OfferedAt("TLS 1.3", m) /\ "TLS 1.3" \in s.protocols
  <2>1. PICK v \in s.protocols : OfferedAt(v, m)
    BY <1>1
  <2>2. v \notin t.protocols
    BY <1>1, <1>5, <2>1 DEF SpokenSinks
  <2>3. v = "TLS 1.3"
    BY <2>1, <2>2 DEF SpokenSinks
  <2> QED
    BY <2>1, <2>3
<1> HIDE DEF r, q
<1>6. CASE BeganModern(s)
  <2>1. Current \in r.suites \cap q.suites
    BY <1>1, <1>6, GoodSuites DEF BeganModern, SpokenSinks
  <2>2. ASSUME NEW m \in r.suites \cup q.suites PROVE m \in {Latest, Current} \cup BadSuites
    BY <1>1, <1>6 DEF BeganModern, SpokenSinks
  <2>3. ASSUME NEW m \in r.suites \cup q.suites
        PROVE  Bits(m.right) \in BitCounts /\ Bits(m.right) <= Bits(Current.right)
    <3>1. CASE m \in {Latest, Current}
      BY <1>4, <3>1, GoodSuites, ZenonT(60)
    <3>2. CASE m \in BadSuites
      <4>1. Bits(m.right) \in {0, 40, 56, 112, 128}
        BY <1>2, <3>2, BadAreOld
      <4>2. Bits(m.right) \in BitCounts /\ Bits(m.right) <= 256
        BY <1>3, <4>1
      <4> QED
        BY <4>2, GoodSuites
    <3> QED
      BY <2>2, <3>1, <3>2
  <2>4. ASSUME NEW m \in r.suites \ q.suites PROVE m = Latest
    <3>1. OfferedAt("TLS 1.3", m)
      BY <1>5
    <3>2. m \notin BadSuites
      BY <3>1, BadAreOld, OldOffered
    <3> QED
      BY <2>2, <3>1, <3>2, CurrentNotLatest
  <2> QED
    BY <2>1, <2>3, <2>4, GoodSuites DEF Seen, r, q
<1>7. CASE BeganOld(s)
  <2>1. PICK n \in Basic : n \in s.suites /\ s.suites \subseteq {n} \cup BadSuites
    BY <1>7 DEF BeganOld
  <2>2. OfferedAt("TLS 1.0", n)
    BY BadAreOld, OldOffered
  <2>3. n \in r.suites \cap q.suites
    BY <1>1, <1>7, <2>1, <2>2 DEF BeganOld, SpokenSinks
  <2>4. ASSUME NEW m \in r.suites \cup q.suites
        PROVE  Bits(m.right) \in BitCounts /\ Bits(m.right) <= Bits(n.right)
    <3>1. m \in Basic \cup BadSuites
      BY <1>1, <2>1 DEF SpokenSinks
    <3> QED
      BY <1>2, <1>3, <3>1, BadAreOld, BasicSuites
  <2>5. r.suites \ q.suites = {}
    BY <1>5, <1>7 DEF BeganOld
  <2> QED
    BY <2>3, <2>4, <2>5, BasicSuites DEF Seen, r, q
<1> QED
  BY <1>6, <1>7 DEF Began

\* Halves and tenths of smaller numbers are no greater.
LEMMA HalfSinks ==
  ASSUME NEW a \in Nat, NEW b \in Nat, NEW c \in Nat, NEW d \in Nat, a <= c, b <= d
  PROVE  Half(a, b) \in Nat /\ Half(a, b) <= Half(c, d)
  BY DEF Half

\* The mean of the greatest and the least of a set of scores, of which another
\* set has the same greatest and something as low as each.
LEMMA MeanSinks ==
  ASSUME NEW S, NEW T, S \subseteq Nat, T \subseteq Nat, NEW m, m \in S, m \in T,
         \A x \in S \cup T : x <= m, \A x \in S : \E y \in T : y <= x
  PROVE  /\ Max(S) = m /\ Max(T) = m
         /\ Min(S) \in S /\ Min(T) \in T /\ Min(T) <= Min(S)
<1>1. Max(S) = m /\ Max(T) = m
  <2>1. S \subseteq Int /\ T \subseteq Int
    OBVIOUS
  <2>2. (\A x \in S : x <= m) /\ (\A x \in T : x <= m)
    OBVIOUS
  <2> QED
    BY <2>1, <2>2, GreatestOf
<1>2. /\ Min(S) \in S /\ \A y \in S : Min(S) <= y
      /\ Min(T) \in T /\ \A y \in T : Min(T) <= y
  BY LeastOf
<1>3. PICK y \in T : y <= Min(S)
  BY <1>2
<1>4. Min(T) <= y
  BY <1>2
<1>5. Min(T) \in Nat /\ Min(S) \in Nat /\ y \in Nat
  BY <1>2
<1>6. Min(T) <= Min(S)
  BY <1>3, <1>4, <1>5
<1> QED
  BY <1>1, <1>2, <1>6

LEMMA BitsSeen ==
  ASSUME NEW r PROVE {d.bits : d \in Described(r)} = {Bits(n.right) : n \in r.suites}
<1>1. \A n : Describe(n).suite.bits = Bits(n.right)
  BY DescribeSays
<1> DEFINE suite(n) == Describe(n).suite
<1>2. Described(r) = {suite(n) : n \in r.suites}
  BY DEF Described
<1>3. \A n : suite(n).bits = Bits(n.right)
  BY <1>1
<1> HIDE DEF suite
<1>4. {d.bits : d \in Described(r)} = {suite(n).bits : n \in r.suites}
  BY <1>2
<1> QED
  BY <1>3, <1>4

CipherLevel(b) == IF b = 0 THEN 0 ELSE IF b < 128 THEN 20 ELSE IF b < 256 THEN 80 ELSE 100

LEMMA CipherSinks ==
  ASSUME NEW r, NEW q, Seen(r, q)
  PROVE  CipherScore(r) \in Nat /\ CipherScore(q) \in Nat /\ CipherScore(q) <= CipherScore(r)
<1>1. PICK n \in r.suites \cap q.suites :
        /\ \A m \in r.suites \cup q.suites : Bits(m.right) \in BitCounts /\ Bits(m.right) <= Bits(n.right)
        /\ \A m \in r.suites \ q.suites : m = Latest /\ Bits(n.right) = 256
  BY DEF Seen
<1> DEFINE S == {d.bits : d \in Described(r)} \ {Undefined}
           T == {d.bits : d \in Described(q)} \ {Undefined}
           top == Bits(n.right)
<1>2. /\ CipherScore(r) = IF S = {} THEN 0 ELSE Half(CipherLevel(Max(S)), CipherLevel(Min(S)))
      /\ CipherScore(q) = IF T = {} THEN 0 ELSE Half(CipherLevel(Max(T)), CipherLevel(Min(T)))
  BY DEF CipherScore, CipherLevel
<1>3. /\ S = {Bits(m.right) : m \in r.suites} \ {Undefined}
      /\ T = {Bits(m.right) : m \in q.suites} \ {Undefined}
  BY BitsSeen
<1> HIDE DEF S, T
<1>4. \A b \in BitCounts : b \in Nat /\ b # Undefined
  BY DEF BitCounts, Undefined
<1>5. /\ S = {Bits(m.right) : m \in r.suites}
      /\ T = {Bits(m.right) : m \in q.suites}
  BY <1>1, <1>3, <1>4
<1>6. top \in S /\ top \in T
  BY <1>5
<1>7. S \subseteq Nat /\ T \subseteq Nat /\ S \subseteq BitCounts /\ T \subseteq BitCounts
  BY <1>1, <1>4, <1>5
<1>8. \A x \in S \cup T : x <= top
  BY <1>1, <1>5
<1>9. ASSUME NEW x \in S PROVE \E y \in T : y <= x
  <2>1. PICK m \in r.suites : x = Bits(m.right)
    BY <1>5
  <2>2. CASE m \in q.suites
    BY <1>5, <1>7, <2>1, <2>2
  <2>3. CASE m \notin q.suites
    <3>1. m = Latest /\ top = 256
      BY <1>1, <2>3
    <3>2. x = top
      BY <2>1, <3>1, GoodSuites
    <3> QED
      BY <1>6, <1>7, <3>2
  <2> QED
    BY <2>2, <2>3
<1> HIDE DEF top
<1>10. /\ Max(S) = top /\ Max(T) = top
       /\ Min(S) \in S /\ Min(T) \in T /\ Min(T) <= Min(S)
  BY <1>6, <1>7, <1>8, <1>9, MeanSinks
<1>11. \A a \in BitCounts, b \in BitCounts :
         /\ CipherLevel(a) \in Nat
         /\ a <= b => CipherLevel(a) <= CipherLevel(b)
  BY DEF BitCounts, CipherLevel
<1> DEFINE p == CipherLevel(top)
           x == CipherLevel(Min(S))
           y == CipherLevel(Min(T))
<1>12. p \in Nat /\ x \in Nat /\ y \in Nat /\ y <= x /\ p <= p
  <2>1. top \in BitCounts /\ Min(S) \in BitCounts /\ Min(T) \in BitCounts
    BY <1>6, <1>7, <1>10
  <2>2. p \in Nat /\ x \in Nat /\ y \in Nat /\ y <= x
    BY <1>10, <1>11, <2>1
  <2> HIDE DEF p, x, y
  <2> QED
    BY <2>2
<1>13. S # {} /\ T # {}
  BY <1>6
<1> HIDE DEF p, x, y
<1>14. Half(p, y) \in Nat /\ Half(p, x) \in Nat /\ Half(p, y) <= Half(p, x)
  BY <1>12, HalfSinks
<1> QED
  BY <1>2, <1>10, <1>13, <1>14 DEF p, x, y


\* The scores of the protocols.
LEMMA VersionScores ==
  /\ ProtocolScores["SSL 2.0"] = 0 /\ ProtocolScores["SSL 3.0"] = 80
  /\ ProtocolScores["TLS 1.0"] = 90 /\ ProtocolScores["TLS 1.1"] = 95
  /\ ProtocolScores["TLS 1.2"] = 100 /\ ProtocolScores["TLS 1.3"] = 100
<1>1. ASSUME NEW v \in {"SSL 2.0", "SSL 3.0", "TLS 1.0", "TLS 1.1", "TLS 1.2", "TLS 1.3"}
      PROVE  ProtocolScores[v] =
               CASE v = "SSL 2.0" -> 0  [] v = "SSL 3.0" -> 80 [] v = "TLS 1.0" -> 90
                 [] v = "TLS 1.1" -> 95 [] OTHER -> 100
  BY DEF ProtocolScores
<1>2. ProtocolScores["SSL 2.0"] = 0 /\ ProtocolScores["SSL 3.0"] = 80
  BY <1>1
<1>3. ProtocolScores["TLS 1.0"] = 90 /\ ProtocolScores["TLS 1.1"] = 95
  BY <1>1
<1>4. ProtocolScores["TLS 1.2"] = 100 /\ ProtocolScores["TLS 1.3"] = 100
  BY <1>1
<1> QED
  BY <1>2, <1>3, <1>4

\* The points of a version, and which are the most of a set of versions.
Points(v) == ProtocolScores[v]
AllVersions == {"SSL 2.0", "SSL 3.0", "TLS 1.0", "TLS 1.1", "TLS 1.2", "TLS 1.3"}
OldVersions == {"SSL 2.0", "SSL 3.0", "TLS 1.0"}

LEMMA MostPoints ==
  /\ \A v \in AllVersions : Points(v) \in Nat /\ Points(v) <= Points(v) /\ Points(v) <= Points("TLS 1.2")
  /\ \A v \in OldVersions : Points(v) <= Points("TLS 1.0")
  /\ Points("TLS 1.2") <= Points("TLS 1.3")
<1>1. /\ Points("SSL 2.0") = 0 /\ Points("SSL 3.0") = 80
      /\ Points("TLS 1.0") = 90 /\ Points("TLS 1.1") = 95
      /\ Points("TLS 1.2") = 100 /\ Points("TLS 1.3") = 100
  BY VersionScores, Zenon DEF Points
<1> DEFINE a == Points("SSL 2.0")  b == Points("SSL 3.0")  c == Points("TLS 1.0")
           d == Points("TLS 1.1")  e == Points("TLS 1.2")  f == Points("TLS 1.3")
<1>2. a = 0 /\ b = 80 /\ c = 90 /\ d = 95 /\ e = 100 /\ f = 100
  BY <1>1
<1> HIDE DEF a, b, c, d, e, f
<1>3. /\ \A x \in {a, b, c, d, e, f} : x \in Nat /\ x <= x /\ x <= e
      /\ \A x \in {a, b, c} : x <= c
      /\ e <= f
  BY <1>2
<1>4. \A v \in AllVersions : Points(v) \in {a, b, c, d, e, f}
  BY DEF a, b, c, d, e, f, AllVersions
<1>5. \A v \in OldVersions : Points(v) \in {a, b, c}
  BY DEF a, b, c, OldVersions
<1> QED
  BY <1>3, <1>4, <1>5, Zenon DEF c, e, f

Spoken(s) == s.protocols \cup (IF s.ssl2 THEN {"SSL 2.0"} ELSE {})

LEMMA ProtocolScoreOf ==
  ASSUME NEW s \in Sites, ~s.incomplete
  PROVE  LET S == {Points(v) : v \in Spoken(s)}
         IN ProtocolScore(Assemble(s)) = IF S = {} THEN 0 ELSE Half(Max(S), Min(S))
<1> DEFINE r == Assemble(s)
<1>1. r.protocols = s.protocols /\ r.ssl2 = s.ssl2
  BY Reported
<1> HIDE DEF r
<1>2. r.protocols \cup (IF r.ssl2 THEN {"SSL 2.0"} ELSE {}) = Spoken(s)
  BY <1>1 DEF Spoken
<1> QED
  BY <1>2, Zenon DEF ProtocolScore, Points, r

LEMMA ProtocolSinks ==
  ASSUME NEW s \in Sites, NEW t \in Sites, Began(s), Began(t), SpokenSinks(s, t),
         ~s.incomplete, ~t.incomplete
  PROVE  LET a == ProtocolScore(Assemble(s))
             b == ProtocolScore(Assemble(t))
         IN a \in Nat /\ b \in Nat /\ b <= a
<1> DEFINE S == {Points(v) : v \in Spoken(s)}
           T == {Points(v) : v \in Spoken(t)}
<1>1. /\ ProtocolScore(Assemble(s)) = IF S = {} THEN 0 ELSE Half(Max(S), Min(S))
      /\ ProtocolScore(Assemble(t)) = IF T = {} THEN 0 ELSE Half(Max(T), Min(T))
  BY ProtocolScoreOf, Zenon
<1>2. Spoken(s) \subseteq AllVersions /\ Spoken(t) \subseteq AllVersions
  <2>1. s.protocols \subseteq ToSet(Versions) /\ t.protocols \subseteq ToSet(Versions)
    BY DEF Sites
  <2> QED
    BY <2>1, VersionSet DEF Spoken, AllVersions
<1>3. S \subseteq Nat /\ T \subseteq Nat
  BY <1>2, MostPoints
<1>4. ASSUME NEW v \in Spoken(s) PROVE \E w \in Spoken(t) : Points(w) <= Points(v)
  <2>1. CASE v \in Spoken(t)
    BY <1>2, <2>1, MostPoints
  <2>2. CASE v \notin Spoken(t)
    <3>1. v = "TLS 1.3" /\ v \in s.protocols
      BY <2>2 DEF Spoken, SpokenSinks
    <3>2. "TLS 1.2" \in t.protocols
      BY <3>1 DEF Began, BeganModern, BeganOld, SpokenSinks
    <3>3. "TLS 1.2" \in Spoken(t)
      BY <3>2 DEF Spoken
    <3> QED
      BY <3>1, <3>3, MostPoints
  <2> QED
    BY <2>1, <2>2
<1>5. \A x \in S : \E y \in T : y <= x
  BY <1>4
<1>6. \E m : m \in S /\ m \in T /\ \A x \in S \cup T : x <= m
  <2>1. CASE BeganModern(s)
    <3>1. "TLS 1.2" \in Spoken(s) /\ "TLS 1.2" \in Spoken(t)
      BY <2>1 DEF BeganModern, Spoken, SpokenSinks
    <3>2. \A v \in Spoken(s) \cup Spoken(t) : Points(v) <= Points("TLS 1.2")
      BY <1>2, MostPoints
    <3> QED
      BY <3>1, <3>2
  <2>2. CASE BeganOld(s)
    <3>1. "TLS 1.0" \in Spoken(s) /\ "TLS 1.0" \in Spoken(t)
      BY <2>2 DEF BeganOld, Spoken, SpokenSinks
    <3>2. Spoken(s) \subseteq OldVersions /\ Spoken(t) \subseteq OldVersions
      <4>1. Older(s.protocols) \subseteq {"SSL 3.0"}
        BY <2>2, OlderThan DEF BeganOld
      <4> QED
        BY <2>2, <4>1 DEF BeganOld, Spoken, SpokenSinks, OldVersions
    <3>3. \A v \in Spoken(s) \cup Spoken(t) : Points(v) <= Points("TLS 1.0")
      BY <3>2, MostPoints
    <3> QED
      BY <3>1, <3>3
  <2> QED
    BY <2>1, <2>2 DEF Began
<1> HIDE DEF S, T
<1>7. PICK m : m \in S /\ m \in T /\ \A x \in S \cup T : x <= m
  BY <1>6
<1>8. /\ Max(S) = m /\ Max(T) = m
      /\ Min(S) \in S /\ Min(T) \in T /\ Min(T) <= Min(S)
  BY <1>3, <1>5, <1>7, MeanSinks
<1> DEFINE x == Min(S)  y == Min(T)
<1>9. m \in Nat /\ x \in Nat /\ y \in Nat /\ y <= x
  BY <1>3, <1>7, <1>8
<1>10. S # {} /\ T # {}
  BY <1>7
<1> HIDE DEF x, y
<1>11. Half(m, y) \in Nat /\ Half(m, x) \in Nat /\ Half(m, y) <= Half(m, x)
  BY <1>9, HalfSinks
<1> QED
  BY <1>1, <1>8, <1>10, <1>11 DEF x, y

\* The scores of the keys.
LEMMA KeyScoreSinks ==
  ASSUME NEW a \in Nat, NEW b \in Nat, a <= b
  PROVE  KeyScore(a) \in Nat /\ KeyScore(b) \in Nat /\ KeyScore(a) <= KeyScore(b)
<1>1. ASSUME NEW n \in Nat
      PROVE  KeyScore(n) = IF n < 512 THEN 20 ELSE IF n < 1024 THEN 40 ELSE IF n < 2048 THEN 80
                           ELSE IF n < 4096 THEN 90 ELSE 100
  <2>1. /\ n \in 512..1023 <=> 512 <= n /\ n < 1024
        /\ n \in 1024..2047 <=> 1024 <= n /\ n < 2048
        /\ n \in 2048..4095 <=> 2048 <= n /\ n < 4096
    OBVIOUS
  <2> QED
    BY <2>1 DEF KeyScore
<1> QED
  BY <1>1

LEMMA Equivalents ==
  /\ RsaEquivalent(40) = 320 /\ RsaEquivalent(80) = 1024
  /\ RsaEquivalent(112) = 2048 /\ RsaEquivalent(128) = 3072
  BY DEF RsaEquivalent

LEMMA EquivalentSinks ==
  ASSUME NEW a \in KeySizes, NEW b \in KeySizes, a <= b
  PROVE  RsaEquivalent(a) \in Nat /\ RsaEquivalent(b) \in Nat /\ RsaEquivalent(a) <= RsaEquivalent(b)
  BY Equivalents DEF KeySizes

LEMMA ReportedKeys ==
  ASSUME NEW s \in Sites, ~s.incomplete, s.protocols # {}
  PROVE  Assemble(s).dh = s.dh /\ Assemble(s).groups = s.groups
  BY DEF Assemble, Assembled

Own(k)   == IF k > 0 THEN {RsaEquivalent(k)} ELSE {}
Primed(d) == IF d > 0 THEN {d} ELSE {}
Curved(g) == IF g # {} THEN {RsaEquivalent(Min(g))} ELSE {}
Parts(r) == Own(r.strength) \cup Primed(r.dh) \cup Curved(r.groups)

LEMMA CurvesSink ==
  ASSUME NEW g, NEW h, g \subseteq h, h \subseteq {80, 112, 128}
  PROVE  /\ Curved(g) \subseteq Nat /\ Curved(h) \subseteq Nat
         /\ \A x \in Curved(g) : \E y \in Curved(h) : y <= x
<1>1. h \subseteq Nat /\ h \subseteq KeySizes
  BY DEF KeySizes
<1>2. ASSUME h # {} PROVE Min(h) \in h /\ \A y \in h : Min(h) <= y
  BY <1>1, <1>2, LeastOf
<1>3. ASSUME g # {} PROVE Min(g) \in g
  BY <1>1, <1>3, LeastOf
<1>4. \A a \in KeySizes : RsaEquivalent(a) \in Nat
  BY Equivalents DEF KeySizes
<1>5. Curved(g) \subseteq Nat
  <2>1. ASSUME g # {} PROVE RsaEquivalent(Min(g)) \in Nat
    BY <1>1, <1>3, <1>4, <2>1
  <2> QED
    BY <2>1 DEF Curved
<1>6. Curved(h) \subseteq Nat
  <2>1. ASSUME h # {} PROVE RsaEquivalent(Min(h)) \in Nat
    BY <1>1, <1>2, <1>4, <2>1
  <2> QED
    BY <2>1 DEF Curved
<1>7. ASSUME g # {} PROVE RsaEquivalent(Min(h)) <= RsaEquivalent(Min(g))
  <2>1. h # {}
    BY <1>7
  <2>2. Min(h) \in KeySizes /\ Min(g) \in KeySizes /\ Min(h) <= Min(g)
    BY <1>1, <1>2, <1>3, <1>7, <2>1
  <2> QED
    BY <2>2, EquivalentSinks
<1>8. \A x \in Curved(g) : \E y \in Curved(h) : y <= x
  <2>1. CASE g = {}
    BY <2>1 DEF Curved
  <2>2. CASE g # {}
    <3>1. h # {}
      BY <2>2
    <3> QED
      BY <1>7, <2>2, <3>1 DEF Curved
  <2> QED
    BY <2>1, <2>2
<1> QED
  BY <1>5, <1>6, <1>8

LEMMA PrimesSink ==
  ASSUME NEW d \in Groups, NEW e \in Groups, d # Undefined => e # Undefined /\ e <= d
  PROVE  /\ Primed(d) \subseteq Nat /\ Primed(e) \subseteq Nat
         /\ \A x \in Primed(d) : \E y \in Primed(e) : y <= x
  BY DEF Primed, Groups, Undefined

LEMMA OwnSinks ==
  ASSUME NEW a \in KeySizes, NEW b \in KeySizes, a <= b
  PROVE  /\ Own(a) \subseteq Nat /\ Own(b) \subseteq Nat /\ Own(a) # {} /\ Own(b) # {}
         /\ \A x \in Own(b) : \E y \in Own(a) : y <= x
<1>1. \A k \in KeySizes : k > 0
  BY DEF KeySizes
<1>2. Own(a) = {RsaEquivalent(a)} /\ Own(b) = {RsaEquivalent(b)}
  BY <1>1 DEF Own
<1> QED
  BY <1>2, EquivalentSinks

\* The least of a set of numbers, of which another set has something as low as each.
LEMMA LeastSinks ==
  ASSUME NEW S, NEW T, S \subseteq Nat, T \subseteq Nat, S # {}, T # {}, \A x \in S : \E y \in T : y <= x
  PROVE  Min(S) \in Nat /\ Min(T) \in Nat /\ Min(T) <= Min(S)
<1>1. /\ Min(S) \in S
      /\ Min(T) \in T /\ \A y \in T : Min(T) <= y
  BY LeastOf
<1>2. PICK y \in T : y <= Min(S)
  BY <1>1
<1>3. Min(T) <= y
  BY <1>1
<1>4. Min(T) \in Nat /\ Min(S) \in Nat /\ y \in Nat
  BY <1>1
<1> QED
  BY <1>2, <1>3, <1>4

LEMMA KeySinks ==
  ASSUME NEW r, NEW q, r.strength \in KeySizes, q.strength \in KeySizes, q.strength <= r.strength,
         r.dh \in Groups, q.dh \in Groups, r.dh # Undefined => q.dh # Undefined /\ q.dh <= r.dh,
         r.groups \subseteq q.groups, q.groups \subseteq {80, 112, 128},
         (\E d \in Described(r) : d.anonymous) => \E d \in Described(q) : d.anonymous
  PROVE  /\ KeyExchangeScore(r) \in Nat /\ KeyExchangeScore(q) \in Nat
         /\ KeyExchangeScore(q) <= KeyExchangeScore(r)
<1> DEFINE anon(x) == \E d \in Described(x) : d.anonymous
<1>1. \A x \in {r, q} : KeyExchangeScore(x) =
        IF anon(x) \/ Parts(x) = {} THEN 0 ELSE KeyScore(Min(Parts(x)))
  BY DEF KeyExchangeScore, KeyScore, Parts, Own, Primed, Curved
<1>2. anon(r) => anon(q)
  OBVIOUS
<1> HIDE DEF anon
<1>3. /\ Own(r.strength) \subseteq Nat /\ Own(q.strength) \subseteq Nat
      /\ Own(r.strength) # {} /\ Own(q.strength) # {}
      /\ \A x \in Own(r.strength) : \E y \in Own(q.strength) : y <= x
  BY OwnSinks
<1>4. /\ Primed(r.dh) \subseteq Nat /\ Primed(q.dh) \subseteq Nat
      /\ \A x \in Primed(r.dh) : \E y \in Primed(q.dh) : y <= x
  BY PrimesSink
<1>5. /\ Curved(r.groups) \subseteq Nat /\ Curved(q.groups) \subseteq Nat
      /\ \A x \in Curved(r.groups) : \E y \in Curved(q.groups) : y <= x
  BY CurvesSink
<1> DEFINE S == Parts(r)  T == Parts(q)
<1>6. /\ S \subseteq Nat /\ T \subseteq Nat /\ S # {} /\ T # {}
      /\ \A x \in S : \E y \in T : y <= x
  BY <1>3, <1>4, <1>5 DEF Parts
<1>7. Min(S) \in Nat /\ Min(T) \in Nat /\ Min(T) <= Min(S)
  <2> HIDE DEF S, T
  <2> QED
    BY <1>6, LeastSinks, ZenonT(60)
<1> DEFINE a == KeyScore(Min(S))  b == KeyScore(Min(T))
<1>8. a \in Nat /\ b \in Nat /\ b <= a
  BY <1>7, KeyScoreSinks
<1>9. /\ KeyExchangeScore(r) = IF anon(r) THEN 0 ELSE a
      /\ KeyExchangeScore(q) = IF anon(q) THEN 0 ELSE b
  BY <1>1, <1>6
<1> HIDE DEF a, b, S, T
<1> QED
  BY <1>2, <1>8, <1>9


\* Of a finite set of numbers there is an nth.
LEMMA NthOf ==
  ASSUME NEW K, NEW len \in Nat, K \subseteq 1..len, NEW n \in 1..Cardinality(K)
  PROVE  \E i \in K : Cardinality({j \in K : j <= i}) = n
<1> DEFINE Upto(i) == {j \in K : j <= i}
           I == {i \in K : Cardinality(Upto(i)) >= n}
<1>1. IsFiniteSet(K) /\ Cardinality(K) \in Nat /\ K \subseteq Nat
  <2>1. 1 \in Int /\ len \in Int
    OBVIOUS
  <2>2. IsFiniteSet(1..len)
    BY <2>1, FS_Interval, Zenon
  <2>3. IsFiniteSet(K) /\ Cardinality(K) \in Nat
    BY <2>2, FS_Subset, FS_CardinalityType, Zenon
  <2>4. K \subseteq Nat
    OBVIOUS
  <2> QED
    BY <2>3, <2>4
<1>2. \A i : Upto(i) \subseteq K /\ IsFiniteSet(Upto(i)) /\ Cardinality(Upto(i)) \in Nat
  BY <1>1, FS_Subset, FS_CardinalityType
<1>3. ASSUME NEW S, S \subseteq K, S # {} PROVE \E m \in S : \A y \in S : y <= m
  <2>1. \A y \in S : len - y \in Nat
    BY <1>3
  <2> DEFINE T == {len - y : y \in S}
  <2>2. T \subseteq Nat /\ T # {}
    BY <1>3, <2>1
  <2>3. Min(T) \in T /\ \A y \in T : Min(T) <= y
    BY <2>2, LeastOf
  <2>4. PICK m \in S : Min(T) = len - m
    BY <2>3
  <2>5. ASSUME NEW y \in S PROVE y <= m
    <3>1. len - m <= len - y
      BY <2>3, <2>4
    <3>2. y \in Int /\ m \in Int
      BY <1>3
    <3> QED
      BY <3>1, <3>2
  <2> QED
    BY <2>5
<1>4. n \in Nat /\ n >= 1 /\ Cardinality(K) >= n
  BY <1>1
<1> HIDE DEF Upto
<1>5. I # {}
  <2>1. K # {}
    BY <1>4, FS_EmptySet
  <2>2. PICK m \in K : \A y \in K : y <= m
    BY <1>3, <2>1
  <2>3. Upto(m) = K
    BY <2>2 DEF Upto
  <2> QED
    BY <1>4, <2>2, <2>3
<1>6. Min(I) \in I /\ \A y \in I : Min(I) <= y
  BY <1>1, <1>5, LeastOf
<1> DEFINE i == Min(I)
<1> HIDE DEF i
<1>7. /\ i \in K /\ i \in Nat /\ Cardinality(Upto(i)) >= n
      /\ \A y \in K : Cardinality(Upto(y)) >= n => i <= y
  BY <1>1, <1>6 DEF i
<1>8. Cardinality(Upto(i)) = n
  <2> DEFINE R == Upto(i) \ {i}
  <2>1. i \in Upto(i)
    BY <1>7 DEF Upto
  <2>2. IsFiniteSet(R) /\ Cardinality(R) = Cardinality(Upto(i)) - 1
    BY <1>2, <2>1, FS_RemoveElement
  <2>3. SUFFICES ASSUME Cardinality(Upto(i)) # n PROVE FALSE
    OBVIOUS
  <2>4. Cardinality(R) >= n
    BY <1>2, <1>4, <1>7, <2>2, <2>3
  <2>5. R # {} /\ R \subseteq K
    BY <1>2, <1>4, <2>4, FS_EmptySet
  <2>6. PICK m \in R : \A y \in R : y <= m
    BY <1>3, <2>5
  <2>7. m \in K /\ m \in Nat /\ m < i
    BY <1>1, <1>7, <2>5, <2>6 DEF Upto
  <2>8. Upto(m) = R
    <3>1. ASSUME NEW y \in Upto(m) PROVE y \in R
      BY <1>1, <1>7, <2>7, <3>1 DEF Upto
    <3>2. ASSUME NEW y \in R PROVE y \in Upto(m)
      BY <2>5, <2>6, <3>2 DEF Upto
    <3> QED
      BY <3>1, <3>2
  <2>9. i <= m
    BY <1>7, <2>4, <2>7, <2>8
  <2> QED
    BY <1>7, <2>7, <2>9
<1> QED
  BY <1>7, <1>8 DEF Upto

\* Which certificates can be parsed, and so which of them are listed where.
Position(c, n) ==
  LET kept == {i \in DOMAIN c : ~c[i].unparsable}
  IN CHOOSE i \in kept : Cardinality({j \in kept : j <= i}) = n

LEMMA Positions ==
  ASSUME NEW S, NEW c \in Seq(S)
  PROVE  LET kept == {i \in DOMAIN c : ~c[i].unparsable}
         IN /\ Cardinality(kept) \in Nat
            /\ Parsed(c) = [n \in 1..Cardinality(kept) |-> c[Position(c, n)]]
            /\ \A n \in 1..Cardinality(kept) :
                 Position(c, n) \in kept /\ Cardinality({j \in kept : j <= Position(c, n)}) = n
<1> DEFINE kept == {i \in DOMAIN c : ~c[i].unparsable}
<1>1. kept \subseteq 1..Len(c) /\ Len(c) \in Nat
  OBVIOUS
<1>2. Cardinality(kept) \in Nat
  <2>1. 1 \in Int /\ Len(c) \in Int
    OBVIOUS
  <2>2. IsFiniteSet(1..Len(c))
    BY <2>1, FS_Interval, Zenon
  <2> HIDE DEF kept
  <2> QED
    BY <1>1, <2>2, FS_Subset, FS_CardinalityType, Zenon
<1>3. Parsed(c) = [n \in 1..Cardinality(kept) |-> c[Position(c, n)]]
  BY DEF Parsed, Position
<1>4. ASSUME NEW n \in 1..Cardinality(kept)
      PROVE  Position(c, n) \in kept /\ Cardinality({j \in kept : j <= Position(c, n)}) = n
  <2>1. \E i \in kept : Cardinality({j \in kept : j <= i}) = n
    <3> HIDE DEF kept
    <3> QED
      BY <1>1, NthOf
  <2>2. Position(c, n) = CHOOSE i \in kept : Cardinality({j \in kept : j <= i}) = n
    BY DEF Position
  <2> HIDE DEF kept
  <2> QED
    BY <2>1, <2>2
<1> QED
  BY <1>2, <1>3, <1>4

\* Two chains with the same names, keys and signers have them in the same places.
Alike(a, b) ==
  a.subject = b.subject /\ a.issuer = b.issuer /\ a.key = b.key /\ a.signer = b.signer

LEMMA ParsedAlike ==
  ASSUME NEW c \in CertLists, NEW d \in CertLists, SameChain(c, d)
  PROVE  /\ DOMAIN Parsed(d) = DOMAIN Parsed(c) /\ Len(Parsed(d)) = Len(Parsed(c))
         /\ \A n \in DOMAIN Parsed(c) : Alike(Parsed(c)[n], Parsed(d)[n])
<1> DEFINE keptC == {i \in DOMAIN c : ~c[i].unparsable}
           keptD == {i \in DOMAIN d : ~d[i].unparsable}
<1>1. keptC = keptD
  BY DEF SameChain
<1>2. \A n : Position(c, n) = Position(d, n)
  BY <1>1, Zenon DEF Position
<1>3. /\ Cardinality(keptC) \in Nat
      /\ Parsed(c) = [n \in 1..Cardinality(keptC) |-> c[Position(c, n)]]
      /\ \A n \in 1..Cardinality(keptC) : Position(c, n) \in keptC
  BY Positions DEF CertLists
<1>4. Parsed(d) = [n \in 1..Cardinality(keptC) |-> d[Position(c, n)]]
  <2>1. Parsed(d) = [n \in 1..Cardinality(keptD) |-> d[Position(d, n)]]
    BY Positions DEF CertLists
  <2> HIDE DEF keptC, keptD
  <2> QED
    BY <1>1, <1>2, <2>1
<1>5. \A i \in keptC : Alike(c[i], d[i])
  BY DEF SameChain, Alike
<1> HIDE DEF keptC, keptD
<1>6. DOMAIN Parsed(d) = 1..Cardinality(keptC) /\ DOMAIN Parsed(c) = 1..Cardinality(keptC)
  BY <1>3, <1>4
<1>7. Len(Parsed(d)) = Cardinality(keptC) /\ Len(Parsed(c)) = Cardinality(keptC)
  BY <1>3, <1>4
<1>8. \A n \in 1..Cardinality(keptC) :
        Parsed(c)[n] = c[Position(c, n)] /\ Parsed(d)[n] = d[Position(c, n)]
  BY <1>3, <1>4
<1> QED
  BY <1>3, <1>5, <1>6, <1>7, <1>8


\* Whether a chain leads to an anchor.
LEMMA AnchorIs ==
  ASSUME NEW c \in CertLists
  PROVE  FindAnchor(Parsed(c), Anchors) # None <=> Anchored(Parsed(c), Anchors) # {}
<1> DEFINE certs == Parsed(c)
           found == Anchored(certs, Anchors)
           a     == FindAnchor(certs, Anchors)
<1>1. DOMAIN certs \subseteq Nat /\ DOMAIN Anchors \subseteq Nat
  <2>1. PICK T : certs \in Seq(T)
    BY ParsedList DEF CertLists
  <2> HIDE DEF certs
  <2> QED
    BY <2>1, TheAnchors
<1>2. /\ found = {} => a = None
      /\ found # {} => \E m \in found : a.store = Anchors[m[2]].store
  BY <1>1, AnchorFound
<1>3. \A m \in found : Anchors[m[2]].store # "none"
  <2>1. \A m \in found : m[2] \in DOMAIN Anchors
    BY DEF Anchored
  <2> HIDE DEF found
  <2> QED
    BY <2>1, TheAnchors DEF Mozilla
<1> HIDE DEF found, a
<1>4. found # {} => a # None
  BY <1>2, <1>3 DEF None
<1> QED
  BY <1>2, <1>4 DEF found, a

LEMMA AnchorsAlike ==
  ASSUME NEW c \in CertLists, NEW d \in CertLists, SameChain(c, d)
  PROVE  /\ Anchored(Parsed(d), Anchors) = Anchored(Parsed(c), Anchors)
         /\ Signed(Parsed(d)) <=> Signed(Parsed(c))
<1> DEFINE p == Parsed(c)
           q == Parsed(d)
<1>1. /\ DOMAIN q = DOMAIN p /\ Len(q) = Len(p)
      /\ \A n \in DOMAIN p : Alike(p[n], q[n])
  BY ParsedAlike
<1>2. Len(p) \in Nat /\ DOMAIN p = 1..Len(p)
  BY ParsedList DEF CertLists
<1> HIDE DEF p, q
<1>3. Anchored(q, Anchors) = Anchored(p, Anchors)
  BY <1>1 DEF Anchored, Issued, Verifies, Alike
<1>4. \A i \in 1..(Len(p) - 1) : Verifies(q[i], q[i + 1]) <=> Verifies(p[i], p[i + 1])
  <2>1. \A i \in 1..(Len(p) - 1) : i \in DOMAIN p /\ i + 1 \in DOMAIN p
    BY <1>2
  <2> QED
    BY <1>1, <2>1 DEF Verifies, Alike
<1>5. Signed(q) <=> Signed(p)
  BY <1>1, <1>4 DEF Signed
<1> QED
  BY <1>3, <1>5 DEF p, q

LEMMA PathAlike ==
  ASSUME NEW s \in Sites, NEW t \in Sites, SameChain(s.chain, t.chain), NEW stores, PathTo(t, stores)
  PROVE  PathTo(s, stores)
<1> DEFINE p == Parsed(s.chain)
           q == Parsed(t.chain)
<1>1. s.chain \in CertLists /\ t.chain \in CertLists
  BY DEF Sites
<1>2. /\ DOMAIN q = DOMAIN p
      /\ \A n \in DOMAIN p : Alike(p[n], q[n])
  BY <1>1, ParsedAlike
<1>3. Len(p) \in Nat /\ DOMAIN p = 1..Len(p)
  BY <1>1, ParsedList DEF CertLists
<1>4. PICK n \in DOMAIN q :
        /\ \A i \in 1..(n - 1) : q[i].signer = q[i + 1].key
        /\ \E a \in ToSet(Anchors) : /\ a.store \in stores
                                    /\ a.cert.subject = q[n].issuer
                                    /\ a.cert.key = q[n].signer
  BY DEF PathTo
<1> HIDE DEF p, q
<1>5. \A i \in 1..(n - 1) : i \in DOMAIN p /\ i + 1 \in DOMAIN p
  BY <1>2, <1>3, <1>4
<1>6. \A i \in 1..(n - 1) : p[i].signer = p[i + 1].key
  BY <1>2, <1>4, <1>5 DEF Alike
<1>7. \E a \in ToSet(Anchors) : /\ a.store \in stores
                               /\ a.cert.subject = p[n].issuer
                               /\ a.cert.key = p[n].signer
  BY <1>2, <1>4 DEF Alike
<1>8. n \in DOMAIN p
  BY <1>2, <1>4
<1> QED
  BY <1>6, <1>7, <1>8 DEF PathTo, p

\* The chain of a well configured site leads to the root of Mozilla's store.
LEMMA FirstChain ==
  LET c == <<leaf, mid>>
  IN /\ c \in CertLists /\ Parsed(c) = c
     /\ leaf.subject # leaf.issuer /\ ~leaf.unparsable
     /\ leaf.date = "fresh" /\ leaf.scts = 2 /\ leaf.days = 90 /\ leaf.strength = 128
     /\ leaf.signer = mid.key /\ mid.issuer = root.subject /\ mid.signer = root.key
<1> DEFINE c == <<leaf, mid>>
           kept == {i \in DOMAIN c : ~c[i].unparsable}
           Upto(i) == {j \in kept : j <= i}
<1>1. /\ leaf.subject # leaf.issuer /\ ~leaf.unparsable /\ ~mid.unparsable
      /\ leaf.date = "fresh" /\ leaf.scts = 2 /\ leaf.days = 90 /\ leaf.strength = KeyStrength("ec", 256)
      /\ leaf.signer = mid.key /\ mid.issuer = root.subject /\ mid.signer = root.key
  BY DEF leaf, mid, root, Cert
<1>2. leaf.strength = 128
  BY <1>1, Strengths
<1>3. c \in CertLists
  BY CertsPresented DEF CertLists
<1>4. DOMAIN c = {1, 2} /\ c[1] = leaf /\ c[2] = mid
  OBVIOUS
<1> HIDE DEF c
<1>5. kept = {1, 2}
  BY <1>1, <1>4
<1>6. IsFiniteSet({1}) /\ Cardinality({1}) = 1
  BY FS_Singleton, Zenon
<1>7. Cardinality({1, 2}) = 2
  <2>1. {1} \cup {2} = {1, 2} /\ 2 \notin {1}
    OBVIOUS
  <2>2. Cardinality({1} \cup {2}) = Cardinality({1}) + 1
    BY <1>6, <2>1, FS_AddElement
  <2> QED
    BY <1>6, <2>1, <2>2
<1>8. /\ Parsed(c) = [n \in 1..Cardinality(kept) |-> c[Position(c, n)]]
      /\ \A n \in 1..Cardinality(kept) :
           Position(c, n) \in kept /\ Cardinality(Upto(Position(c, n))) = n
  BY <1>3, Positions DEF CertLists
<1>9. Upto(1) = {1} /\ Upto(2) = {1, 2}
  BY <1>5
<1>10. Cardinality(kept) = 2 /\ 1..2 = {1, 2}
  BY <1>5, <1>7
<1> DEFINE at(n) == Position(c, n)
<1>11. /\ at(1) \in {1, 2} /\ Cardinality(Upto(at(1))) = 1
       /\ at(2) \in {1, 2} /\ Cardinality(Upto(at(2))) = 2
  BY <1>5, <1>8, <1>10
<1> HIDE DEF kept, Upto, at
<1>12. at(1) = 1 /\ at(2) = 2
  <2>1. at(1) = 2 => Cardinality(Upto(at(1))) = 2
    BY <1>7, <1>9
  <2>2. at(2) = 1 => Cardinality(Upto(at(2))) = 1
    BY <1>6, <1>9
  <2> QED
    BY <1>11, <2>1, <2>2
<1>13. Parsed(c) = [n \in {1, 2} |-> c[n]]
  BY <1>8, <1>10, <1>12 DEF at
<1>14. c = [n \in {1, 2} |-> c[n]]
  BY <1>3, <1>4 DEF CertLists
<1> QED
  BY <1>1, <1>2, <1>3, <1>13, <1>14 DEF c


LEMMA FirstTrust ==
  ASSUME NEW s \in Sites, s.chain = <<leaf, mid>>
  PROVE  /\ PathTo(s, {Mozilla})
         /\ Anchored(Parsed(s.chain), Anchors) # {} /\ Signed(Parsed(s.chain))
<1> DEFINE p == Parsed(s.chain)
<1>1. p = <<leaf, mid>> /\ leaf.signer = mid.key /\ mid.issuer = root.subject /\ mid.signer = root.key
  BY FirstChain
<1>2. DOMAIN p = {1, 2} /\ p[1] = leaf /\ p[2] = mid /\ Len(p) = 2
  BY <1>1
<1>3. Anchors[2].store = Mozilla /\ Anchors[2].cert = root /\ 2 \in DOMAIN Anchors
  BY DEF Anchors
<1> HIDE DEF p
<1>4. <<2, 2>> \in Anchored(p, Anchors)
  BY <1>1, <1>2, <1>3 DEF Anchored, Issued, Verifies
<1>5. 1..(2 - 1) = {1} /\ 1 + 1 = 2
  OBVIOUS
<1>6. Signed(p)
  BY <1>1, <1>2, <1>5 DEF Signed, Verifies
<1>7. PathTo(s, {Mozilla})
  <2>1. \A i \in 1..(2 - 1) : p[i].signer = p[i + 1].key
    BY <1>1, <1>2, <1>5
  <2>2. Anchors[2] \in ToSet(Anchors)
    BY <1>3 DEF ToSet
  <2>3. \E a \in ToSet(Anchors) : /\ a.store \in {Mozilla}
                                 /\ a.cert.subject = p[2].issuer
                                 /\ a.cert.key = p[2].signer
    BY <1>1, <1>2, <1>3, <2>2
  <2> QED
    BY <1>2, <2>1, <2>3 DEF PathTo, p
<1> QED
  BY <1>4, <1>6, <1>7 DEF p

LEMMA PresentedLeaf ==
  ASSUME NEW c \in Chains, c # <<>> PROVE c[1].strength <= 128
<1>1. c[1].strength \in KeySizes
  BY ChainsPresented, FirstStrength
<1> QED
  BY <1>1 DEF KeySizes

\* The leaves of two reports, and the trust in them.
LEMMA LeavesCompare ==
  ASSUME NEW s \in Sites, NEW t \in Sites, ChainSinks(s, t),
         Assemble(s).cert.leaf, Assemble(t).cert.leaf
  PROVE  /\ s.chain[1].strength \in KeySizes /\ t.chain[1].strength \in KeySizes
         /\ t.chain[1].strength <= s.chain[1].strength
         /\ s.chain[1].subject = s.chain[1].issuer => t.chain[1].subject = t.chain[1].issuer
         /\ s.chain[1].scts = 0 => t.chain[1].scts = 0
         /\ s.chain[1].days > 398 => t.chain[1].days > 398
         /\ PathTo(t, {Mozilla}) => PathTo(s, {Mozilla})
<1>1. s.chain # <<>> /\ t.chain # <<>>
  BY LeafIsFirst
<1>2. s.chain \in CertLists /\ t.chain \in CertLists
  BY DEF Sites
<1>3. /\ s.chain[1].strength \in KeySizes /\ t.chain[1].strength \in KeySizes
      /\ 1 \in DOMAIN s.chain
  BY <1>1, <1>2, FirstStrength
<1>4. CASE SameChain(s.chain, t.chain)
  <2>1. /\ t.chain[1].strength <= s.chain[1].strength
        /\ s.chain[1].subject = s.chain[1].issuer => t.chain[1].subject = t.chain[1].issuer
        /\ s.chain[1].scts = 0 => t.chain[1].scts = 0
        /\ s.chain[1].days > 398 => t.chain[1].days > 398
    BY <1>1, <1>3, <1>4 DEF SameChain
  <2>2. PathTo(t, {Mozilla}) => PathTo(s, {Mozilla})
    BY <1>4, PathAlike
  <2> QED
    BY <1>3, <2>1, <2>2
<1>5. CASE s.chain = <<leaf, mid>> /\ t.chain \in Chains
  <2>1. s.chain[1] = leaf
    BY <1>5
  <2>2. /\ s.chain[1].subject # s.chain[1].issuer /\ s.chain[1].scts = 2
        /\ s.chain[1].days = 90 /\ s.chain[1].strength = 128
    BY <2>1, FirstChain
  <2>3. t.chain[1].strength <= 128
    BY <1>1, <1>5, PresentedLeaf
  <2>4. PathTo(s, {Mozilla})
    BY <1>5, FirstTrust
  <2> QED
    BY <1>3, <2>2, <2>3, <2>4
<1> QED
  BY <1>4, <1>5 DEF ChainSinks

LEMMA TrustSinks ==
  ASSUME NEW s \in Sites, NEW t \in Sites, ChainSinks(s, t), FacetsSink(s, t),
         Assemble(s).cert.leaf, Assemble(t).cert.leaf, Assemble(t).cert.trusted
  PROVE  Assemble(s).cert.trusted
<1>1. s.chain # <<>> /\ t.chain # <<>>
  BY LeafIsFirst
<1>2. s.chain \in CertLists /\ t.chain \in CertLists
  BY DEF Sites
<1>3. /\ FindAnchor(Parsed(t.chain), Anchors) # None /\ Signed(Parsed(t.chain))
      /\ t.stapled # "revoked" /\ t.chain[1].date \notin {"past", "future"}
  BY LeafSays DEF Says
<1>4. Assemble(s).cert.trusted <=>
        /\ FindAnchor(Parsed(s.chain), Anchors) # None /\ Signed(Parsed(s.chain))
        /\ s.stapled # "revoked" /\ s.chain[1].date \notin {"past", "future"}
  BY LeafSays DEF Says
<1>5. s.stapled # "revoked"
  BY <1>3 DEF FacetsSink
<1>6. CASE SameChain(s.chain, t.chain)
  <2>1. s.chain[1].date \notin {"past", "future"}
    BY <1>1, <1>3, <1>6 DEF SameChain
  <2>2. Signed(Parsed(s.chain)) /\ Anchored(Parsed(s.chain), Anchors) # {}
    BY <1>2, <1>3, <1>6, AnchorsAlike, AnchorIs
  <2>3. FindAnchor(Parsed(s.chain), Anchors) # None
    BY <1>2, <2>2, AnchorIs
  <2> QED
    BY <1>4, <1>5, <2>1, <2>2, <2>3
<1>7. CASE s.chain = <<leaf, mid>>
  <2>1. s.chain[1].date = "fresh"
    BY <1>7, FirstChain
  <2>2. Signed(Parsed(s.chain)) /\ Anchored(Parsed(s.chain), Anchors) # {}
    BY <1>7, FirstTrust
  <2>3. FindAnchor(Parsed(s.chain), Anchors) # None
    BY <1>2, <2>2, AnchorIs
  <2> QED
    BY <1>4, <1>5, <2>1, <2>2, <2>3
<1> QED
  BY <1>6, <1>7 DEF ChainSinks

\* A report whose leaf may be graded by its key, and one after it.
LEMMA ScoreSinks ==
  ASSUME NEW s \in Sites, NEW t, Sinks(s, t), Began(s), ~s.incomplete, ~t.incomplete,
         Assemble(s).cert.leaf, Assemble(t).cert.leaf
  PROVE  /\ Score(Assemble(s)) \in Nat /\ Score(Assemble(t)) \in Nat
         /\ Score(Assemble(t)) <= Score(Assemble(s))
<1> DEFINE r == Assemble(s)
           q == Assemble(t)
<1>1. t \in Sites /\ SpokenSinks(s, t) /\ GroupsSink(s, t) /\ FacetsSink(s, t) /\ ChainSinks(s, t)
  BY DEF Sinks
<1>2. Began(t)
  BY <1>1, BeganStays
<1>3. ProtocolScore(r) \in Nat /\ ProtocolScore(q) \in Nat /\ ProtocolScore(q) <= ProtocolScore(r)
  BY <1>1, <1>2, ProtocolSinks
<1>4. Seen(r, q)
  BY <1>1, SeenTogether
<1>5. CipherScore(r) \in Nat /\ CipherScore(q) \in Nat /\ CipherScore(q) <= CipherScore(r)
  BY <1>4, CipherSinks
<1>6. s.protocols # {} /\ t.protocols # {}
  BY <1>2 DEF Began, BeganModern, BeganOld
<1>7. r.dh = s.dh /\ r.groups = s.groups /\ q.dh = t.dh /\ q.groups = t.groups
  BY <1>1, <1>6, ReportedKeys
<1>8. r.strength = s.chain[1].strength /\ q.strength = t.chain[1].strength
  BY <1>1, ReportedLeaf
<1>9. /\ s.chain[1].strength \in KeySizes /\ t.chain[1].strength \in KeySizes
      /\ t.chain[1].strength <= s.chain[1].strength
  BY <1>1, LeavesCompare
<1>10. s.dh \in Groups /\ t.dh \in Groups /\ t.groups \subseteq {80, 112, 128}
  BY <1>1 DEF Sites
<1> HIDE DEF r, q
<1>11. ASSUME \E d \in Described(r) : d.anonymous PROVE \E d \in Described(q) : d.anonymous
  <2>1. PICK n \in r.suites : Describe(n).suite.anonymous
    BY <1>11 DEF Described
  <2>2. n # Latest
    <3>1. Exchange(Latest)[2] = "any"
      BY GoodSuites DEF Exchange
    <3>2. Describe(n).suite.anonymous <=> Exchange(n)[2] = "anon"
      BY DEF Describe
    <3> QED
      BY <2>1, <3>1, <3>2
  <2>3. n \in q.suites
    BY <1>4, <2>1, <2>2 DEF Seen
  <2> QED
    BY <2>1, <2>3 DEF Described
<1>12. KeyExchangeScore(r) \in Nat /\ KeyExchangeScore(q) \in Nat /\ KeyExchangeScore(q) <= KeyExchangeScore(r)
  <2>1. /\ r.strength \in KeySizes /\ q.strength \in KeySizes /\ q.strength <= r.strength
        /\ r.dh \in Groups /\ q.dh \in Groups /\ q.groups \subseteq {80, 112, 128}
    BY <1>7, <1>8, <1>9, <1>10
  <2>2. r.groups \subseteq q.groups /\ (r.dh # Undefined => q.dh # Undefined /\ q.dh <= r.dh)
    BY <1>1, <1>7 DEF GroupsSink
  <2> QED
    BY <1>11, <2>1, <2>2, KeySinks
<1> DEFINE a == ProtocolScore(r)  b == KeyExchangeScore(r)  c == CipherScore(r)
           d == ProtocolScore(q)  e == KeyExchangeScore(q)  f == CipherScore(q)
<1>13. /\ a \in Nat /\ b \in Nat /\ c \in Nat /\ d \in Nat /\ e \in Nat /\ f \in Nat
       /\ d <= a /\ e <= b /\ f <= c
  BY <1>3, <1>5, <1>12
<1>14. /\ Score(r) = (3 * a + 3 * b + 4 * c + 5) \div 10
       /\ Score(q) = (3 * d + 3 * e + 4 * f + 5) \div 10
  BY DEF Score
<1> HIDE DEF a, b, c, d, e, f
<1>15. /\ (3 * a + 3 * b + 4 * c + 5) \div 10 \in Nat
       /\ (3 * d + 3 * e + 4 * f + 5) \div 10 \in Nat
       /\ (3 * d + 3 * e + 4 * f + 5) \div 10 <= (3 * a + 3 * b + 4 * c + 5) \div 10
  BY <1>13
<1> QED
  BY <1>14, <1>15 DEF r, q


\* The caps that README publishes, of a site and of one after it.
LEMMA CapsSink ==
  ASSUME NEW s \in Sites, NEW t, Sinks(s, t), Began(s), ~s.incomplete, ~t.incomplete,
         \E d \in Described(Assemble(s)) : d.encryption # "RC4"
  PROVE  LET r == Assemble(s)
             q == Assemble(t)
         IN (CodeF(s, r) => CodeF(t, q)) /\ (CodeC(s, r) => CodeC(t, q)) /\ (IsB(s, r) => IsB(t, q))
<1> DEFINE r == Assemble(s)
           q == Assemble(t)
<1>1. t \in Sites /\ SpokenSinks(s, t) /\ GroupsSink(s, t) /\ FacetsSink(s, t)
  BY DEF Sinks
<1>2. Seen(r, q)
  BY <1>1, SeenTogether
<1>3. r.dh \in Groups /\ q.dh \in Groups /\ (r.dh # Undefined => q.dh # Undefined /\ q.dh <= r.dh)
  <2>1. Began(t)
    BY <1>1, BeganStays
  <2>2. s.protocols # {} /\ t.protocols # {}
    BY <2>1 DEF Began, BeganModern, BeganOld
  <2>3. r.dh = s.dh /\ q.dh = t.dh
    BY <1>1, <2>2, ReportedKeys
  <2>4. s.dh \in Groups /\ t.dh \in Groups
    BY <1>1 DEF Sites
  <2> QED
    BY <1>1, <2>3, <2>4 DEF GroupsSink
<1> HIDE DEF r, q
<1>4. ASSUME NEW a \in Groups, NEW b \in Groups, a # Undefined => b # Undefined /\ b <= a
      PROVE  (a \in 1..1023 => b \in 1..1023) /\ (a \in 1..2047 => b \in 1..2047)
  BY <1>4, SMTT(30) DEF Groups, Undefined
<1>5. (r.dh \in 1..1023 => q.dh \in 1..1023) /\ (r.dh \in 1..2047 => q.dh \in 1..2047)
  <2> DEFINE a == r.dh  b == q.dh
  <2> SUFFICES (a \in 1..1023 => b \in 1..1023) /\ (a \in 1..2047 => b \in 1..2047)
    OBVIOUS
  <2>1. a \in Groups /\ b \in Groups /\ (a # Undefined => b # Undefined /\ b <= a)
    BY <1>3
  <2> HIDE DEF a, b
  <2> QED
    BY <1>4, <2>1
<1>6. PICK n \in r.suites \cap q.suites : n.right.cipher = "RC4" \/ Exchange(n)[1] \in {"DHE", "ECDHE"}
  BY <1>2 DEF Seen
<1>7. \A m \in r.suites : m \in q.suites \/ m = Latest
  BY <1>2 DEF Seen
<1>8. Latest.left = "TLS13" /\ ~Latest.export /\ Latest.right.cipher = "AES"
  BY GoodSuites
<1>9. \E m \in r.suites : m.right.cipher # "RC4"
  <2>1. PICK d \in Described(r) : d.encryption # "RC4"
    BY DEF r
  <2>2. PICK m \in r.suites : d = Describe(m).suite
    BY <2>1 DEF Described
  <2>3. m.right.cipher # "RC4"
    BY <2>1, <2>2, DescribeSays
  <2> QED
    BY <2>2, <2>3
<1>10. ASSUME CodeF(s, r) PROVE CodeF(t, q)
  <2> DEFINE exported(x) == \E m \in x.suites : m.export
             clear(x) == \E m \in x.suites : m.right.cipher = "NULL" \/ m.left \in {"DH_anon", "ECDH_anon", "SRP_SHA"}
             onlyRc4(x) == x.suites # {} /\ ~\E m \in x.suites : m.right.cipher # "RC4"
             small(x) == x.dh \in 1..1023
  <2>1. CodeF(s, r) <=> s.ssl2 \/ s.secureRenegotiation = "false" \/ small(r) \/ exported(r) \/ clear(r) \/ onlyRc4(r)
    BY DEF CodeF, IsF, Some
  <2>2. CodeF(t, q) <=> t.ssl2 \/ t.secureRenegotiation = "false" \/ small(q) \/ exported(q) \/ clear(q) \/ onlyRc4(q)
    BY DEF CodeF, IsF, Some
  <2>3. small(r) => small(q)
    BY <1>5
  <2>4. exported(r) => exported(q)
    BY <1>7, <1>8
  <2>5. clear(r) => clear(q)
    BY <1>7, <1>8
  <2>6. ~onlyRc4(r)
    BY <1>9
  <2>7. (s.ssl2 => t.ssl2) /\ (s.secureRenegotiation = "false" => t.secureRenegotiation = "false")
    BY <1>1 DEF SpokenSinks, FacetsSink
  <2> HIDE DEF exported, clear, onlyRc4, small
  <2> QED
    BY <1>10, <2>1, <2>2, <2>3, <2>4, <2>5, <2>6, <2>7
<1>11. ASSUME CodeC(s, r) PROVE CodeC(t, q)
  <2> DEFINE short(x) == \E m \in x.suites : m.right.cipher \in {"DES40", "DES", "3DES", "IDEA"}
  <2>1. CodeC(s, r) <=> \/ s.compression = "true" \/ "SSL 3.0" \in s.protocols \/ short(r)
                      \/ s.protocols \cap {"TLS 1.2", "TLS 1.3"} = {}
    BY DEF CodeC, IsC, Some
  <2>2. CodeC(t, q) <=> \/ t.compression = "true" \/ "SSL 3.0" \in t.protocols \/ short(q)
                      \/ t.protocols \cap {"TLS 1.2", "TLS 1.3"} = {}
    BY DEF CodeC, IsC, Some
  <2>3. short(r) => short(q)
    BY <1>7, <1>8
  <2>4. s.compression = "true" => t.compression = "true"
    BY <1>1 DEF FacetsSink
  <2>5. "SSL 3.0" \in s.protocols => "SSL 3.0" \in t.protocols
    BY <1>1 DEF SpokenSinks
  <2>6. s.protocols \cap {"TLS 1.2", "TLS 1.3"} = {} => t.protocols \cap {"TLS 1.2", "TLS 1.3"} = {}
    <3>1. SUFFICES ASSUME s.protocols \cap {"TLS 1.2", "TLS 1.3"} = {}
                   PROVE  t.protocols \cap {"TLS 1.2", "TLS 1.3"} = {}
      OBVIOUS
    <3>2. "TLS 1.0" \in s.protocols
      BY <3>1 DEF Began, BeganModern, BeganOld
    <3> QED
      BY <1>1, <3>1, <3>2, OlderThan DEF SpokenSinks
  <2> HIDE DEF short
  <2> QED
    BY <1>11, <2>1, <2>2, <2>3, <2>4, <2>5, <2>6
<1>12. ASSUME IsB(s, r) PROVE IsB(t, q)
  <2> DEFINE rc4(x)   == \E m \in x.suites : m.right.cipher = "RC4"
             noPfs(x) == x.suites # {} /\ ~\E m \in x.suites : Exchange(m)[1] \in {"DHE", "ECDHE"}
             small(x) == x.dh \in 1..2047
             early(x) == x.protocols \cap {"TLS 1.0", "TLS 1.1"} # {}
  <2>1. IsB(s, r) <=> rc4(r) \/ small(r) \/ noPfs(r) \/ early(s)
    BY DEF IsB, Some
  <2>2. IsB(t, q) <=> rc4(q) \/ small(q) \/ noPfs(q) \/ early(t)
    BY DEF IsB, Some
  <2>3. rc4(r) => rc4(q)
    BY <1>7, <1>8
  <2>4. small(r) => small(q)
    BY <1>5
  <2>5. noPfs(r) => rc4(q)
    BY <1>6
  <2>6. early(s) => early(t)
    BY <1>1 DEF SpokenSinks
  <2> HIDE DEF rc4, noPfs, small, early
  <2> QED
    BY <1>12, <2>1, <2>2, <2>3, <2>4, <2>5, <2>6
<1> QED
  BY <1>10, <1>11, <1>12 DEF r, q

\* A lower score has no better letter.
LEMMA AllRanks ==
  /\ Rank["A_plus"] = 0 /\ Rank["A"] = 1 /\ Rank["A_minus"] = 2 /\ Rank["B"] = 3 /\ Rank["C"] = 4
  /\ Rank["D"] = 5 /\ Rank["E"] = 6 /\ Rank["F"] = 7 /\ Rank["T"] = 8 /\ Rank["M"] = 9
  BY DEF Rank

LEMMA LetterSinks ==
  ASSUME NEW a \in Nat, NEW b \in Nat, b <= a
  PROVE  Rank[LetterFor(a)] <= Rank[LetterFor(b)]
<1>1. ASSUME NEW n \in Nat
      PROVE  LetterFor(n) = IF n >= 80 THEN "A" ELSE IF n >= 65 THEN "B" ELSE IF n >= 50 THEN "C"
                            ELSE IF n >= 35 THEN "D" ELSE IF n >= 20 THEN "E" ELSE "F"
  <2>1. /\ n \in 65..79 <=> n >= 65 /\ n < 80
        /\ n \in 50..64 <=> n >= 50 /\ n < 65
        /\ n \in 35..49 <=> n >= 35 /\ n < 50
        /\ n \in 20..34 <=> n >= 20 /\ n < 35
    OBVIOUS
  <2> QED
    BY <2>1 DEF LetterFor
<1> DEFINE A == Rank["A"]  B == Rank["B"]  C == Rank["C"]  D == Rank["D"]  E == Rank["E"]  F == Rank["F"]
<1>2. A = 1 /\ B = 3 /\ C = 4 /\ D = 5 /\ E = 6 /\ F = 7
  BY AllRanks
<1>3. ASSUME NEW n \in Nat
      PROVE  Rank[LetterFor(n)] = IF n >= 80 THEN A ELSE IF n >= 65 THEN B ELSE IF n >= 50 THEN C
                                  ELSE IF n >= 35 THEN D ELSE IF n >= 20 THEN E ELSE F
  BY <1>1
<1> HIDE DEF A, B, C, D, E, F
<1> DEFINE x == Rank[LetterFor(a)]  y == Rank[LetterFor(b)]
<1>4. /\ x = IF a >= 80 THEN A ELSE IF a >= 65 THEN B ELSE IF a >= 50 THEN C
             ELSE IF a >= 35 THEN D ELSE IF a >= 20 THEN E ELSE F
      /\ y = IF b >= 80 THEN A ELSE IF b >= 65 THEN B ELSE IF b >= 50 THEN C
             ELSE IF b >= 35 THEN D ELSE IF b >= 20 THEN E ELSE F
  BY <1>3
<1> HIDE DEF x, y
<1>5. x <= y
  BY <1>2, <1>4
<1> QED
  BY <1>5 DEF x, y

\* The worst of letters, of which another set has something as bad as each.
LEMMA WorstSinks ==
  ASSUME NEW K, NEW L, K \subseteq Letters, L \subseteq Letters, K # {}, L # {},
         \A k \in K : \E l \in L : Rank[k] <= Rank[l]
  PROVE  /\ Worst(K) \in Letters /\ Worst(L) \in Letters
         /\ Rank[Worst(K)] <= Rank[Worst(L)]
<1>1. Worst(K) \in K /\ Worst(L) \in L /\ \A l \in L : Rank[l] <= Rank[Worst(L)]
  BY WorstOfLetters
<1>2. PICK l \in L : Rank[Worst(K)] <= Rank[l]
  BY <1>1
<1>3. Rank[l] <= Rank[Worst(L)]
  BY <1>1
<1>4. \A k \in Letters : Rank[k] \in {1, 3, 4, 5, 6, 7, 8}
  BY AllRanks DEF Letters
<1> DEFINE x == Rank[Worst(K)]  y == Rank[l]  z == Rank[Worst(L)]
<1>5. x \in {1, 3, 4, 5, 6, 7, 8} /\ y \in {1, 3, 4, 5, 6, 7, 8} /\ z \in {1, 3, 4, 5, 6, 7, 8}
  BY <1>1, <1>4
<1>6. x <= y /\ y <= z
  BY <1>2, <1>3
<1> HIDE DEF x, y, z
<1>7. x <= z
  BY <1>5, <1>6
<1> QED
  BY <1>1, <1>7 DEF x, z

LEMMA LowestSinks ==
  ASSUME NEW s \in Sites, NEW t, Sinks(s, t), Began(s), ~s.incomplete, ~t.incomplete,
         Assemble(s).cert.leaf, Assemble(t).cert.leaf,
         \E d \in Described(Assemble(s)) : d.encryption # "RC4"
  PROVE  LET k == CodeLowest(s, Assemble(s))
             l == CodeLowest(t, Assemble(t))
         IN /\ k \in Letters /\ l \in Letters /\ Rank[k] <= Rank[l]
            /\ CodeC(t, Assemble(t)) => l # "A"
<1> DEFINE r == Assemble(s)
           q == Assemble(t)
           fs == CodeF(s, r)  cs == CodeC(s, r)  bs == IsB(s, r)
           ts == r.cert.leaf /\ s.mustStaple /\ s.stapled = "none"
           ft == CodeF(t, q)  ct == CodeC(t, q)  bt == IsB(t, q)
           tt == q.cert.leaf /\ t.mustStaple /\ t.stapled = "none"
           caps(f, c, b, m) == {l \in {"F", "C", "B", "T"} :
                                  \/ l = "F" /\ f
                                  \/ l = "C" /\ c
                                  \/ l = "B" /\ b
                                  \/ l = "T" /\ m}
           ls == LetterFor(Score(r))
           lt == LetterFor(Score(q))
           K == {ls} \cup caps(fs, cs, bs, ts)
           L == {lt} \cup caps(ft, ct, bt, tt)
<1>1. (fs => ft) /\ (cs => ct) /\ (bs => bt)
  BY CapsSink
<1>2. ts => tt
  BY DEF Sinks, FacetsSink
<1>3. Rank[ls] <= Rank[lt]
  <2>1. Score(r) \in Nat /\ Score(q) \in Nat /\ Score(q) <= Score(r)
    BY ScoreSinks
  <2> QED
    BY <2>1, LetterSinks
<1>4. ls \in Letters /\ lt \in Letters
  BY LettersFor DEF Letters
<1>5. CodeLowest(s, r) = Worst(K) /\ CodeLowest(t, q) = Worst(L)
  BY DEF CodeLowest
<1> HIDE DEF fs, cs, bs, ts, ft, ct, bt, tt, ls, lt
<1>6. caps(fs, cs, bs, ts) \subseteq caps(ft, ct, bt, tt)
  BY <1>1, <1>2
<1>7. caps(fs, cs, bs, ts) \subseteq Letters /\ caps(ft, ct, bt, tt) \subseteq Letters
  BY DEF Letters
<1>8. ct => "C" \in caps(ft, ct, bt, tt)
  OBVIOUS
<1> HIDE DEF caps
<1>9. K \subseteq Letters /\ L \subseteq Letters /\ K # {} /\ L # {}
  BY <1>4, <1>7
<1>10. \A k \in Letters : Rank[k] <= Rank[k]
  BY AllRanks DEF Letters
<1>11. \A k \in K : \E l \in L : Rank[k] <= Rank[l]
  BY <1>3, <1>6, <1>7, <1>10
<1>12. Worst(K) \in Letters /\ Worst(L) \in Letters /\ Rank[Worst(K)] <= Rank[Worst(L)]
  BY <1>9, <1>11, WorstSinks
<1>13. ct => Worst(L) # "A"
  <2>1. SUFFICES ASSUME ct PROVE Worst(L) # "A"
    OBVIOUS
  <2>2. "C" \in L
    BY <1>8, <2>1
  <2>3. Rank["C"] <= Rank[Worst(L)]
    BY <1>9, <2>2, WorstOfLetters
  <2> QED
    BY <2>3, AllRanks
<1> QED
  BY <1>5, <1>12, <1>13 DEF r, q, ct


\* What withholds the bonus still does, unless the letter is lower.
LEMMA WithheldSinks ==
  ASSUME NEW s \in Sites, NEW t, Sinks(s, t), Began(s),
         Assemble(s).cert.leaf, Assemble(t).cert.leaf,
         Assemble(s).cert.trusted, Assemble(t).cert.trusted,
         CodeWithheld(s, Assemble(s)), ~CodeC(t, Assemble(t))
  PROVE  CodeWithheld(t, Assemble(t))
<1> DEFINE r == Assemble(s)
           q == Assemble(t)
<1>1. t \in Sites /\ SpokenSinks(s, t) /\ FacetsSink(s, t) /\ ChainSinks(s, t)
  BY DEF Sinks
<1>2. /\ s.chain[1].scts = 0 => t.chain[1].scts = 0
      /\ s.chain[1].days > 398 => t.chain[1].days > 398
      /\ PathTo(t, {Mozilla}) => PathTo(s, {Mozilla})
  BY <1>1, LeavesCompare, ZenonT(60)
<1>3. "TLS 1.3" \notin s.protocols => "TLS 1.3" \notin t.protocols
  <2>1. CASE BeganModern(s)
    BY <1>1, <2>1, OlderThan DEF BeganModern, SpokenSinks
  <2>2. CASE BeganOld(s)
    BY <1>1, <2>2, OlderThan DEF BeganOld, SpokenSinks
  <2> QED
    BY <2>1, <2>2 DEF Began
<1>4. s.compression = "null" => t.compression = "null"
  <2>1. t.compression # "true"
    BY DEF CodeC, IsC
  <2> QED
    BY <1>1, <2>1 DEF FacetsSink
<1>5. /\ s.heartbeat = "true" => t.heartbeat = "true"
      /\ s.clientRenegotiation = "true" => t.clientRenegotiation = "true"
  BY <1>1 DEF FacetsSink
<1> QED
  BY <1>2, <1>3, <1>4, <1>5 DEF CodeWithheld, Withheld

\* Where the letter is published of a leaf that is trusted.
Unnamed(s)  == ~s.named
Doubtful(s) == ~Assemble(s).cert.trusted \/ s.chain[1].subject = s.chain[1].issuer

LEMMA PublishedOf ==
  ASSUME NEW s \in Sites, Assemble(s).cert.leaf, CodeLetter(s, Assemble(s)) # "?"
  PROVE  LET lowest == CodeLowest(s, Assemble(s))
         IN /\ Unnamed(s) => CodeLetter(s, Assemble(s)) = "M"
            /\ ~Unnamed(s) /\ Doubtful(s) => CodeLetter(s, Assemble(s)) = "T"
            /\ ~Unnamed(s) /\ ~Doubtful(s) =>
                 /\ ~s.incomplete
                 /\ CodeLetter(s, Assemble(s)) =
                      IF lowest # "A" THEN lowest
                      ELSE IF CodeWithheld(s, Assemble(s)) THEN "A_minus"
                      ELSE IF s.hsts = "long" THEN "A_plus" ELSE "A"
  BY Zenon DEF CodeLetter, Unnamed, Doubtful

\* Which letters come last.
LEMMA LastRanks ==
  /\ \A g \in Letters \cup {"A_plus", "A_minus", "M"} : Rank[g] <= Rank["M"]
  /\ \A g \in Letters \cup {"A_plus", "A_minus"} : Rank[g] <= Rank["T"]
  /\ \A g \in {"A_plus", "A", "A_minus"} :
       /\ Rank[g] <= Rank["A_minus"]
       /\ \A l \in Letters : l # "A" => Rank[g] <= Rank[l]
  /\ \A l \in Letters : l # "A" => ~(Rank[l] <= Rank["A"])
  /\ Rank["A_plus"] <= Rank["A"] /\ Rank["A"] <= Rank["A"] /\ Rank["A_plus"] <= Rank["A_plus"]
<1> DEFINE R(g) == Rank[g]
           p == R("A_plus")  a == R("A")  m == R("A_minus")  b == R("B")  c == R("C")
           d == R("D")  e == R("E")  f == R("F")  t == R("T")  n == R("M")
<1>1. p = 0 /\ a = 1 /\ m = 2 /\ b = 3 /\ c = 4 /\ d = 5 /\ e = 6 /\ f = 7 /\ t = 8 /\ n = 9
  BY AllRanks
<1>2. /\ \A g \in Letters \cup {"A_plus", "A_minus", "M"} : R(g) \in {p, a, m, b, c, d, e, f, t, n}
      /\ \A g \in Letters \cup {"A_plus", "A_minus"} : R(g) \in {p, a, m, b, c, d, e, f, t}
      /\ \A g \in {"A_plus", "A", "A_minus"} : R(g) \in {p, a, m}
      /\ \A g \in Letters : g # "A" => R(g) \in {b, c, d, e, f, t}
  <2> HIDE DEF R
  <2> QED
    BY DEF Letters, p, a, m, b, c, d, e, f, t, n
<1> HIDE DEF p, a, m, b, c, d, e, f, t, n
<1>3. /\ \A x \in {p, a, m, b, c, d, e, f, t, n} : x <= n
      /\ \A x \in {p, a, m, b, c, d, e, f, t} : x <= t
      /\ \A x \in {p, a, m} : x <= m /\ \A y \in {b, c, d, e, f, t} : x <= y
      /\ \A y \in {b, c, d, e, f, t} : ~(y <= a)
      /\ p <= a /\ a <= a /\ p <= p
  BY <1>1
<1> QED
  BY <1>2, <1>3, Zenon DEF p, a, m, t, n

LEMMA LowestOne ==
  ASSUME NEW s \in Sites, ~s.incomplete PROVE CodeLowest(s, Assemble(s)) \in Letters
  BY LowestLetter, WorstIsCapped

LEMMA LettersSink ==
  ASSUME NEW s \in Sites, NEW t, Sinks(s, t), Began(s),
         Comparable(Assemble(s)), Comparable(Assemble(t))
  PROVE  Rank[Grade(Assemble(s))] <= Rank[Grade(Assemble(t))]
<1> DEFINE r == Assemble(s)
           q == Assemble(t)
           g == CodeLetter(s, r)
           h == CodeLetter(t, q)
           k == CodeLowest(s, r)
           l == CodeLowest(t, q)
<1>1. t \in Sites /\ FacetsSink(s, t) /\ ChainSinks(s, t)
  BY DEF Sinks
<1>2. Grade(r) = g /\ Grade(q) = h
  BY <1>1, SitesGraded
<1>3. /\ r.cert.leaf /\ q.cert.leaf /\ g # "?" /\ h # "?"
      /\ \E d \in Described(r) : d.encryption # "RC4"
  BY <1>2 DEF Comparable
<1>4. /\ Unnamed(s) => g = "M"
      /\ ~Unnamed(s) /\ Doubtful(s) => g = "T"
      /\ ~Unnamed(s) /\ ~Doubtful(s) =>
           /\ ~s.incomplete
           /\ g = IF k # "A" THEN k ELSE IF CodeWithheld(s, r) THEN "A_minus"
                  ELSE IF s.hsts = "long" THEN "A_plus" ELSE "A"
  BY <1>3, PublishedOf
<1>5. /\ Unnamed(t) => h = "M"
      /\ ~Unnamed(t) /\ Doubtful(t) => h = "T"
      /\ ~Unnamed(t) /\ ~Doubtful(t) =>
           /\ ~t.incomplete
           /\ h = IF l # "A" THEN l ELSE IF CodeWithheld(t, q) THEN "A_minus"
                  ELSE IF t.hsts = "long" THEN "A_plus" ELSE "A"
  BY <1>1, <1>3, PublishedOf
<1>6. Unnamed(s) => Unnamed(t)
  BY <1>1 DEF Unnamed, FacetsSink
<1>7. Doubtful(s) => Doubtful(t)
  <2>1. SUFFICES ASSUME Doubtful(s), ~Doubtful(t) PROVE FALSE
    OBVIOUS
  <2>2. q.cert.trusted /\ t.chain[1].subject # t.chain[1].issuer
    BY <2>1 DEF Doubtful
  <2>3. r.cert.trusted
    BY <1>1, <1>3, <2>2, TrustSinks
  <2>4. s.chain[1].subject # s.chain[1].issuer
    BY <1>1, <1>3, <2>2, LeavesCompare
  <2> QED
    BY <2>1, <2>3, <2>4 DEF Doubtful
<1>8. ASSUME ~s.incomplete, ~t.incomplete
      PROVE  /\ k \in Letters /\ l \in Letters /\ Rank[k] <= Rank[l]
             /\ CodeC(t, q) => l # "A"
  BY <1>3, <1>8, LowestSinks
<1>9. ASSUME ~Doubtful(s), ~Doubtful(t), CodeWithheld(s, r), ~CodeC(t, q) PROVE CodeWithheld(t, q)
  BY <1>3, <1>9, WithheldSinks DEF Doubtful
<1>10. t.hsts = "long" => s.hsts = "long"
  BY <1>1 DEF FacetsSink
<1> HIDE DEF r, q, g, h, k, l
<1>11. ~Unnamed(s) /\ ~Doubtful(s) => k \in Letters
  BY <1>4, LowestOne DEF r, k
<1> SUFFICES Rank[g] <= Rank[h]
  BY <1>2 DEF r, q
<1>12. CASE Unnamed(t)
  <2>1. h = "M"
    BY <1>5, <1>12
  <2>2. g \in Letters \cup {"A_plus", "A_minus", "M"}
    BY <1>4, <1>11 DEF Letters
  <2> QED
    BY <2>1, <2>2, LastRanks
<1>13. CASE ~Unnamed(t) /\ Doubtful(t)
  <2>1. h = "T"
    BY <1>5, <1>13
  <2>2. g \in Letters \cup {"A_plus", "A_minus"}
    BY <1>4, <1>6, <1>11, <1>13 DEF Letters
  <2> QED
    BY <2>1, <2>2, LastRanks
<1>14. CASE ~Unnamed(t) /\ ~Doubtful(t)
  <2>1. /\ ~s.incomplete /\ ~t.incomplete
        /\ g = IF k # "A" THEN k ELSE IF CodeWithheld(s, r) THEN "A_minus"
               ELSE IF s.hsts = "long" THEN "A_plus" ELSE "A"
        /\ h = IF l # "A" THEN l ELSE IF CodeWithheld(t, q) THEN "A_minus"
               ELSE IF t.hsts = "long" THEN "A_plus" ELSE "A"
        /\ ~Doubtful(s)
    BY <1>4, <1>5, <1>6, <1>7, <1>14
  <2>2. k \in Letters /\ l \in Letters /\ Rank[k] <= Rank[l] /\ (CodeC(t, q) => l # "A")
    BY <1>8, <2>1
  <2>3. CASE k # "A"
    <3>1. l # "A"
      BY <2>2, <2>3, LastRanks
    <3>2. g = k /\ h = l
      BY <2>1, <2>3, <3>1
    <3> QED
      BY <2>2, <3>2
  <2>4. CASE k = "A" /\ l # "A"
    <3>1. g \in {"A_plus", "A", "A_minus"} /\ h = l
      BY <2>1, <2>4
    <3> QED
      BY <2>2, <2>4, <3>1, LastRanks
  <2>5. CASE k = "A" /\ l = "A"
    <3>1. CodeWithheld(s, r) => CodeWithheld(t, q)
      BY <1>9, <1>14, <2>1, <2>2, <2>5
    <3>2. \/ h = "A_minus" /\ g \in {"A_plus", "A", "A_minus"}
          \/ h = "A" /\ g \in {"A_plus", "A"}
          \/ h = "A_plus" /\ g = "A_plus"
      BY <1>10, <2>1, <2>5, <3>1
    <3> QED
      BY <3>2, LastRanks
  <2> QED
    BY <2>3, <2>4, <2>5
<1> QED
  BY <1>12, <1>13, <1>14

-----------------------------------------------------------------------------
\* Where no rule applies that the README leaves out, the rules are the same.
LEMMA SameRules ==
  ASSUME NEW s \in Sites, ~Unpublished(s, Assemble(s))
  PROVE  CodeLetter(s, Assemble(s)) = Published(s, Assemble(s))
<1> DEFINE r == Assemble(s)
<1>1. CASE s.incomplete
  <2>1. r.cert.leaf => s.named /\ r.cert.trusted /\ s.chain[1].subject # s.chain[1].issuer
    BY <1>1 DEF Unpublished, SelfNamed
  <2> QED
    BY <1>1, <2>1 DEF CodeLetter, Published, Bonus
<1>2. CASE ~s.incomplete
  <2>1. /\ ~(r.suites # {} /\ ~Some(r, LAMBDA n : n.right.cipher # "RC4"))
        /\ s.protocols \cap {"TLS 1.2", "TLS 1.3"} # {} /\ s.compression # "null"
        /\ r.cert.leaf => s.chain[1].subject # s.chain[1].issuer
        /\ ~(r.cert.leaf /\ s.mustStaple /\ s.stapled = "none")
    BY <1>2 DEF Unpublished, SelfNamed
  <2>2. (CodeF(s, r) <=> IsF(s, r)) /\ (CodeC(s, r) <=> IsC(s, r)) /\ (CodeWithheld(s, r) <=> Withheld(s, r))
    BY <2>1 DEF CodeF, CodeC, CodeWithheld
  <2>3. CodeLowest(s, r) = Lowest(s, r)
    <3> DEFINE code == {l \in {"F", "C", "B", "T"} :
                          \/ l = "F" /\ CodeF(s, r)
                          \/ l = "C" /\ CodeC(s, r)
                          \/ l = "B" /\ IsB(s, r)
                          \/ l = "T" /\ r.cert.leaf /\ s.mustStaple /\ s.stapled = "none"}
               readme == {l \in {"F", "C", "B"} :
                            \/ l = "F" /\ IsF(s, r)
                            \/ l = "C" /\ IsC(s, r)
                            \/ l = "B" /\ IsB(s, r)}
    <3>1. code = readme
      BY <2>1, <2>2
    <3> QED
      BY <3>1 DEF CodeLowest, Lowest
  <2> QED
    BY <1>2, <2>1, <2>2, <2>3 DEF CodeLetter, Published, Bonus
<1> QED
  BY <1>1, <1>2

\* Where one applies, it only lowers the letter.
LEMMA HarsherRules ==
  ASSUME NEW s \in Sites, ~s.incomplete
  PROVE  /\ CodeLetter(s, Assemble(s)) \in DOMAIN Rank
         /\ Rank[Published(s, Assemble(s))] <= Rank[CodeLetter(s, Assemble(s))]
<1> DEFINE r == Assemble(s)
           k == Lowest(s, r)
           l == CodeLowest(s, r)
           g == Published(s, r)
           h == CodeLetter(s, r)
           readme == {x \in {"F", "C", "B"} :
                        \/ x = "F" /\ IsF(s, r)
                        \/ x = "C" /\ IsC(s, r)
                        \/ x = "B" /\ IsB(s, r)}
           code == {x \in {"F", "C", "B", "T"} :
                      \/ x = "F" /\ CodeF(s, r)
                      \/ x = "C" /\ CodeC(s, r)
                      \/ x = "B" /\ IsB(s, r)
                      \/ x = "T" /\ r.cert.leaf /\ s.mustStaple /\ s.stapled = "none"}
           K == {LetterFor(Score(r))} \cup readme
           L == {LetterFor(Score(r))} \cup code
<1>1. k \in Letters /\ l \in Letters /\ Rank[k] <= Rank[l]
  <2>1. readme \subseteq code
    BY DEF CodeF, CodeC
  <2>2. code \subseteq Letters /\ LetterFor(Score(r)) \in Letters
    BY LettersFor DEF Letters
  <2>3. k = Worst(K) /\ l = Worst(L)
    BY DEF Lowest, CodeLowest
  <2> HIDE DEF readme, code, k, l, r
  <2>4. K \subseteq Letters /\ L \subseteq Letters /\ K # {} /\ L # {} /\ K \subseteq L
    BY <2>1, <2>2
  <2>5. \A x \in Letters : Rank[x] <= Rank[x]
    BY AllRanks DEF Letters
  <2>6. \A x \in K : \E y \in L : Rank[x] <= Rank[y]
    BY <2>4, <2>5
  <2> HIDE DEF K, L
  <2> QED
    BY <2>3, <2>4, <2>6, WorstSinks
<1>2. Withheld(s, r) => CodeWithheld(s, r)
  BY DEF CodeWithheld
<1>3. /\ r.cert.leaf /\ ~s.named => g = "M" /\ h = "M"
      /\ r.cert.leaf /\ s.named /\ ~r.cert.trusted => g = "T" /\ h = "T"
      /\ (r.cert.leaf => s.named /\ r.cert.trusted) =>
           /\ g = IF k # "A" THEN k ELSE IF Withheld(s, r) THEN "A_minus"
                  ELSE IF s.hsts = "long" THEN "A_plus" ELSE "A"
           /\ h = IF r.cert.leaf /\ s.chain[1].subject = s.chain[1].issuer THEN "T"
                  ELSE IF l # "A" THEN l ELSE IF CodeWithheld(s, r) THEN "A_minus"
                  ELSE IF s.hsts = "long" THEN "A_plus" ELSE "A"
  BY Zenon DEF Published, CodeLetter, Bonus
<1> HIDE DEF r, k, l, g, h, readme, code, K, L
<1>4. h \in DOMAIN Rank
  BY <1>1, <1>3 DEF Rank, Letters
<1> SUFFICES Rank[g] <= Rank[h]
  BY <1>4 DEF g, h, r
<1>5. CASE g = h /\ g \in {"M", "T"}
  BY <1>5, AllRanks
<1>6. CASE r.cert.leaf => s.named /\ r.cert.trusted
  <2>1. CASE h = "T"
    <3>1. g \in Letters \cup {"A_plus", "A_minus"}
      BY <1>1, <1>3, <1>6 DEF Letters
    <3> QED
      BY <2>1, <3>1, LastRanks
  <2>2. CASE h # "T" /\ l # "A"
    <3>1. h = l
      BY <1>3, <1>6, <2>2
    <3>2. g = k \/ g \in {"A_plus", "A", "A_minus"}
      BY <1>3, <1>6
    <3> QED
      BY <1>1, <2>2, <3>1, <3>2, LastRanks
  <2>3. CASE h # "T" /\ l = "A"
    <3>1. k = "A"
      BY <1>1, <2>3, LastRanks
    <3>2. \/ h = "A_minus" /\ g \in {"A_plus", "A", "A_minus"}
          \/ h = "A" /\ g = "A"
          \/ h = "A_plus" /\ g = "A_plus"
      BY <1>2, <1>3, <1>6, <2>3, <3>1
    <3> QED
      BY <3>2, LastRanks
  <2> QED
    BY <2>1, <2>2, <2>3
<1> QED
  BY <1>3, <1>5, <1>6

LEMMA SitesAsPublished == ASSUME NEW s \in Sites PROVE AsPublished(s, Assemble(s))
<1> DEFINE r == Assemble(s)
<1>1. Grade(r) = CodeLetter(s, r)
  BY SitesGraded
<1>2. CASE ~Unpublished(s, r)
  BY <1>1, <1>2, SameRules DEF AsPublished, Allowed
<1>3. CASE Unpublished(s, r) /\ s.incomplete
  <2>1. r.cert.leaf /\ (~s.named \/ ~r.cert.trusted \/ s.chain[1].subject = s.chain[1].issuer)
    BY <1>3 DEF Unpublished, SelfNamed
  <2>2. CodeLetter(s, r) \in {"T", "M"}
    BY <2>1 DEF CodeLetter
  <2> QED
    BY <1>1, <1>3, <2>2 DEF AsPublished, Allowed
<1>4. CASE Unpublished(s, r) /\ ~s.incomplete
  BY <1>1, <1>4, HarsherRules DEF AsPublished, Allowed
<1> QED
  BY <1>2, <1>3, <1>4

(***************************************************************************)
(* However a site gets worse: its letter is the one that README.md:88-113  *)
(* publishes, or, where a rule of grade.js applies that the README leaves  *)
(* out, one that is no better; whatever the order of the caps, the early   *)
(* returns and the bonus (grade.js:144-239).                               *)
(***************************************************************************)
THEOREM LettersArePublished == Spec => []LetterAsPublished
<1>1. SiteInv => LetterAsPublished
  BY SitesAsPublished DEF SiteInv, LetterAsPublished
<1> QED
  BY <1>1, SitesReached, PTL

-----------------------------------------------------------------------------
\* The inductive invariant: until its last change for the worse, a site keeps
\* the version and the suite that it began with.
SinkInv == SiteInv /\ (faults # MaxFaults => Began(site))

LEMMA BeganFirst == \A s \in {Modern, Old, Rc4, Dsa} : Began(s)
<1>1. Modern.protocols = {"TLS 1.2", "TLS 1.3"} /\ Modern.suites = {Latest, Current}
  BY DEF Modern, Latest, Current
<1>2. Began(Modern)
  BY <1>1, VersionSet DEF Began, BeganModern
<1>3. /\ Old.protocols = {"TLS 1.0"} /\ Old.suites = {Suite("ECDHE_RSA", FALSE, CBC)}
      /\ Rc4.protocols = {"TLS 1.0"} /\ Rc4.suites = {Suite("RSA", FALSE, RC4)}
  BY DEF Old, Rc4, Modern
<1>4. Dsa.protocols = {"TLS 1.0"} /\ Dsa.suites = {Suite("DHE_DSS", FALSE, CBC)}
  BY DEF Dsa, Old, Modern
<1>5. ASSUME NEW s, NEW n \in Basic, s.protocols = {"TLS 1.0"}, s.suites = {n} PROVE Began(s)
  BY <1>5 DEF Began, BeganOld
<1>6. Began(Old) /\ Began(Rc4) /\ Began(Dsa)
  BY <1>3, <1>4, <1>5 DEF Basic
<1> QED
  BY <1>2, <1>6

LEMMA SinkStarts == Init => SinkInv
  BY SiteStarts, BeganFirst DEF Init, SinkInv

LEMMA SinkStays == SinkInv /\ [Break]_vars => SinkInv'
<1>1. ASSUME SinkInv, Break PROVE SinkInv'
  <2>1. site \in Sites /\ Began(site)
    BY <1>1, FaultsAssumption DEF SinkInv, SiteInv, Break
  <2>2. Sinks(site, site')
    BY <1>1, <2>1, WorseSinks DEF Break
  <2>3. Began(site')
    BY <2>1, <2>2, BeganStays DEF Sinks
  <2>4. SiteInv'
    BY <1>1, SiteStays DEF SinkInv
  <2> QED
    BY <2>3, <2>4 DEF SinkInv
<1>2. ASSUME SinkInv, UNCHANGED vars PROVE SinkInv'
  BY <1>2 DEF SinkInv, SiteInv, vars
<1> QED
  BY <1>1, <1>2

(***************************************************************************)
(* However often a site got worse, one more facet that gets worse does not *)
(* make its letter better, in whatever order the caps, the early returns   *)
(* and the bonus are applied (grade.js:144-236).                           *)
(***************************************************************************)
THEOREM LettersNeverRise == Spec => NeverBetter
<1>1. SinkInv /\ [Break]_vars => [NotBetter(Assemble(site), Assemble(site'))]_vars
  <2>1. ASSUME SinkInv, Break PROVE NotBetter(Assemble(site), Assemble(site'))
    <3>1. site \in Sites /\ Began(site)
      BY <2>1, FaultsAssumption DEF SinkInv, SiteInv, Break
    <3>2. Sinks(site, site')
      BY <2>1, <3>1, WorseSinks DEF Break
    <3> QED
      BY <3>1, <3>2, LettersSink DEF NotBetter
  <2> QED
    BY <2>1
<1> QED
  BY <1>1, SinkStarts, SinkStays, PTL DEF Spec, NeverBetter
=============================================================================
