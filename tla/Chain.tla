------------------------------- MODULE Chain -------------------------------
(***************************************************************************)
(* Certificate chains: server/cert.js and server/trust.js. A certificate   *)
(* is its names, its key and the key that signed it, and what describe-    *)
(* Certificate says of it; checkIssued compares names, verify compares     *)
(* keys. An anchor is a certificate with the store it is in.               *)
(***************************************************************************)
EXTENDS Integers, Sequences, FiniteSets, FiniteSetsExt, SequencesExt

Mozilla == "mozilla"

Issued(c, by)   == c.issuer = by.subject
Verifies(c, by) == c.signer = by.key
SelfNamed(c)    == c.subject = c.issuer

\* keyStrength, in symmetric bits, and keyVerdict.
KeyStrength(type, bits) ==
  LET Step(table) == Max({t[2] : t \in {u \in table : bits >= u[1]}})
  IN CASE type \in {"rsa", "dsa"} /\ bits < 1024 -> Max({40, (bits + 10) \div 20})
       [] type \in {"rsa", "dsa"} /\ bits >= 1024 ->
            Step({<<15360, 256>>, <<7680, 192>>, <<3072, 128>>, <<2048, 112>>, <<1024, 80>>})
       [] type = "ec" -> Step({<<512, 256>>, <<384, 192>>, <<256, 128>>, <<224, 112>>, <<192, 96>>, <<0, 80>>})
       [] type = "ed25519" -> 128
       [] type = "ed448"   -> 224
       [] OTHER            -> 0

WeakKey(strength) == strength < 112

\* findAnchor: the lowest certificate that an anchor issued, Mozilla's first.
Anchored(chain, anchors) ==
  {m \in (DOMAIN chain) \X (DOMAIN anchors) :
     LET c == chain[m[1]]  a == anchors[m[2]].cert IN Issued(c, a) /\ Verifies(c, a)}

None == [store |-> "none", position |-> 0]

FindAnchor(chain, anchors) ==
  LET found == Anchored(chain, anchors)
      ours  == {m \in found : anchors[m[2]].store = Mozilla}
      all   == IF ours # {} THEN ours ELSE found
      i     == Min({m[1] : m \in all})
  IN IF all = {} THEN None
     ELSE [store |-> anchors[Min({m[2] : m \in {n \in all : n[1] = i}})].store, position |-> i]

If(condition, name) == IF condition THEN {name} ELSE {}

\* Mutant: only the leaf's signature is verified.
SignedLeaf(certs) == Len(certs) > 1 => Verifies(certs[1], certs[2])

\* Every certificate of the list is signed by the next one sent.
Signed(certs) == \A i \in 1..(Len(certs) - 1) : Verifies(certs[i], certs[i + 1])

Ordered(certs) == \A i \in 1..(Len(certs) - 1) : Issued(certs[i], certs[i + 1])

\* The certificates that can be parsed, in the order they were sent.
Parsed(chain) ==
  LET kept   == {i \in DOMAIN chain : ~chain[i].unparsable}
      Nth(n) == CHOOSE i \in kept : Cardinality({j \in kept : j <= i}) = n
  IN [n \in 1..Cardinality(kept) |-> chain[Nth(n)]]

\* analyzeChain. The leaf is the first certificate; later ones that cannot be
\* parsed drop out of the list. named: the host is in the leaf; revoked: the
\* stapled response says so.
Analyze(chain, anchors, named, revoked) ==
  IF chain = <<>> THEN [trusted |-> FALSE, leaf |-> FALSE, issues |-> {"no-certificates"}, store |-> "none"]
  ELSE IF chain[1].unparsable
    THEN [trusted |-> FALSE, leaf |-> FALSE, issues |-> {"unparsable-certificate"}, store |-> "none"]
  ELSE
    LET leaf   == chain[1]
        certs  == Parsed(chain)
        anchor == FindAnchor(certs, anchors)
        problems ==
          If(~Ordered(certs), "chain-out-of-order")
          \cup If(Len(certs) > 1 /\ SelfNamed(Last(certs)), "root-included")
          \cup If(anchor = None, "incomplete-chain")
          \cup If(anchor.store \notin {"none", Mozilla}, "trusted-by-extra-root")
          \cup If(~Signed(certs), "bad-signature")
          \cup If(leaf.date = "past", "expired")
          \cup If(leaf.date = "future", "not-yet-valid")
          \cup If(\E i \in 2..Len(certs) : certs[i].date = "past", "expired-intermediate")
          \cup If(~named, "hostname-mismatch")
          \cup If(WeakKey(leaf.strength), "weak-key")
          \cup If(\E c \in ToSet(certs) : c.weakSignature /\ ~SelfNamed(c), "weak-signature-algorithm")
          \cup If(SelfNamed(leaf), "self-signed")
          \cup If(leaf.days > 398, "over-long-validity")
          \cup If(leaf.scts = 0, "no-sct")
          \cup If(revoked, "revoked")
        trusted == anchor # None /\ problems \cap {"expired", "not-yet-valid", "bad-signature", "revoked"} = {}
    IN [trusted |-> trusted, leaf |-> TRUE, store |-> anchor.store,
        issues |-> problems \cup If(~trusted, "not-trusted")]
=============================================================================
