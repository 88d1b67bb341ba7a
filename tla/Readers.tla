------------------------------ MODULE Readers ------------------------------
(***************************************************************************)
(* What a server or a visitor may send, built up step by step and encoded  *)
(* as its standard says (X.690, RFC 5280, 6960, 6962, 5246 and 8446), and  *)
(* read back by the readers of asn1.js, tls-probe.js and scan.js.          *)
(***************************************************************************)
EXTENDS Der, Hello, Target

CONSTANTS MaxSteps,                \* bounds: by which a document or a text grows,
          MaxPieces                \* and by which a tree does

ASSUME StepsAssumption == MaxSteps \in Nat /\ MaxPieces \in Nat

VARIABLES doc, steps
readersVars == <<doc, steps>>
-----------------------------------------------------------------------------
\* Big-endian numbers, and a length in front of its content.
N2(n) == <<n \div 256, n % 256>>
N3(n) == <<n \div 65536>> \o N2(n % 65536)
P1(b) == <<Len(b)>> \o b
P2(b) == N2(Len(b)) \o b
P3(b) == N3(Len(b)) \o b
Bytes(n) == [i \in 1..n |-> 5]

\* What a list with two or three bytes of length can hold.
Max2 == 65535
Max3 == 16777215

\* A TLV, with its length in the shortest form.
LengthOctets(n) ==
  IF n < 128 THEN <<n>> ELSE IF n < 256 THEN <<129, n>>
  ELSE IF n <= Max2 THEN <<130>> \o N2(n) ELSE <<131>> \o N3(n)

TLV(tag, content) == <<tag>> \o LengthOctets(Len(content)) \o content

\* Pieces of DER with the nodes that they show, in the order of the document.
Piece(bytes, nodes) == [bytes |-> bytes, nodes |-> nodes]
Empty == Piece(<<>>, <<>>)
Beside(p, q) == Piece(p.bytes \o q.bytes, p.nodes \o q.nodes)
Primitive(tag, content) == Piece(TLV(tag, content), <<[tag |-> tag, content |-> content]>>)
Node(tag, inner) ==
  Piece(TLV(tag, inner.bytes), <<[tag |-> tag, content |-> inner.bytes]>> \o inner.nodes)

\* So many can be told apart by the last number of an OID of one byte each.
MaxOids == 127

Oid(n) == Primitive(OID, <<85, 29, n>>)
\* A node that is open, with what it holds so far, so many levels at most.
Opened == [inner |-> Empty, levels |-> 1]

Leaves == {Oid(1), Primitive(OctetString, Bytes(130)), Primitive(5, <<>>)}

\* A list of timestamps and a key usage, as an extension holds them.
SctList(list) == TLV(OctetString, P2(list))

UsageBits(usage) ==
  LET Bit(n)       == IF n \in usage THEN Mask(n) ELSE 0
      first        == Bit(0) + Bit(1) + Bit(2) + Bit(3) + Bit(4) + Bit(5) + Bit(6) + Bit(7)
  IN TLV(BitString, IF 8 \in usage THEN <<7, first, Bit(8)>> ELSE <<0, first>>)

\* The n-th extension of a certificate, and the certificate around them.
ExtensionOf(n, e) ==
  LET value == Primitive(OctetString, e.value)
      flag  == Primitive(Boolean, IF e.critical = "yes" THEN <<255>> ELSE <<0>>)
  IN Node(Sequence, Beside(Oid(n), IF e.critical = "absent" THEN value ELSE Beside(flag, value)))

CertificateOf(d) ==
  LET tbs == Beside(Primitive(2, Bytes(1)), Node(Sequence, Oid(99)))
      all == Node(ExtensionsField, Node(Sequence, d.list))
  IN Node(Sequence, Beside(Node(Sequence, IF d.extensions = <<>> THEN tbs ELSE Beside(tbs, all)),
                           Beside(Node(Sequence, Oid(98)), Primitive(BitString, Bytes(9))))).bytes

\* A basic OCSP response for one certificate.
OcspOf(status, responder) ==
  LET certId == Node(Sequence, Beside(Node(Sequence, Oid(26)),
                       Beside(Primitive(OctetString, Bytes(20)),
                         Beside(Primitive(OctetString, Bytes(20)), Primitive(2, Bytes(16))))))
      time   == Primitive(24, Bytes(15))
      given  == CASE status = "good"    -> Primitive(128, <<>>)
                  [] status = "revoked" -> Node(161, time)
                  [] status = "unknown" -> Primitive(130, <<>>)
      single == Node(Sequence, Beside(certId, Beside(given, Beside(time, time))))
      tbs    == Node(Sequence, Beside(IF responder = "name" THEN Node(161, Node(Sequence, Oid(3)))
                                      ELSE Node(162, Primitive(OctetString, Bytes(20))),
                                 Beside(time, Node(Sequence, single))))
      basic  == Node(Sequence, Beside(tbs, Beside(Node(Sequence, Oid(11)), Primitive(BitString, Bytes(65)))))
  IN Node(Sequence, Beside(Primitive(10, <<0>>),
       Node(160, Node(Sequence, Beside(Oid(1), Primitive(OctetString, basic.bytes)))))).bytes

\* ServerHello, Certificate and ServerKeyExchange.
HelloOf(d) ==
  N2(771) \o (IF d.retry THEN RetryRandom ELSE Bytes(32)) \o P1(Bytes(d.session)) \o N2(4865) \o <<0>>
  \o (IF d.extensions = <<>> THEN <<>> ELSE P2(d.list))

EntryOf(tls13, cert) ==
  P3(cert) \o IF tls13 THEN P2(IF Len(cert) = 1 THEN N2(5) \o P2(<<>>) ELSE <<>>) ELSE <<>>

CertificatesOf(d) == (IF d.tls13 THEN P1(<<>>) ELSE <<>>) \o P3(d.list)

\* The anonymous exchanges, ECDH and DH, are sent without a signature, and only
\* from TLS 1.2 on does a signature name its algorithm.
Curved(kx) == kx \in {"ECDHE", "ECDH"}
Signed(kx) == kx \in {"ECDHE", "DHE"}

Trailer(signed, named) ==
  IF signed THEN (IF named THEN N2(1027) ELSE <<>>) \o P2(Bytes(4)) ELSE <<>>

KeyExchangeOf(d) ==
  (IF Curved(d.kx) THEN <<3>> \o N2(29) \o P1(Bytes(d.size))
   ELSE P2([i \in 1..d.zeros |-> 0] \o Bytes(d.size)) \o P2(<<2>>) \o P2(Bytes(d.size)))
  \o Trailer(Signed(d.kx), d.named)
-----------------------------------------------------------------------------
HelloItem(e) == N2(e.type) \o P2(e.data)

HelloExtensions ==
  {[type |-> RenegotiationInfo, data |-> <<0>>], [type |-> Heartbeat, data |-> <<1>>],
   [type |-> Alpn, data |-> <<0, 3, 2, 104, 50>>], [type |-> SupportedVersions, data |-> <<3, 4>>],
   [type |-> KeyShare, data |-> N2(29) \o P2(Bytes(2))]}

CertificateExtensions ==
  [critical : {"absent", "no", "yes"},
   value : {SctList(P2(Bytes(119))), UsageBits({0, 5}), TLV(Sequence, Bytes(130)), <<>>}]

Hosts == {<<h>> : h \in Names \cup Addresses} \cup {<<"2001", "db8", "", "1">>}

ReadersInit ==
  /\ steps = 0
  /\ doc \in [kind : {"tree"}, open : {<<Opened>>}]
       \cup [kind : {"certificate"}, extensions : {<<>>}, list : {Empty}]
       \cup [kind : {"scts"}, count : {0}, list : {<<>>}]
       \cup [kind : {"usage"}, usage : SUBSET (0..8)]
       \cup [kind : {"ocsp"}, status : {"good", "revoked", "unknown"}, responder : {"name", "key"}]
       \cup [kind : {"hello"}, retry : BOOLEAN, session : {0, 32}, extensions : {<<>>}, list : {<<>>}]
       \cup [kind : {"certificates"}, tls13 : BOOLEAN, certs : {<<>>}, list : {<<>>}]
       \cup [kind : {"exchange"}, kx : {"ECDHE", "ECDH", "DHE", "DH"}, named : BOOLEAN, zeros : 0..2, size : {1, 32, 255}]
       \cup [kind : {"text"}, query : {443, 8443},
             text : [scheme : BOOLEAN, bracketed : BOOLEAN, pieces : Hosts, digits : {Unset}]]

Grow(kind, next) ==
  /\ doc.kind = kind /\ steps < IF kind = "tree" THEN MaxPieces ELSE MaxSteps
  /\ steps' = steps + 1 /\ doc' = next

\* A piece of so many levels, behind what the innermost open node holds. That
\* is no longer than a TLS message.
Put(open, piece, levels) ==
  LET node  == Last(open)
      inner == Beside(node.inner, piece)
      most  == IF levels > node.levels THEN levels ELSE node.levels
  IN /\ Len(inner.bytes) <= Max3
     /\ Grow("tree", [doc EXCEPT !.open = [open EXCEPT ![Len(open)] = [inner |-> inner, levels |-> most]]])

\* Trees of every shape down to MAX_DEPTH, in the order of the document: a node
\* is opened in another, a leaf is put into it, and it is closed, or enclosed in
\* an OCTET STRING, which hides what it holds.
GrowTree ==
  /\ doc.kind = "tree"
  /\ \/ Grow("tree", [doc EXCEPT !.open = Append(@, Opened)])
     \/ \E l \in Leaves : Put(doc.open, l, 1)
     \/ LET node == Last(doc.open)
            rest == Front(doc.open)
        IN /\ rest # <<>>
           /\ \/ \E tag \in {Sequence, ExtensionsField} :
                   node.levels < MaxDepth /\ Put(rest, Node(tag, node.inner), node.levels + 1)
              \/ Put(rest, Primitive(OctetString, node.inner.bytes), 1)

AddExtension ==
  \/ \E e \in CertificateExtensions :
       /\ doc.kind = "certificate" /\ Len(doc.extensions) < MaxOids
       /\ LET next == [doc EXCEPT !.extensions = Append(@, e),
                                  !.list = Beside(@, ExtensionOf(Len(doc.extensions) + 1, e))]
          IN Len(CertificateOf(next)) <= Max3 /\ Grow("certificate", next)
  \/ \E e \in HelloExtensions :
       /\ doc.kind = "hello" /\ e \notin ToSet(doc.extensions)
       /\ LET list == doc.list \o HelloItem(e)
          IN Len(list) <= Max2 /\ Grow("hello", [doc EXCEPT !.extensions = Append(@, e), !.list = list])

AddEntry ==
  \/ \E n \in {0, 7, 119} :
       /\ doc.kind = "scts"
       /\ LET list == doc.list \o P2(Bytes(n))
          IN Len(list) <= Max2 - 2 /\ Grow("scts", [doc EXCEPT !.count = @ + 1, !.list = list])
  \/ \E n \in {1, 2, 300} :
       /\ doc.kind = "certificates"
       /\ LET list == doc.list \o EntryOf(doc.tls13, Bytes(n))
          IN Len(list) <= Max3 /\ Grow("certificates", [doc EXCEPT !.certs = Append(@, Bytes(n)), !.list = list])

\* Another piece behind a colon, or a port behind the brackets.
AddPiece ==
  \E p \in DOMAIN Number :
    doc.kind = "text" /\ Grow("text", IF doc.text.bracketed THEN [doc EXCEPT !.text.digits = Number[p]]
                                      ELSE [doc EXCEPT !.text.pieces = Append(@, p)])

ReadersNext == GrowTree \/ AddExtension \/ AddEntry \/ AddPiece

ReadersSpec == ReadersInit /\ [][ReadersNext]_readersVars
-----------------------------------------------------------------------------
Cut(b, n) == SubSeq(b, 1, n)

TreeReadsBack(t) ==
  /\ Visited(t.bytes) = t.nodes
  /\ CollectOids(t.bytes) = LET oids == SelectSeq(t.nodes, LAMBDA n : n.tag = OID)
                            IN [i \in DOMAIN oids |-> oids[i].content]
  /\ \A n \in 0..(Len(t.bytes) - 1) : ReadTlv(Cut(t.bytes, n), 0) = Nothing

\* What an open node holds, were it closed, enclosed, or cut within.
NodeReadsBack(p) ==
  /\ TreeReadsBack(Node(Sequence, p)) /\ TreeReadsBack(Primitive(OctetString, p.bytes))
  /\ \A n \in 0..(Len(p.bytes) - 1) :
       LET seen == Visited(TLV(Sequence, Cut(p.bytes, n)))
       IN seen # <<>> /\ IsPrefix(Tail(seen), p.nodes)

CertificateReadsBack(d) ==
  Extensions(CertificateOf(d)) =
    [o \in {<<85, 29, n>> : n \in DOMAIN d.extensions} |->
       [critical |-> d.extensions[o[3]].critical = "yes", value |-> d.extensions[o[3]].value]]

HelloReadsBack(d) ==
  LET got  == ParseServerHello(HelloOf(d))
      sent == {d.extensions[k].type : k \in DOMAIN d.extensions}
  IN /\ got.version = IF SupportedVersions \in sent THEN 772 ELSE 771
     /\ got.cipher = 4865 /\ got.retry = d.retry /\ got.extensions = sent
     /\ got.alpn = IF Alpn \in sent THEN <<104, 50>> ELSE <<>>
     /\ got.group = IF KeyShare \in sent THEN 29 ELSE Absent

CertificatesReadBack(d) ==
  LET b == CertificatesOf(d)
  IN /\ ParseCertificates(b, d.tls13) = d.certs
     /\ \A n \in 4..(Len(b) - 1) : IsPrefix(ParseCertificates(Cut(b, n), d.tls13), d.certs)

\* A tree of DER, whatever its shape, is read node by node, enclosed ones
\* unread. One that was cut short is refused (test/units.test.js:128), and a
\* node whose content ends within a child is read up to that child. A
\* certificate gives its extensions, a list of timestamps their number and a
\* key usage its bits.
DocumentsReadBack ==
  CASE doc.kind = "tree"        -> NodeReadsBack(Last(doc.open).inner)
    [] doc.kind = "certificate" -> CertificateReadsBack(doc)
    [] doc.kind = "scts"        -> CountSct(SctList(doc.list)) = IF doc.count > 65 THEN 65 ELSE doc.count
    [] doc.kind = "usage"       -> KeyUsage(UsageBits(doc.usage)) = doc.usage
    [] OTHER -> TRUE

\* A hello, a chain and a key exchange are read as what they say, whatever a
\* hello's extensions and their order; a chain that was cut short, up to the cut.
MessagesReadBack ==
  CASE doc.kind = "hello"        -> HelloReadsBack(doc)
    [] doc.kind = "certificates" -> CertificatesReadBack(doc)
    [] doc.kind = "exchange"     ->
         ParseServerKeyExchange(KeyExchangeOf(doc), doc.kx, doc.named)
           = [group |-> IF Curved(doc.kx) THEN 29 ELSE Absent,
              dhBits |-> IF Curved(doc.kx) THEN Absent ELSE 8 * doc.size,
              signature |-> IF Signed(doc.kx) /\ doc.named THEN 1027 ELSE Absent]
    [] OTHER -> TRUE

\* What was encoded is what is read, of documents and of messages.
ReadsBack == DocumentsReadBack /\ MessagesReadBack

\* The label under which a target is stored and shared is read as that target,
\* with a port in it whatever the query says, and so no two of these targets
\* share one (server/index.js:33, 41-47). An IPv6 address at another port than
\* 443 is left out: its label, without brackets, is the text of a longer
\* address (LabelsAreApart).
LabelIsOwn ==
  doc.kind = "text" =>
    LET target == ParseTarget(doc.text, doc.query)
    IN \/ "error" \in DOMAIN target
       \/ IsIPv6(target.host) /\ target.port # 443
       \/ \A query \in AllowedPorts :
            (target.port # 443 \/ query = 443) => ParseTarget(PathLabel(target), query) = target

\* "Two ports on one name are two different servers and must not share a
\* report" (server/index.js:19), the label being the key of the store: what a
\* label is read as has that label only when it is the target.
LabelsAreApart ==
  doc.kind = "text" =>
    LET target == ParseTarget(doc.text, doc.query)
        other  == ParseTarget(PathLabel(target), 443)
    IN \/ "error" \in DOMAIN target
       \/ "error" \in DOMAIN other
       \/ other # target => PathLabel(other) # PathLabel(target)

\* "Reads the parts of a stapled OCSP response that matter: was the answer
\* usable, is the certificate good or revoked, and how fresh" (asn1.js:198).
OcspStatusIsRead ==
  doc.kind = "ocsp" => OcspStatus(OcspOf(doc.status, doc.responder)) = doc.status
=============================================================================
