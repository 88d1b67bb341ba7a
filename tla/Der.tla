-------------------------------- MODULE Der ---------------------------------
(***************************************************************************)
(* The DER reader of server/asn1.js, over a Buffer. Lengths are what << and *)
(* | make of them: 32 bits with a sign.                                    *)
(***************************************************************************)
EXTENDS Buffers, SequencesExt

Nothing == [tag |-> -1]

OID == 6  OctetString == 4  Boolean == 1  BitString == 3  Sequence == 48  ExtensionsField == 163

Constructed(tag) == (tag \div 32) % 2 = 1

\* (length << 8) | byte
Shifted(length, byte) ==
  LET low == length % 16777216
  IN (IF low >= 8388608 THEN low - 16777216 ELSE low) * 256 + byte

\* The length in the count bytes from offset i.
LongLength(buf, i, count) ==
  LET length[k \in 0..4] == IF k = 0 THEN 0 ELSE Shifted(length[k - 1], U8(buf, i + k - 1))
  IN length[count]

Tlv(buf, tag, start, length) ==
  IF start + length > Len(buf) THEN Nothing
  ELSE [tag |-> tag, from |-> start, end |-> start + length]

\* Mutant: the first byte after the tag is the length.
ReadTlvShort(buf, offset) ==
  IF offset + 2 > Len(buf) THEN Nothing
  ELSE Tlv(buf, U8(buf, offset), offset + 2, U8(buf, offset + 1))

ReadTlv(buf, offset) ==
  IF offset + 2 > Len(buf) THEN Nothing
  ELSE LET tag   == U8(buf, offset)
           first == U8(buf, offset + 1)
           count == first - 128
       IN IF first < 128 THEN Tlv(buf, tag, offset + 2, first)
          ELSE IF count = 0 \/ count > 4 \/ offset + 2 + count > Len(buf) THEN Nothing
          ELSE Tlv(buf, tag, offset + 2 + count, LongLength(buf, offset + 2, count))

Content(buf, tlv) == SubSeq(buf, tlv.from + 1, tlv.end)

\* childrenOf: what can be read up to the end of the parent.
Children(buf, tlv) ==
  LET whole == {i \in 0..(tlv.end - 1) : ReadTlv(buf, i) # Nothing}
      stops == Stops(buf, [i \in whole |-> ReadTlv(buf, i).end], tlv.from)
  IN [k \in DOMAIN stops |-> ReadTlv(buf, stops[k])]

\* walk: every node in document order, down to MAX_DEPTH. Of a node with so
\* many levels left the visits are those of all below it.
MaxDepth == 24
Tlvs == [tag : Nat, from : Nat, end : Int]

Visits(buf) ==
  LET visits[left \in 0..(MaxDepth + 1)] ==
        [tlv \in Tlvs |->
           LET kids == IF Constructed(tlv.tag) THEN Children(buf, tlv) ELSE <<>>
           IN IF left = 0 THEN <<>>
              ELSE <<tlv>> \o FlattenSeq([k \in DOMAIN kids |-> visits[left - 1][kids[k]]])]
  IN visits

Walk(buf) ==
  LET top == ReadTlv(buf, 0)
  IN IF top = Nothing THEN <<>> ELSE Visits(buf)[MaxDepth + 1][top]

\* What a visitor sees of each.
Visited(buf) ==
  LET nodes == Walk(buf)
  IN [k \in DOMAIN nodes |-> [tag |-> nodes[k].tag, content |-> Content(buf, nodes[k])]]

\* collectOids, without the decoding.
CollectOids(buf) ==
  LET oids == SelectSeq(Visited(buf), LAMBDA n : n.tag = OID)
  IN [i \in DOMAIN oids |-> oids[i].content]

\* parseCertificate and certificateExtensions: the last of each name.
Tbs(der) ==
  LET top == ReadTlv(der, 0)
  IN IF top = Nothing THEN Nothing
     ELSE IF top.tag # Sequence \/ Len(Children(der, top)) < 2 THEN Nothing
     ELSE Children(der, top)[1]

Extension(der, parts) ==
  [critical |-> Len(parts) = 3 /\ U8(der, parts[2].from) # 0, value |-> Content(der, Last(parts))]

\* Of the parts of each extension, those that begin with a name.
LastOfEachName(der, parts) ==
  LET named == {k \in DOMAIN parts : parts[k] # <<>> /\ parts[k][1].tag = OID}
      oid   == [k \in named |-> Content(der, parts[k][1])]
  IN [o \in {oid[k] : k \in named} |->
        Extension(der, parts[CHOOSE k \in named : oid[k] = o /\ \A j \in named : oid[j] = o => j <= k])]

Extensions(der) ==
  LET fields == IF Tbs(der) = Nothing THEN <<>> ELSE Children(der, Tbs(der))
      field  == SelectInSeq(fields, LAMBDA f : f.tag = ExtensionsField)
      lists  == IF field = 0 THEN <<>> ELSE Children(der, fields[field])
      each   == IF lists = <<>> THEN <<>> ELSE Children(der, lists[1])
  IN LastOfEachName(der, [k \in DOMAIN each |-> Children(der, each[k])])

\* countSct: entries of two length bytes each, in a list of the same kind; the
\* count goes no further than 65.
CountSct(value) ==
  LET outer == ReadTlv(value, 0)
      list  == IF outer = Nothing THEN <<>> ELSE Content(value, outer)
      total == 2 + U16(list, 0)
      end   == IF total < Len(list) THEN total ELSE Len(list)
      count == Len(Stops(list, [i \in {i \in 0..end : i + 2 <= end} |-> i + 2 + U16(list, i)], 2))
  IN IF Len(list) < 2 \/ outer.tag # OctetString THEN 0 ELSE IF count > 65 THEN 65 ELSE count

\* decodeKeyUsage: the numbers of the bits that are set.
Mask(bit) == <<128, 64, 32, 16, 8, 4, 2, 1>>[(bit % 8) + 1]

KeyUsage(value) ==
  LET tlv  == ReadTlv(value, 0)
      bits == SubSeq(value, tlv.from + 2, tlv.end)
  IN IF tlv = Nothing \/ tlv.tag # BitString THEN {}
     ELSE {b \in 0..8 : b \div 8 < Len(bits) /\ (bits[b \div 8 + 1] \div Mask(b)) % 2 = 1}

\* parseOcspResponse: the first node with the tag of a status, after the
\* response said that it succeeded.
CertStatus == [t \in {160, 161, 130, 162} |->
                 CASE t = 160 -> "good" [] t = 161 -> "revoked" [] OTHER -> "unknown"]

OcspStatus(der) ==
  LET top   == ReadTlv(der, 0)
      parts == IF top = Nothing THEN <<>> ELSE Children(der, top)
      nodes == Walk(der)
      found == SelectInSeq(nodes, LAMBDA t : t.tag \in DOMAIN CertStatus /\ t.end - t.from <= 32)
  IN IF parts = <<>> THEN "undefined"
     ELSE IF parts[1].end = parts[1].from \/ U8(der, parts[1].from) # 0 \/ found = 0 THEN "undefined"
     ELSE CertStatus[nodes[found].tag]
=============================================================================
