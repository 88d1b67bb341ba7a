------------------------------- MODULE Hello -------------------------------
(***************************************************************************)
(* The handshake messages that the prober reads, server/tls-probe.js: the  *)
(* body of ServerHello, Certificate and ServerKeyExchange. A body is       *)
(* complete: the reassembly is Probe.                                      *)
(***************************************************************************)
EXTENDS Buffers, SequencesExt

Absent == -1                       \* a number the message does not give

\* parseExtensions, in the order of the message.
ParseExtensions(buf) ==
  LET End(i) == i + 4 + U16(buf, i + 2)
      whole  == {i \in 0..Len(buf) : i + 4 <= Len(buf) /\ End(i) <= Len(buf)}
      stops  == Stops(buf, [i \in whole |-> End(i)], 0)
  IN [k \in DOMAIN stops |-> [type |-> U16(buf, stops[k]), data |-> Sub(buf, stops[k] + 4, End(stops[k]))]]

\* The value of an extension, empty without it; of two, the later counts.
Value(extensions, type) ==
  LET k == SelectLastInSeq(extensions, LAMBDA e : e.type = type)
  IN IF k = 0 THEN <<>> ELSE extensions[k].data

RenegotiationInfo == 65281  Heartbeat == 15  Alpn == 16  SupportedVersions == 43  KeyShare == 51

RetryRandom == [i \in 1..32 |-> 207]
NoHello == [version |-> Absent]

\* parseServerHello, with the flags of readServerExtensions.
ParseServerHello(body) ==
  LET i     == 35 + U8(body, 34)
      exts  == IF Len(body) < i + 5 THEN <<>>
               ELSE ParseExtensions(Sub(body, i + 5, i + 5 + U16(body, i + 3)))
      named == Value(exts, SupportedVersions)
      alpn  == Value(exts, Alpn)
      share == Value(exts, KeyShare)
      hello == [version |-> IF Len(named) >= 2 THEN U16(named, 0) ELSE U16(body, 0),
                cipher |-> U16(body, i), compression |-> U8(body, i + 2),
                retry |-> Sub(body, 2, 34) = RetryRandom,
                extensions |-> {exts[k].type : k \in DOMAIN exts},
                alpn  |-> IF Len(alpn) >= 3 THEN Sub(alpn, 3, 3 + U8(alpn, 2)) ELSE <<>>,
                group |-> IF Len(share) >= 2 THEN U16(share, 0) ELSE Absent]
  IN IF Len(body) < 38 THEN NoHello ELSE IF Len(body) < i + 3 THEN NoHello ELSE hello

\* Mutant: the extensions of an entry are passed without their length.
PassEntry(body, over, end) ==
  IF over + 2 > end THEN end ELSE over + U16(body, over)

\* Where the entry of TLS 1.3 ends whose certificate ends at over.
EndOfEntry(body, over, end) ==
  IF over + 2 > end THEN end ELSE over + 2 + U16(body, over)

\* parseCertificates.
ParseCertificates(body, tls13) ==
  LET i       == IF tls13 THEN 1 + U8(body, 0) ELSE 0
      total   == i + 3 + U24(body, i)
      end     == IF total < Len(body) THEN total ELSE Len(body)
      Over(j) == j + 3 + U24(body, j)
      whole   == {j \in 0..end : j + 3 <= end /\ Over(j) <= end}
      stops   == Stops(body, [j \in whole |-> IF tls13 THEN EndOfEntry(body, Over(j), end) ELSE Over(j)], i + 3)
  IN IF Len(body) < i + 3 THEN <<>>
     ELSE [k \in DOMAIN stops |-> Sub(body, stops[k] + 3, Over(stops[k]))]

\* The bytes of a modulus behind its leading zeros.
Significant(p) ==
  IF \A i \in DOMAIN p : p[i] = 0 THEN 0
  ELSE Len(p) + 1 - CHOOSE i \in DOMAIN p : p[i] # 0 /\ \A j \in 1..(i - 1) : p[j] = 0

\* parseServerKeyExchange of a message that is not cut: the group or the bits
\* of the prime, and behind the public values the algorithm of the signature.
ParseServerKeyExchange(body, kx, named) ==
  LET curve == kx \in {"ECDHE", "ECDH"}
      prime == kx \in {"DHE", "DH"}
      g     == 2 + U16(body, 0)
      y     == g + 2 + U16(body, g)
      after == IF curve THEN 4 + U8(body, 3) ELSE y + 2 + U16(body, y)
      none  == [group |-> Absent, dhBits |-> Absent, signature |-> Absent]
  IN IF ~(curve \/ prime) \/ (curve /\ U8(body, 0) # 3) THEN none
     ELSE [group     |-> IF curve THEN U16(body, 1) ELSE Absent,
           dhBits    |-> IF prime THEN 8 * Significant(Sub(body, 2, g)) ELSE Absent,
           signature |-> IF named /\ Len(body) >= after + 2 THEN U16(body, after) ELSE Absent]
=============================================================================
