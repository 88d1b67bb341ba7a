------------------------------- MODULE Suites -------------------------------
(***************************************************************************)
(* What the cipher suite registry knows of a suite, server/suites.js. A    *)
(* name is the parts it is composed of: the key exchange to the left of    *)
(* _WITH_, and cipher, key length, mode and MAC to its right. Everything   *)
(* else is derived from those parts.                                       *)
(***************************************************************************)
EXTENDS Integers

Undefined == -1                    \* a number the name does not tell

Right(c, l, m, h) == [cipher |-> c, len |-> l, mode |-> m, mac |-> h]

\* Left of _WITH_, as in parseKeyExchange: key exchange and authentication.
KeyExchanges ==
  [ ECDHE_ECDSA |-> <<"ECDHE", "ECDSA">>, ECDHE_RSA |-> <<"ECDHE", "RSA">>,
    ECDHE_PSK   |-> <<"ECDHE", "PSK">>,   ECDH_ECDSA |-> <<"ECDH", "ECDSA">>,
    ECDH_RSA    |-> <<"ECDH", "RSA">>,    ECDH_anon |-> <<"ECDH", "anon">>,
    DHE_RSA     |-> <<"DHE", "RSA">>,     DHE_DSS |-> <<"DHE", "DSS">>,
    DHE_PSK     |-> <<"DHE", "PSK">>,     DH_RSA |-> <<"DH", "RSA">>,
    DH_DSS      |-> <<"DH", "DSS">>,      DH_anon |-> <<"DH", "anon">>,
    RSA_PSK     |-> <<"RSA", "PSK">>,     RSA |-> <<"RSA", "RSA">>,
    PSK         |-> <<"PSK", "PSK">>,     SRP_SHA_RSA |-> <<"SRP", "RSA">>,
    SRP_SHA_DSS |-> <<"SRP", "DSS">>,     SRP_SHA |-> <<"SRP", "anon">>,
    KRB5        |-> <<"KRB5", "KRB5">>,   NULL |-> <<"NULL", "NULL">> ]

\* Right of _WITH_: cipher, mode and MAC as the names put them together.
Clear(h)       == Right("NULL", 0, "NULL", h)
Stream(l, h)   == Right("RC4", l, "none", h)
Block(c, l, h) == Right(c, l, "CBC", h)
Sha1(c) == {Block(c, l, "SHA") : l \in {128, 256}}
Sha2(c) == {Block(c, 128, "SHA256"), Block(c, 256, "SHA384")}
Gcm(c)  == {Right(c, 128, "GCM", "SHA256"), Right(c, 256, "GCM", "SHA384")}
Ccm(mode) == {Right("AES", l, mode, "none") : l \in {128, 256}}
ChaCha  == Right("CHACHA20", 0, "POLY1305", "SHA256")
TripleDES == Block("3DES", 0, "SHA")

Plain(lefts, rights)  == [left : lefts, export : {FALSE}, right : rights]
Export(lefts, rights) == [left : lefts, export : {TRUE}, right : rights]

Psk   == {"PSK", "DHE_PSK", "RSA_PSK"}
Prime == {"RSA", "DH_DSS", "DH_RSA", "DHE_DSS", "DHE_RSA", "DH_anon"}
Curve == {"ECDH_ECDSA", "ECDHE_ECDSA", "ECDH_RSA", "ECDHE_RSA"}
Late  == {"RSA", "DHE_RSA", "ECDHE_ECDSA", "ECDHE_RSA"}

\* The registry. TLS 1.3 names have no left part.
TLS13Suites ==
  Plain({"TLS13"}, Gcm("AES") \cup {ChaCha, Right("AES", 128, "CCM", "SHA256"),
                                    Right("AES", 128, "CCM_8", "SHA256")})

\* Numbers 0x0000 to 0x00b9.
FirstSuites ==
  Plain({"NULL"}, {Clear("none")})
  \cup Plain({"RSA"}, {Clear(h) : h \in {"MD5", "SHA", "SHA256"}}
                      \cup {Stream(128, "MD5"), Stream(128, "SHA"), Block("IDEA", 0, "SHA")})
  \cup Plain(Prime, {Block("DES", 0, "SHA"), TripleDES, Block("SEED", 0, "SHA"),
                     Block("AES", 128, "SHA256"), Block("AES", 256, "SHA256")}
                    \cup Sha1("AES") \cup Sha1("CAMELLIA"))
  \cup Plain(Prime \cup Psk, Gcm("AES"))
  \cup Plain(Psk, {Stream(128, "SHA"), TripleDES, Clear("SHA256"), Clear("SHA384")}
                  \cup Sha1("AES") \cup Sha2("AES"))
  \cup Plain({"KRB5"}, {Block(c, 0, h) : c \in {"DES", "3DES"}, h \in {"SHA", "MD5"}}
                       \cup {Stream(128, "SHA"), Stream(128, "MD5")})
  \cup Plain({"DH_anon"}, {Stream(128, "MD5")}) \cup Plain({"DHE_DSS"}, {Stream(128, "SHA")})
  \cup Export(Prime, {Block("DES40", 0, "SHA")})
  \cup Export({"RSA", "DH_anon"}, {Stream(40, "MD5")})
  \cup Export({"RSA", "DHE_DSS"}, {Block("DES", 0, "SHA"), Stream(56, "SHA")})
  \cup Export({"RSA"}, {Block("RC2", 40, "MD5"), Block("RC2", 56, "MD5"), Stream(56, "MD5")})

\* Numbers 0x00ba to 0xccae, with the old ones of ChaCha20.
LaterSuites ==
  Plain(Prime, {Block("CAMELLIA", l, "SHA256") : l \in {128, 256}})
  \cup Plain(Curve \cup {"ECDH_anon", "ECDHE_PSK"}, {Clear("SHA"), Stream(128, "SHA")})
  \cup Plain(Curve \cup {"ECDH_anon", "ECDHE_PSK", "SRP_SHA", "SRP_SHA_RSA", "SRP_SHA_DSS"},
             {TripleDES} \cup Sha1("AES"))
  \cup Plain(Curve, Gcm("AES") \cup Sha2("CAMELLIA")) \cup Plain(Curve \cup {"ECDHE_PSK"}, Sha2("AES"))
  \cup Plain({"ECDHE_PSK"}, {Clear("SHA256"), Clear("SHA384")})
  \cup Plain(Late, Sha2("ARIA") \cup Gcm("ARIA") \cup Gcm("CAMELLIA"))
  \cup Plain(Late \ {"ECDHE_RSA"}, Ccm("CCM") \cup Ccm("CCM_8")) \cup Plain({"PSK"}, Ccm("CCM"))
  \cup Plain(Psk \cup (Late \ {"RSA"}) \cup {"ECDHE_PSK"}, {ChaCha})

Registry == TLS13Suites \cup FirstSuites \cup LaterSuites

\* A number that is not in it has no name.
UnknownSuite == [left |-> "unknown", export |-> FALSE, right |-> Right("unknown", 0, "none", "none")]

Bits(r) ==
  CASE r.cipher = "NULL"  -> 0
    [] r.cipher = "DES40" -> 40
    [] r.cipher = "DES"   -> 56
    [] r.cipher = "3DES"  -> 112
    [] r.cipher \in {"IDEA", "SEED"} -> 128
    [] r.cipher = "CHACHA20" -> 256
    [] r.cipher = "unknown"  -> Undefined
    [] OTHER -> r.len

Exchange(n) ==
  CASE n.left = "unknown" -> <<"unknown", "unknown">>
    [] n.left = "TLS13"   -> <<"ECDHE", "any">>
    [] OTHER              -> KeyExchanges[n.left]

Strength(d) ==
  IF d.kx = "unknown" THEN "weak"
  ELSE IF d.export \/ d.anonymous \/ d.encryption = "NULL" \/ d.bits < 112 THEN "insecure"
  ELSE IF d.encryption \in {"RC4", "3DES"} \/ d.mac = "MD5" THEN "weak"
  ELSE IF ~d.pfs \/ d.mode = "CBC" THEN "legacy"
  ELSE "strong"

\* describeSuite, without the wording of the issues.
Describe(n) ==
  LET kx == Exchange(n)
      d == [kx |-> kx[1], auth |-> kx[2],
            encryption |-> IF n.right.cipher = "DES40" THEN "DES" ELSE n.right.cipher,
            bits |-> Bits(n.right), mode |-> n.right.mode, mac |-> n.right.mac,
            pfs |-> kx[1] \in {"ECDHE", "DHE"},
            aead |-> n.right.mode \in {"GCM", "CCM", "CCM_8", "POLY1305"},
            export |-> n.export, anonymous |-> kx[2] = "anon"]
  IN [strength |-> Strength(d), suite |-> d]

\* suitesForVersion: what may be offered to a server at a version.
OfferedAt(version, n) ==
  LET d == Describe(n).suite
  IN CASE version = "TLS 1.3" -> n.left = "TLS13"
       [] version = "TLS 1.2" -> n.left \notin {"TLS13", "unknown"}
       [] OTHER -> ~d.aead /\ d.mac \in {"SHA", "MD5"}
=============================================================================
