------------------------------- MODULE Target -------------------------------
(***************************************************************************)
(* From what was typed to what is scanned and under which label it is      *)
(* stored and shared: parseTarget of server/scan.js, parse, pathFor and    *)
(* cacheKey of server/index.js. A text is                                  *)
(*   scheme: whether it starts as a URL; a path behind it is cut off,      *)
(*   bracketed: whether the host is in brackets,                           *)
(*   pieces: what its colons separate (in the brackets, if there are any), *)
(*   digits: the port behind the brackets, or Unset.                       *)
(***************************************************************************)
EXTENDS Integers, Sequences, SequencesExt

CONSTANTS
  Names,                           \* what the pattern of a name accepts
  Addresses                        \* IPv4 addresses

Unset == 0                         \* no port is given

\* The ports as text and as a number; of those only some are allowed.
Number == [p \in {"80", "443", "8443", "10443", "99999"} |->
             CASE p = "80" -> 80 [] p = "443" -> 443 [] p = "8443" -> 8443
               [] p = "10443" -> 10443 [] p = "99999" -> 99999]
Digits(port) == CHOOSE p \in DOMAIN Number : Number[p] = port

AllowedPorts == {443, 8443, 10443}
ValidPorts   == 1..65535

\* net.isIP and the pattern of a name. A group has at most four digits, an
\* address eight groups, fewer when an empty one stands for the others.
Groups   == {"2001", "db8", "1", ""} \cup {p \in DOMAIN Number : Number[p] < 10000}
IsName(host) == Len(host) = 1 /\ host[1] \in Names
IsIPv4(host) == Len(host) = 1 /\ host[1] \in Addresses
Gaps(host)   == {i \in DOMAIN host : host[i] = ""}
IsIPv6(host) ==
  /\ Len(host) \in 3..8 /\ ToSet(host) \subseteq Groups
  /\ Gaps(host) \subseteq 2..(Len(host) - 1)
  /\ IF Gaps(host) = {} THEN Len(host) = 8 ELSE \E i \in Gaps(host) : Gaps(host) = {i}
IsHost(host) == IsName(host) \/ IsIPv4(host) \/ IsIPv6(host)

Failed(why) == [error |-> why]

\* Mutant: the port of the query wins.
PortQueried(given, query) == query

\* The port of the text, and without one that of the query.
Port(given, query) == IF given # Unset THEN given ELSE query

\* What a URL parser leaves of a text: it refuses an address without brackets
\* and drops the port of the scheme (https).
Parsed(text) ==
  LET own == IF Len(text.pieces) = 2 /\ text.pieces[2] = "443"
               THEN [text EXCEPT !.pieces = <<@[1]>>] ELSE text
  IN IF text.digits = 443 THEN [text EXCEPT !.digits = Unset] ELSE own

\* What is looked at, and what of it is the host and the port: ports are
\* those of Number.
Typed(text)          == IF text.scheme THEN Parsed(text) ELSE text
IsSplit(value)       == ~value.bracketed /\ Len(value.pieces) = 2 /\ value.pieces[2] \in DOMAIN Number
HostOf(value)        == IF IsSplit(value) THEN <<value.pieces[1]>> ELSE value.pieces
PortOf(value, query) == Port(IF IsSplit(value) THEN Number[value.pieces[2]] ELSE value.digits, query)
Refused(text)        == text.scheme /\ ~text.bracketed /\ Len(text.pieces) > 2

\* parseTarget.
ParseTarget(text, query) ==
  LET host == HostOf(Typed(text))
      port == PortOf(Typed(text), query)
  IN IF Refused(text) \/ ~IsHost(host) THEN Failed("invalid-host")
     ELSE IF port \notin ValidPorts THEN Failed("invalid-port")
     ELSE IF port \notin AllowedPorts THEN Failed("port-not-allowed")
     ELSE [host |-> host, port |-> port]

\* pathLabel, as a text: the key of the cache and the link that is shared.
PathLabel(target) ==
  [scheme |-> FALSE, bracketed |-> FALSE, digits |-> Unset,
   pieces |-> IF target.port = 443 THEN target.host ELSE Append(target.host, Digits(target.port))]
=============================================================================
