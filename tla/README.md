# A TLA+ model of myssl

myssl scans the TLS configuration of a server. A page (`public/app.js`) asks the
service (`server/index.js`) for a scan and follows it over an event stream; the
scan (`server/scan.js`) resolves the target, opens one real handshake
(`server/node-tls.js`), and then dozens of hand-made ones (`server/tls-probe.js`)
that walk versions, cipher suites and groups (`server/enumerate.js`); the pieces
are assembled, judged (`server/cert.js`, `server/vulns.js`, `server/grade.js`) and
returned as a report.

All of it is JavaScript: code between two awaits is never interrupted, and
everything hard happens at the awaits. So an action of these modules is one
uninterrupted stretch of one activity, a resumed worker, a socket event, the
continuation of a promise, and the interleaving of actions is the interleaving
the event loop allows.

Line numbers below are those of the source; `PROJECT.json` maps every definition
of the models to its lines.

## Inventory

| Component | State | Operations | Talks to | Hard part | Model |
| --- | --- | --- | --- | --- | --- |
| Worker pool, `pooled` (enumerate.js 41-52) | `next`, `results`, one loop per worker | claim, resolve, reject | called by `detectProtocols` and `simulateClients` | shared counter, a rejection among running tasks | `Pool`, `PoolPromise` |
| Raw prober (tls-probe.js) | `received`, `handshakeBytes`, `settled`, `result` | connect, data, end, close, error, timer; `pump`, `readMessages`; the parsers; `probeSsl2` | called by every enumeration | cuts of the stream, races of the ways to end | `Probe`, `Hello`, `Sockets` |
| Cipher enumeration (enumerate.js 17-142) | `remaining`, `accepted`, `round` | one connection per round, then two at once | `probe` | lost connections, broken servers, limits | `CipherWalk` |
| Other enumerations (enumerate.js 54-86, 144-412) | as above, per function | versions, groups, DH, SCSV, compression, heartbeat, SNI, clients | `probe`, `pooled` | silence taken for a refusal | `Checks` |
| Scan, `scan`/`runScan` (scan.js 139-398) | position, `node`, `supported`, six promises, the deadline | stages, early returns, bare retry, assembly | all probes; `onProgress` | six concurrent stages, a deadline that cancels nothing | `Scan` |
| Scan cache, `scanCached` (scan.js 404-459) | the Maps `cache` and `inflight` | lookup, share, start, store, evict, expire | `scan` | refresh beside a run, eviction, expiry | `ScanCache` |
| Page (public/app.js) | `TARGET`, `REPORT`, `LAST_ERROR`, `STREAM`, `LANG`, what is shown | start, events of the stream, navigation, language, drawing | the service, by `EventSource` | late events, navigation during a scan, renderers that return early | `Page`, `PageCards`, `Screen` |
| Real handshakes (node-tls.js) | `settled`, `ticket` | `tlsInspect`, `checkResumption`, `checkRenegotiation` | called by the scan | wait for a ticket after success | `Sockets`; in `Scan` by outcome |
| HTTP probe (http-probe.js) | redirect trail | `request`, `probeHttp` | called by the scan | failures in the middle of a trail | `Sockets`; in `Scan` where it rejects |
| DNS probe (dns-probe.js) | none | lookups with timeouts, CAA walk | called by the scan | one slow lookup | `findCaa` in `Checks`; in `Scan` by outcome |
| Target parsing (scan.js 32-133) | none | `parseTarget`, `isPrivateAddress` | called by `runScan` and `scanCached` | literals, ports, private ranges | `Target`; in `Scan` by class |
| Weaknesses (vulns.js) | none | `assessVulnerabilities` | fed by the report | unknown against safe | `Verdict` |
| Grade (grade.js) | none | components, caps, early returns, bonus | fed by report and findings | order of rules | `Verdict` |
| Certificates, trust (cert.js, trust.js) | trust index | `describeCertificate`, `analyzeChain`, `findAnchor` | fed by the scan | misordered chains | `Chain` |
| ASN.1 reader (asn1.js) | none | `readTlv`, `walk`, extensions, OCSP | used by cert.js | lengths at the boundary, nested encodings | `Der`, over `Buffers` |
| Suite table (suites.js) | memo | `describeSuite` | everywhere | which suite is a danger to which rule | `Suites` |
| Service (index.js) | in the external package `@sharapov/service-kit` | routes, labels, `localize` | scan, page | labels of targets | `pathLabel` in `Target` |
| Translations, scripts, styles, deployment | none | | | none | no |

Two remarks. The cache of `scan.js` is exported and called by nothing in the
repository at this commit: the service hands `scan` to the package, which has a
cache of its own. The module models the function as written. And `pace()`, which
spaces out connections, belongs to the package: here it only delays, and is
assumed to let everyone through in the end.

Per component, correct means:

* pool: every task once, results in order, never above the ceiling, always settles;
* prober: the result is the server's flight, whatever the network did to it, there
  is always one, only one, and its messages are read as they were written;
* enumerations: find what the server accepts, finitely, and lose only what a lost
  connection or a limit on rounds makes them lose; a verdict is a statement on the
  server and not on the connection;
* real handshakes, HTTP: what is reported was said by the server, by the page named;
* scan: the caller gets one answer, in time; a report is complete; a private
  address is never reached;
* cache: bounded, never another target's report, one scan per target;
* report: trust is earned, the letter is the one that is published for the site or
  what the code adds to that, nothing makes a site worse and its letter better;
* page: shows the last scan asked for and nothing older, but for the raw report, never
  waits for nothing, never locks up, and its colours, findings and letter agree.

## The modules

Each module with behaviour stands for one part; what parts have in common is their
results, and those are composed in `Report`: `Suites`, `Chain` and `Verdict` are the
pure functions, `Report` the site, the assembled report and the properties across
them, `Screen` the page's reading of it. `Readers` does the same for `Der`, `Hello` and
`Target`; `Buffers` is what `Der` and `Hello` share. `PageCards` extends `Page` and takes its actions as its own.

### Pool and PoolPromise

`next`, `results` and `outcome` are the variables of the code and its promise;
`task[w]` is where worker `w` is suspended. Every worker runs to its first await
while the array is created (line 44), so the first claims are in `Init`.
`TaskResolves` is one turn of the loop from an await to the next: store, test,
increment, call. `TaskRejects` leaves the loop; the others are not told.

`PoolPromise` is what callers rely on, with no workers: tasks start in order, at
most `Limit` run, a resolved task hands its place on, a rejected one takes it
away. `Implements` says that the pool, with the status of a task read off the
worker that holds it and the slot it filled, is such a promise.

### Probe

A flight is a list of events, a handshake message or a record of another type,
each two cells long: its head and its rest. `cuts` are the cells after which the
server ends a record, so a message may lie in two records and a record may hold
several messages; `Data(n)` delivers any number of cells. An event is read once
the record that completes it is there (`Complete`). While something can be read
(`Pumping`) no socket event happens, as `pump` runs inside one. Every `Read...`
action is a branch of `pump` or `readMessages`; `Ended`, `Closed`, `Errored` and
`TimedOut` are the listeners, and `Finish` is `finish`, with the rule that a
reason is not noted on a result that is ok or has an alert. `MAX_RESPONSE` is not
modelled: what it is compared with never holds more than a record and a segment.

### CipherWalk

Suites are numbers in the order they are offered. `Picked`, `Unoffered` and
`NothingPicked` are the three ways a round of `enumerateCiphers` ends, and
`NextChunk` what follows the last round of a chunk. `OrderAnswered` and
`OrderDecided` are the two probes of `detectCipherOrder` and its comparison. The
server is external: it follows its own list or the client's, for any list, or is
stuck on one suite, offered or not. A connection may be lost up to `MaxLost` times;
the history variable `broken` keeps the chunks in which one was, so that the others can
be held to be walked in full.
A probe is here what `Probe` proves of it: a suite or no hello.

### Checks

The checks of a scan besides the cipher walk share nothing but the server and the
versions that `Detect` found, so a behaviour is one check against one server. The
one-shot checks are a version to ask at (`Asked`), an answer, and a verdict that is
true, false or null (`Judged`); the DH and the CAA walk go from place to place
(`Step`) until something answers; `GroupRound` drops the group a server named and asks
again. `Client` and `ClientRetry` are `simulateClients` for a client up to TLS 1.3 and
for one up to TLS 1.2. The server is external: the versions it speaks, whether it
knows how TLS 1.3 names its version, where a feature is on, which groups it prefers, and
at which versions it shares nothing with a client.

### Sockets

The operations with a socket of their own; a behaviour is one of them. `phase` is
what the current socket waits for, `heard` what came over it or broke it, `Resolve` the
first `finish`/`done`. `Secured` waits for a ticket where the code does; `InspectBreaks` is
the timer or the error handler, also during that wait. `Ssl2Data` decides after 3 and
after 11 bytes. For HTTP, `leg` counts the requests of the trail, `plain` is the
request to port 80 that is awaited together with the first page, and `Follow` is
one turn of the redirect loop with its exits.

### Scan

`at` is where `runScan` is suspended, `work` the six promises of line 298,
`outcome` the promise of `scan`. `Settle` is `Promise.race`. A stage is one action
that ends with any result the target's nature and its silence allow: `GoesSilent`
may happen at any time, after which answers can be missing and `unanswered`
remembers that they were. `Deadline` settles the outcome and leaves `runScan` where
it was, as in the code. `kind` is the class of what was typed. `NameSent` is the
expression of node-tls.js:38, where a name that begins with a digit counts as an
address (`digitName`).

### ScanCache

A Map iterates in insertion order and `set` keeps the place of a known key; the
order is the relation `before`. `Hit`, `Join` and `Start` are the three ways
`scanCached` reaches its first suspension; `ScanResolves`/`ScanRejects` and `Finally`
are the two links of the promise chain of lines 450-455, between which other calls
run. A run is named by the request that started it. Time is the action `Expire`.
`MCScanCache` adds the symmetry of targets and of callers for TLC.

### Suites, Chain, Verdict, Screen and Report

`Suites` holds the registry as the parts its names are composed of: the 255 distinct
combinations of the table, with `Describe` deriving from them what `describeSuite`
does. In `Chain` a certificate is its names, its key, the key that signed it and what
`describeCertificate` says of it; `Analyze` and `FindAnchor` go by position, as the code
does. `Verdict` has the findings, the three components and `Grade`, with the caps apart
(`Capped`), because both the properties and the proofs are about them. `Screen` is the
state each value is drawn in, with the tags that explain the letter (`Tags`), the chips
of the first card (`HeroFields`) and the revocation line of the chain.

`Report` lets a site get worse one facet at a time, from a modern one and from three
old ones: another chain out of 820, a suite, an older version, a smaller key, a
feature off or unknown; and adds every suite of the registry to a modern site. What
`Assemble` puts together is the report of the site, `Grade` of it the letter. `Published`
states the letter once more, from the site and not from findings, as README.md:88-113
does and with nothing that it leaves out; `Unpublished` are the sites for which the code
has a rule that the README does not.

### Buffers, Der, Hello, Target and Readers

The readers over bytes, with offsets from 0 as in the code, and lengths that shift
into the sign as its `<<` does. A loop through a buffer is `Stops`: the offsets at
which it reads, from what each item says of the next one. The recursion of `walk` is a
recursive function of the levels that are left.

`Readers` is external in full: it builds documents and texts step by step, encodes them
as their standards say, and the properties compare what is read back. A tree is built as
an encoder builds one: `GrowTree` opens a node, puts a leaf into the innermost open one,
or closes it into the one around it (or into an OCTET STRING), so that nodes with any
number of constructed children, at any depth, come about. Hellos, chains and certificates
grow by an extension or an entry, texts by a piece. A document stops growing at what it
can be: a tree at the depth that `walk` enters, lists at what their length bytes hold
(`Max2`, `Max3`), a certificate at as many extensions as can be told apart by the one
number in which their identifiers differ (`MaxOids`). Key exchanges are ECDHE and DHE,
signed, and ECDH and DH, which anonymous suites send unsigned. Targets are texts made of
pieces between colons.

### Page and PageCards

`Page` has the four module variables, whether the buttons are disabled, and which of
the progress box, the report grid and the start page are shown. Streams are numbered
by `scans`; `open` holds those that still deliver. `Submit`, `Example`, `Rescan`,
`Popped` and `SwitchLanguage` are what the user can do, guarded by what is on the
screen; the rest are the listeners of one stream. What a stream carries is not
constrained: a report, a failure or an error at any moment. `PageCards` adds what
every card shows: `Draw` is `render`, function by function, with the ones that return
early (`Fills`) and the one that throws (`Throws`).

## What is checked

Every run is exhaustive over its instance. Only `scan_cache` uses symmetry, of targets
and of callers of one kind; it has no liveness property, beside which symmetry would not
be sound.

| Run | Instance | Why it is enough |
| --- | --- | --- |
| `pool` | 5 tasks, limit 3 | more tasks than workers, fewer left than workers at the end, any subset failing |
| `probe` | flights up to 3 events, every cut | every kind of event before, between and after a ServerHello; a message in two records, several in one |
| `cipher_walk` | 4 suites, chunks of 3, 2 rounds, 2 lost connections | a full chunk and a short one, more suites in a chunk than rounds, both order probes lost |
| `checks` | 5 versions, 4 groups (one finite-field), 3 rounds, 2 lost connections | every set of versions and of places where a feature is on or a client shares something with the server; more groups than rounds; a version lost in detection and the check on it |
| `sockets` | 5 redirects, a body of 2 chunks | the whole trail at its limit; a body at, below and above its limit |
| `scan` | 2 versions | one found and one missed; all kinds of target; silence and deadline anywhere |
| `scan_cache` | 4 requests (two refresh), 3 targets, 2 entries | sharing, two refreshes beside a run, a call after they have removed each other's entries, eviction, expiry, all at once |
| `report` | 2 faults, 10 kinds of certificate in chains of up to 3 | every pair of rules of the letter meets; a chain in any order, with a certificate forged, stale or unparsable at any place |
| `readers` | 3 steps, 5 for trees | lengths of one, two and three bytes, two nodes beside or within each other in a third with leaves between them, three extensions or entries in any order, every key usage; trees cut at every byte, at the top and within any node, and chains cut at every byte |
| `page` | 2 hosts, 3 scans, 2 languages | a scan replaced, abandoned, failed and repeated, with reports of every shape |

The properties, each preceded in its module by what it says:

* `pool`: the refinement `Implements`, which holds each task once, in order, under the
  ceiling; `Settles`.
* `probe`: `ReadsAsWhole`, the result is that of the flight however it was cut;
  `HeardIsHeard`, a failure after the ServerHello does not undo it; `Settles`.
* `cipher_walk`: `WalkIsComplete` (of every chunk that lost no connection, whatever
  others lost, exactly the accepted suites, up to the limit on rounds), `OrderedInChunk`,
  `VerdictIsRight`.
* `checks`: `DefiniteIsTrue`, no verdict on a server that only a lost connection gave;
  `WalksAreComplete`; `ClientAsReal`, a client is said to connect with the version a real
  hello would get, or with what a second hello at TLS 1.2 gets where the first was refused
  or lost, and not to connect only after the server refused or lost whatever it would have
  served.
* `sockets`: `VerdictsAreEarned`, what a yes, a no and an unknown rest on: a no to
  resumption on a handshake that nothing broke off, a no to renegotiation never on the
  timer, and a handshake that succeeded is reported as failed only while the ticket it
  waits for is not there; `JudgedPageAnswered`; `Settles`.
* `scan`: `PrivateUntouched`, `ReportIsWhole`, `CallerAnswered` and `GoesQuiet`.
* `scan_cache`: `OwnTarget`; `AnswersAreCurrent`, a caller gets a scan that was under way
  while it asked or a report that is still fresh, and who refreshes gets a scan of its own;
  `RunsBounded`, a target is never under more scans than it was refreshed, and one; and
  two that hold until a refresh of the target is asked for: `SharesUnrefreshed` and
  `StoresUnrefreshed`.
* `report`: `TrustIsEarned`, `CriticalFails`, `LetterAsPublished`, `ScreenAgrees`, and the
  action property `NeverBetter`.
* `readers`: `ReadsBack` (`DocumentsReadBack` and `MessagesReadBack`), what was encoded is
  what is read; a tree that was cut short gives nothing, a node whose inside was cut the nodes
  before the cut, and a chain its whole certificates at most; `LabelIsOwn`, the label of a target
  is read as that target.
* `page`: `LatestReport`, `NeverForgotten`, `NothingStale` (every card but the raw report),
  `ButtonsReturn`.

Deadlock is not checked in any of them: a pool, a probe, a walk, a check and a scan
end, the callers of the cache are finitely many, sites and documents stop growing,
and the page of the bounded instance runs out of scans.

Named bounds: `MaxEvents` (Probe), `MaxLost` (CipherWalk), `MaxDrops` (Checks),
`MaxFaults` (Report), `MaxSteps`, `MaxPieces`, `MaxOids`, `Max2` and `Max3` (Readers),
`MaxScans` (Page). The other constants are
parameters of the code, some of them smaller than there.

For most operations a definition marked *Mutant* stands beside the real one: the
operation with a plausible slip in it. No specification uses it; it documents
which property notices the slip.

### Fairness

* `Pool`: a task settles, because every probe has a timeout, and a promise whose
  condition holds is settled.
* `Probe`: `pace` gives its turn to every probe, the timer fires, a handler
  returns. Nothing is assumed of the server, so `Settles` rests on the timer alone.
* `Sockets`: something happens next, as every socket has a timer. Which of the events
  is left open; that a page may never end is covered by the limit on its size.
* `Scan`: only the deadline is fair, beside the first step. `CallerAnswered` holds
  although no stage need ever finish. `GoesQuiet` adds `StagesEnd`, that every stage
  ends, as an assumption within the property: each of its probes has a timeout.
* `Page`, `PageCards`: a stream ends, with an answer or an error. The user does nothing
  fairly.
* `CipherWalk`, `Checks`, `ScanCache`, `Report` and `Readers` have safety properties only.

### Where code and words differ

Two runs check a sentence of the repository and find a behaviour that breaks it:

| Run | Sentence | Behaviour |
| --- | --- | --- |
| `scan_cache_sharing` | "Two requests for the same target that arrive together share one scan" (scan.js:435) | a run deletes the `inflight` entry of the refresh that replaced it (line 455); the next caller starts a scan beside the one under way |
| `readers_ocsp` | "Reads the parts of a stapled OCSP response that matter: was the answer usable, is the certificate good or revoked" (asn1.js:198) | the status lies in an encoding within a primitive OCTET STRING, which `walk` does not enter; the issue `revoked` never arises |

Further properties are stated in the modules, with the sentence they come from, and do
not hold; each is refuted by a short behaviour:

| Property | Sentence | Behaviour |
| --- | --- | --- |
| `RetryDropsName` (Scan) | "One retry without SNI" (scan.js:206) | `servername: undefined` makes `tlsInspect` fall back on the host (node-tls.js:38): the retry sends the same name |
| `SilenceHasNoGrade` (Scan) | "A target that stops answering mid-scan produces a report marked `incomplete` with no grade" (README 362-363) | only the protocol stage decides; silence after it gives an ordinary report |
| `RequestNeverThrows` (Scan) | "Never throws." (http-probe.js:33) | `https://<IPv6>/` without brackets is no URL; the exception fails the whole scan of any IPv6 literal |
| `ReportOfTarget` (Page) | "Host currently displayed (null on the empty start page)" (app.js:153) | going back to the start page leaves the stream open; its report is rendered with `TARGET` null |
| `CardsAreFilled` (PageCards) | the error branch of `renderHttp` (app.js:557-562) | `renderHero` throws on the report of a server that HTTPS does not reach; every card after it stays a skeleton |
| `LabelsAreApart` (Readers) | "two ports on one name are two different servers and must not share a report" (index.js:19) | an IPv6 address at port 8443 has the label of a longer address at port 443 |
| `ClientsEndUp` (Checks) | "Runs every client profile and reports what each one would end up with." (enumerate.js:363) | a client with TLS 1.3 that the server refuses is asked for again at TLS 1.2 alone and reported connected, which its own hello, offering both, never is |
| `LetterIsPublished` (Report) | "RC4, no forward secrecy, DH below 2048 bit, TLS 1.0/1.1 → **B**" (README.md:104-105) | RC4 alone is an F (grade.js:194); the other rules that only the code has are listed below |
| `RawIsReport` (PageCards) | "The report currently displayed." (app.js:150) | `skeletons()` does not blank `#raw-json`, and on a server that HTTPS does not reach `renderHero` throws before `renderRaw`: the JSON of an earlier scan stays below the new report |
| `VerdictsAreVolunteered` (Sockets) | "Every verdict here comes from configuration the server volunteered during a normal handshake" (vulns.js:4-5) | a refused connection is no renegotiation (node-tls.js:169), and a timeout no SSL 2.0 (tls-probe.js:593): both findings are then safe |

What the code does and a reader of it might not expect, met while modelling:

* The README promises every accepted suite in the order the server picks them;
  `WalkIsComplete` says that at most `MAX_ROUNDS` suites of a chunk are found, and
  `OrderedInChunk` holds within a chunk only. The group walk has 16 rounds for 17 groups.
* `StoresUnrefreshed` and `SharesUnrefreshed` say exactly up to when the cache keeps its
  promise; after a refresh an older report may replace a newer one.
* `sniRequired` is told from silence as well as from a refusal (scan.js:344), and a
  TLS 1.2 that was lost in detection makes compression and heartbeat a definite no;
  `DefiniteIsTrue` excepts both.
* The headers judged are always those of a page that answered, but `finalUrl` may name
  the hop that did not (http-probe.js:147).
* `README.md:88-113` leaves out, or says otherwise than, these rules of the letter
  (`Unpublished`): RC4 alone is an F, no modern version is a C, a missing staple that the
  certificate demands is a T although no OCSP stapling does not block an A+, a leaf that
  is its own anchor is a T, unknown compression forgoes the A+, and an incomplete scan
  with a certificate that is not trusted or names another host has a T or an M, where
  README.md:362-363 promises no letter. For such a site `LetterAsPublished` only says that
  the letter is no better than the published one, or T or M after an incomplete scan.
  Without a leaf that can be parsed the letter is an ordinary one.
* Two caps have no finding: a must-staple certificate without a staple shows a red T
  among findings that are all well, and TLS 1.0 or 1.1 a red B beside rows that are only a
  warning. `ScreenAgrees` excepts the tags of these two.
* The raw report is not blanked when a scan starts or the start page is shown:
  `NothingStale` excepts it without a report and below one that HTTPS did not reach.
* A connection that breaks counts as no SSL 2.0, and an error as no renegotiation. A timer
  or an error during the wait for a ticket turns a handshake that succeeded into one that
  failed; `VerdictsAreEarned` says that this needs a ticket that has not come, and never
  becomes a verdict on resumption.
* A refresh beside a run leaves runs that no entry names; `RunsBounded` says how many.
* RC4 alone is an F, and another weak suite beside it lifts that: `NeverBetter` excepts it.
* `heartbeat: null` is reported as safe (vulns.js), where other unknowns are unknown.
* A language switch leaves the host line of the start page in the old language.

## What is proved

`X_proofs` extends `X` and holds its theorems, for all values of the constants.
In each of the state machines `IInv` is inductive, `Invariance` is `Spec => []IInv`, and
the invariants follow; action properties are proved from `IInv` and the next-state
relation.

* **Pool_proofs**, from `Limit > 0`. That each task is run once is not inductive for
  the refinement: `BusyWhileTasksWait` (no worker leaves while the counter has tasks and
  none has failed) and `SlotsMatch` (a slot holds its own task or nothing) are
  added. `CeilingHolds` maps running tasks injectively into the workers.
  `Refinement` proves `Spec => PoolPromise!Spec`: a resumed worker is a `Resolve` that
  hands its place to the longest waiting task, which is the one at `next`.
* **Probe_proofs** is about the prober and what reads its bytes. *Of the prober*, for
  flights of any length: `IInv` says that the result is what
  was heard in the events read and that an event that ends the flight is the last
  one read and settles. `TakeEffect` states what reading one event does to that;
  `PumpKeeps` then only compares, for each branch, what it notes and whether it
  settles. That nothing is left unread is a consequence of how cells are ordered
  (`NothingUnread`). *Of the readers*, for documents and messages grown by any number
  of steps and for any names and addresses of hosts: for each kind of document an
  invariant (`TreeInv`, `CertInv`, `SctInv`, `UsageInv`, `ChainInv`, `HelloInv`,
  `ExchangeInv`, `TextInv`) says how its bytes are laid out: items that follow each other
  at known offsets (`IsRow`), and for a tree nodes that hold the trees below them
  (`Forest`). A loop then stops exactly at the offsets of the row (`RowStops`), and the
  walk gives the nodes in the order in which they were written (`Reads`). A row that is
  broken off gives the items before the break (`ChildrenUntil`), and so, level by level, a
  node that was cut the nodes before the cut (`CutNodeIsRead`). Both rest on
  the recursive functions of `Buffers` and `Der` being what they say, which `Recursion`
  gets from the least argument at which a function would not be defined: induction over
  a set, where the library's theorems would need an operator as a parameter. Half a
  document needs lemmas of its own: a node that was cut is refused whatever the form of
  its length, and a chain that was cut gives a prefix of its certificates.
* **Enumerate_proofs**, of both modules about `enumerate.js`, which share no state. Of the
  cipher walk, for any number of suites, size of chunks and limit on rounds: the type
  invariant holds what a broken server could undo: no suite twice, none that was not
  offered, and the connections bounded by the rounds. `VerdictsAreRight` follows from
  what the two answers of an honest server say of its list. `CipherWalksAreComplete`
  and `WalksInOrder` need `WInv`: every round takes one suite off the chunk (`Rest`)
  and costs one connection (`Budget`), what is still offered to an honest server is the
  chunk without what it accepted (`StillOffered`), and a chunk left without a loss of its
  own holds as many suites as the server has there, or as there are rounds (`Complete`). A chunk
  is left for three reasons (a refusal, the last round, nothing left to offer), and
  `ChunkOver` shows `Complete` for each. Of the other checks, for any number of groups
  and of rounds: `OnlySpoken` says that a server answers with the version asked for
  exactly if it speaks it. `Detected` (found is all that is spoken, unless a connection
  was lost), `Passed` (a walk has passed nothing) and `Refused` (TLS 1.3 was refused
  before the second hello) are what `DefiniteIsTrue`, `WalksAreComplete` and
  `ClientAsReal` lack to be inductive. For the groups, `NamedNext` and `NothingNamed`
  say what a server's answer tells of those not walked yet.
* **Sockets_proofs**, for any number of redirects and size of a body: each action of
  the five operations keeps the type invariant, which ties a promise to its last
  socket, and the two properties beside it. `HeardSoFar` says that nothing has broken an
  operation that still runs, and that a ticket is waited for only while there is none.
* **Scan_proofs**, for any set of versions and either setting of private targets.
  `Vetted`: a connection is only opened after both checks; `Phased`: works run only
  once the protocols are known; `Assembled`: a report is what `Assemble` made of
  six finished works.
* **ScanCache_proofs**, for any sets of targets, requests and refreshers and any
  capacity. The order of the Map stays a strict total order; with no refresh of a
  target asked for there is at most one active run of it, it is the one `inflight`
  names, and it has nothing in the cache. Who is given what follows from the runs `inflight`
  names being active. For `RefreshesBoundRuns`, the runs of a target that `inflight` does not
  name are orphans; only a refresh, or the end of a run that another had replaced, makes one, and
  `FewOrphans` counts them against the refreshes asked for.
* **Page_proofs**, for any hosts and number of scans: `OneStream`, only the latest
  stream is open and `STREAM` names it, carries all the others. `CardsArePage`: drawing
  refines the page, so all this holds of `PageCards` too. `CardsAreCurrent` needs
  `CardsInv`: while a stream is open every card but the raw report is blank, and with a
  report a card holds that report in that language if it draws it and is blank otherwise.
  So no renderer that returns early or throws can leave an earlier scan on display, where
  `skeletons` blanks the card.
* **Report_proofs** is in three parts. *Of every report*: `CriticalFindings` goes
  through the findings; `WorstOfLetters` finds the worst of any set of letters;
  `CapsBind` and `CriticalAlwaysFails` follow from these and the early returns of
  `Grade`. *Of every site*: the invariant `SiteInv` says that a site is a member of
  `Sites` (any subset of the registry's suites, any parameters, any list of certificates
  of `CertLists`) and that it answers some version with some suite, one below TLS 1.3
  until the last change for the worse. Three theorems then hold of each such site; there
  are more of these than the runs reach. `TrustAlwaysEarned` follows `Analyze` along the
  parsed chain. For `LettersArePublished` both the code's and the published letter are
  the least of a set of letters; the score is reduced to the values its three parts can
  take. For `ScreenAlwaysAgrees`, `Sturdy` names what makes a site show nothing in red
  (`NothingRed`); the alert that all is well and the silence of the findings each imply
  it (`GoodIsSpared`, `QuietIsSpared`). *Of every change*: `LettersNeverRise`, for any
  number of changes for the worse. `Sinks` compares the site before with the site after,
  facet by facet (`WorseSinks` goes through the changes of `Worse`). That alone is not
  enough, because a score is made of the strongest and the weakest suite and version: a
  new weak one must have a better one beside it. `SinkInv` adds that: until its last
  change a site keeps the version and the suite that it began with (`Began`). Each of the
  three scores, the caps, the trust and what withholds the bonus is then shown to go one
  way (`ScoreSinks`, `CapsSink`, `TrustSinks`, `WithheldSinks`), and `LettersSink` puts
  them in the order of the early returns.

Every invariant, action property and refinement of the passing runs has its theorem.
Only model-checked is liveness (`Settles`, `CallerAnswered`, `GoesQuiet`,
`ButtonsReturn`), because fairness is beyond the prover. The
sentences that do not hold (above) are refuted by TLC alone.

## What is not modelled

* The bytes of a hello that is sent, the values of headers and cookies, certificates as
  bytes beyond their extensions, `decodeOid`, `collectUris` and times: data that the
  properties do not tell apart.
* `isPrivateAddress` beyond the class of an address, the record types of `probeDns` and
  their timeouts.
* The outcome of a stage of `Scan` is a choice; the stages' own logic is in the other
  modules. They meet in results, so one composed state space would show nothing that
  the parts do not, at the price of their product.
* The service package: its cache, limits and event streams are not in the repository.
* Translations, wording, layout, styles, scripts and deployment.
* Real time: timers fire at any moment after they were set. `MAX_RESPONSE`.
* Lengths of four bytes in a document, which no TLS message holds: `ReadTlv` has their sign,
  but no document of `Readers` is that long.
