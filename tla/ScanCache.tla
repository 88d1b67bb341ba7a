------------------------------ MODULE ScanCache ------------------------------
(***************************************************************************)
(* scanCached of server/scan.js with the two Maps behind it: the reports   *)
(* kept for CACHE_TTL_MS, at most CACHE_MAX of them, and the scans under   *)
(* way. A run and the report it produces are named by the request that     *)
(* started it.                                                             *)
(*                                                                         *)
(* A JavaScript Map iterates in insertion order, and set on a key that is  *)
(* already there keeps its place. The order is the relation "before".      *)
(***************************************************************************)
EXTENDS Naturals, FiniteSets

CONSTANTS
  Keys,         \* host:port
  Requests,     \* calls of scanCached
  Refreshers,   \* those with refresh set
  MaxEntries,   \* CACHE_MAX
  NoRun

ASSUME CacheAssumption ==
  /\ Refreshers \subseteq Requests
  /\ MaxEntries \in Nat \ {0}
  /\ NoRun \notin Requests

VARIABLES
  key,        \* key[r]: what request r asks for
  run,        \* run[r]: the scan r started, if it started one
  ok,         \* the runs that produced a report
  awaits,     \* awaits[r]: the run whose promise r was given
  answer,     \* answer[r]: the run whose outcome r has received
  inflight,   \* the Map inflight
  cached,     \* the keys of the Map cache ...
  before,     \* ... their insertion order ...
  value,      \* ... the report stored under each ...
  stale       \* ... and those whose time has run out

cacheVars == <<cached, before, value, stale>>
vars == <<key, run, ok, awaits, answer, inflight, cached, before, value, stale>>

Init ==
  /\ key \in [Requests -> Keys]
  /\ run = [r \in Requests |-> "none"]
  /\ ok = {}
  /\ awaits = [r \in Requests |-> NoRun]
  /\ answer = [r \in Requests |-> NoRun]
  /\ inflight = [k \in Keys |-> NoRun]
  /\ cached = {}
  /\ before = {}
  /\ value = [k \in Keys |-> NoRun]
  /\ stale = {}

-----------------------------------------------------------------------------
(* The Map cache.                                                          *)

Without(k) == {p \in before : p[1] # k /\ p[2] # k}

Delete(k) ==
  /\ cached' = cached \ {k}
  /\ before' = Without(k)
  /\ value' = [value EXCEPT ![k] = NoRun]
  /\ stale' = stale \ {k}

\* delete and set again: the entry moves to the end and keeps its expiry.
MoveToEnd(k) ==
  /\ before' = Without(k) \cup ((cached \ {k}) \X {k})
  /\ UNCHANGED <<cached, value, stale>>

Oldest(k) == k \in cached /\ \A j \in cached \ {k} : <<k, j>> \in before

\* Mutant: a key set again is also put at the end.
PutReordering(kept, order, k, v) ==
  /\ cached' = kept \cup {k}
  /\ before' = order \cup (kept \X {k})
  /\ value' = [j \in Keys |-> IF j = k THEN v
                              ELSE IF j \in kept THEN value[j] ELSE NoRun]
  /\ stale' = (stale \cap kept) \ {k}

\* Map.set: a new key goes to the end, a known one keeps its place.
Put(kept, order, k, v) ==
  /\ cached' = kept \cup {k}
  /\ before' = IF k \in kept THEN order ELSE order \cup (kept \X {k})
  /\ value' = [j \in Keys |-> IF j = k THEN v
                              ELSE IF j \in kept THEN value[j] ELSE NoRun]
  /\ stale' = (stale \cap kept) \ {k}

\* cacheSet: at the limit the oldest entry goes, even when k has an entry.
CacheSet(k, v) ==
  \/ /\ Cardinality(cached) < MaxEntries
     /\ Put(cached, before, k, v)
  \/ /\ Cardinality(cached) >= MaxEntries
     /\ \E old \in cached :
          /\ Oldest(old)
          /\ Put(cached \ {old}, Without(old), k, v)

-----------------------------------------------------------------------------
(* scanCached up to its first suspension: nothing interrupts it.           *)

Arrives(r) == awaits[r] = NoRun /\ answer[r] = NoRun

FreshHit(r) == r \notin Refreshers /\ key[r] \in cached \ stale

\* cacheGet drops an expired entry on the way.
Lookup(r) ==
  IF r \notin Refreshers /\ key[r] \in cached THEN Delete(key[r])
                                              ELSE UNCHANGED cacheVars

Hit(r) ==
  /\ Arrives(r)
  /\ FreshHit(r)
  /\ answer' = [answer EXCEPT ![r] = value[key[r]]]
  /\ MoveToEnd(key[r])
  /\ UNCHANGED <<key, run, ok, awaits, inflight>>

Join(r) ==
  /\ Arrives(r)
  /\ r \notin Refreshers
  /\ ~FreshHit(r)
  /\ inflight[key[r]] # NoRun
  /\ awaits' = [awaits EXCEPT ![r] = inflight[key[r]]]
  /\ Lookup(r)
  /\ UNCHANGED <<key, run, ok, answer, inflight>>

\* Mutants: the scan under way is not looked up; the new one is not entered.
StartRegardless(r) ==
  /\ Arrives(r)
  /\ r \in Refreshers \/ ~FreshHit(r)
  /\ run' = [run EXCEPT ![r] = "scanning"]
  /\ awaits' = [awaits EXCEPT ![r] = r]
  /\ inflight' = [inflight EXCEPT ![key[r]] = r]
  /\ Lookup(r)
  /\ UNCHANGED <<key, ok, answer>>
StartUnentered(r) ==
  /\ Arrives(r)
  /\ r \in Refreshers \/ (~FreshHit(r) /\ inflight[key[r]] = NoRun)
  /\ run' = [run EXCEPT ![r] = "scanning"]
  /\ awaits' = [awaits EXCEPT ![r] = r]
  /\ Lookup(r)
  /\ UNCHANGED <<key, ok, answer, inflight>>

Start(r) ==
  /\ Arrives(r)
  /\ r \in Refreshers \/ (~FreshHit(r) /\ inflight[key[r]] = NoRun)
  /\ run' = [run EXCEPT ![r] = "scanning"]
  /\ awaits' = [awaits EXCEPT ![r] = r]
  /\ inflight' = [inflight EXCEPT ![key[r]] = r]
  /\ Lookup(r)
  /\ UNCHANGED <<key, ok, answer>>

-----------------------------------------------------------------------------
(* The promise chain of one run: .then(cacheSet), .finally(delete).        *)

ScanResolves(r) ==
  /\ run[r] = "scanning"
  /\ run' = [run EXCEPT ![r] = "settled"]
  /\ ok' = ok \cup {r}
  /\ CacheSet(key[r], r)
  /\ UNCHANGED <<key, awaits, answer, inflight>>

\* Mutant: the outcome is stored whatever it was.
ScanRejectsStoring(r) ==
  /\ run[r] = "scanning"
  /\ run' = [run EXCEPT ![r] = "settled"]
  /\ CacheSet(key[r], r)
  /\ UNCHANGED <<key, ok, awaits, answer, inflight>>

\* Mutant: then and not finally, so that a failed run keeps its entry.
ScanRejectsUncleared(r) ==
  /\ run[r] = "scanning"
  /\ run' = [run EXCEPT ![r] = "finished"]
  /\ UNCHANGED <<key, ok, awaits, answer, inflight, cacheVars>>

ScanRejects(r) ==
  /\ run[r] = "scanning"
  /\ run' = [run EXCEPT ![r] = "settled"]
  /\ UNCHANGED <<key, ok, awaits, answer, inflight, cacheVars>>

\* Whatever run the entry names by now, it is the entry of this key.
Finally(r) ==
  /\ run[r] = "settled"
  /\ run' = [run EXCEPT ![r] = "finished"]
  /\ inflight' = [inflight EXCEPT ![key[r]] = NoRun]
  /\ UNCHANGED <<key, ok, awaits, answer, cacheVars>>

Receive(r) ==
  /\ awaits[r] # NoRun
  /\ answer[r] = NoRun
  /\ run[awaits[r]] = "finished"
  /\ answer' = [answer EXCEPT ![r] = awaits[r]]
  /\ UNCHANGED <<key, run, ok, awaits, inflight, cacheVars>>

\* CACHE_TTL_MS pass.
Expire(k) ==
  /\ k \in cached \ stale
  /\ stale' = stale \cup {k}
  /\ UNCHANGED <<key, run, ok, awaits, answer, inflight, cached, before, value>>

Next ==
  \/ \E r \in Requests :
       \/ Hit(r) \/ Join(r) \/ Start(r)
       \/ ScanResolves(r) \/ ScanRejects(r) \/ Finally(r) \/ Receive(r)
  \/ \E k \in Keys : Expire(k)

Spec == Init /\ [][Next]_vars

-----------------------------------------------------------------------------
Active(r) == run[r] \in {"scanning", "settled"}

TypeOK ==
  /\ key \in [Requests -> Keys]
  /\ run \in [Requests -> {"none", "scanning", "settled", "finished"}]
  /\ ok \subseteq Requests
  /\ awaits \in [Requests -> Requests \cup {NoRun}]
  /\ answer \in [Requests -> Requests \cup {NoRun}]
  /\ inflight \in [Keys -> Requests \cup {NoRun}]
  /\ cached \subseteq Keys
  /\ before \subseteq cached \X cached
  /\ \A j, k \in cached : <<j, k>> \in before <=> j # k /\ <<k, j>> \notin before
  /\ value \in [Keys -> Requests \cup {NoRun}]
  /\ stale \subseteq cached

\* The cache never holds more than CACHE_MAX reports.
CacheBounded == Cardinality(cached) <= MaxEntries

(***************************************************************************)
(* Nobody is handed another target's report, through the cache or through  *)
(* a shared scan, and what the cache serves is a report, not a failure.    *)
(***************************************************************************)
OwnTarget ==
  /\ \A k \in cached : value[k] \in ok /\ key[value[k]] = k
  /\ \A r \in Requests : answer[r] # NoRun => key[answer[r]] = key[r]

\* A request that joins a run joins one whose outcome is still to come.
InflightIsActive ==
  \A k \in Keys : inflight[k] # NoRun => Active(inflight[k]) /\ key[inflight[k]] = k

(***************************************************************************)
(* However refreshes, failures and finallys interleave, a call is given    *)
(* the outcome of a scan of its target that is still to come or a report   *)
(* whose time has not run out, never the promise of a scan that is over;   *)
(* and a refresh is given its own scan (scan.js:440-457).                  *)
(***************************************************************************)
GivesCurrent(r) ==
  LET given == IF awaits'[r] # NoRun THEN awaits'[r] ELSE answer'[r]
      k     == key[r]
  IN /\ key[given] = k
     /\ r \in Refreshers => given = r
     /\ \/ run'[given] \in {"scanning", "settled"}
        \/ given \in ok /\ given = value[k] /\ k \in cached \ stale

AnswersAreCurrent ==
  [][\A r \in Requests : Arrives(r) /\ ~Arrives(r)' => GivesCurrent(r)]_vars

(***************************************************************************)
(* What refreshing costs: with every refresh of a target one more scan of  *)
(* it may be under way, and no more than that, although every run that     *)
(* ends takes the entry of another out of inflight (scan.js:455).          *)
(***************************************************************************)
Running(k)   == {r \in Requests : key[r] = k /\ Active(r)}
Refreshed(k) == {r \in Refreshers : key[r] = k /\ run[r] # "none"}
RunsBounded  == \A k \in Keys : Cardinality(Running(k)) <= Cardinality(Refreshed(k)) + 1

(***************************************************************************)
(* As long as no refresh of a target has been asked for, its requests      *)
(* share: none starts a scan of it while one is under way.                 *)
(***************************************************************************)
Unrefreshed(k) == \A r \in Refreshers : key[r] = k => Arrives(r)

StartsAlone(r) ==
  run[r] = "none" /\ run'[r] = "scanning" =>
    \A s \in Requests : run[s] = "scanning" => key[s] # key[r]

SharesUnrefreshed ==
  [][\A r \in Requests : Unrefreshed(key[r])' => StartsAlone(r)]_vars

(***************************************************************************)
(* Until then a report of the target is only stored where there is none:   *)
(* nothing is evicted in vain, and no report is replaced by an older one.  *)
(***************************************************************************)
StoresUnrefreshed ==
  [][\A k \in Keys :
       Unrefreshed(k) /\ value'[k] # value[k] /\ value'[k] # NoRun => k \notin cached]_vars

-----------------------------------------------------------------------------
\* "Two requests for the same target that arrive together share one scan":
\* who did not ask for a refresh never starts a scan of a target under scan.
SharesScan == [][\A r \in Requests \ Refreshers : StartsAlone(r)]_vars
=============================================================================
