--------------------------- MODULE ScanCache_proofs ---------------------------
(***************************************************************************)
(* Theorems about scanCached, for any number of requests and targets.      *)
(***************************************************************************)
EXTENDS ScanCache, FiniteSetTheorems, TLAPS

(***************************************************************************)
(* The Map cache on its own: what every statement that changes it keeps.   *)
(***************************************************************************)
InOrder(S, R) ==
  /\ R \subseteq S \X S
  /\ \A j, k \in S : <<j, k>> \in R <=> j # k /\ <<k, j>> \notin R

CacheInv ==
  /\ cached \subseteq Keys
  /\ IsFiniteSet(cached)
  /\ Cardinality(cached) <= MaxEntries
  /\ InOrder(cached, before)
  /\ value \in [Keys -> Requests \cup {NoRun}]
  /\ stale \subseteq cached

\* Each cached report was produced for the key it is filed under.
Filed == \A k \in cached : value[k] \in ok /\ key[value[k]] = k

\* Dropping a key leaves the remaining ones in a strict total order.
LEMMA DropKeepsOrder ==
  ASSUME InOrder(cached, before), NEW k
  PROVE  InOrder(cached \ {k}, Without(k))
  BY DEF InOrder, Without

\* Map.delete keeps the cache well formed.
LEMMA DeleteKeeps ==
  ASSUME CacheInv, NEW k \in Keys, Delete(k)
  PROVE  CacheInv'
  <1>1. InOrder(cached, before)'
    BY DropKeepsOrder DEF Delete, CacheInv
  <1>2. IsFiniteSet(cached \ {k}) /\ Cardinality(cached \ {k}) <= MaxEntries
    <2>1. IsFiniteSet(cached) /\ Cardinality(cached) \in Nat
      BY FS_CardinalityType DEF CacheInv
    <2>2. /\ IsFiniteSet(cached \ {k})
          /\ Cardinality(cached \ {k}) \in {Cardinality(cached) - 1, Cardinality(cached)}
      BY <2>1, FS_RemoveElement
    <2> QED
      BY <2>1, <2>2, CacheAssumption DEF CacheInv
  <1>3. cached' = cached \ {k}
    BY DEF Delete
  <1> QED
    BY <1>1, <1>2, <1>3 DEF Delete, CacheInv

\* Moving a hit to the end keeps the cache well formed.
LEMMA MoveKeeps ==
  ASSUME CacheInv, NEW k \in cached, MoveToEnd(k)
  PROVE  CacheInv'
  <1>1. InOrder(cached, before)'
    BY DEF MoveToEnd, CacheInv, InOrder, Without
  <1> QED
    BY <1>1 DEF MoveToEnd, CacheInv

\* Map.set after an eviction keeps the cache well formed and bounded.
LEMMA PutKeeps ==
  ASSUME CacheInv, NEW kept \in SUBSET cached, NEW order,
         NEW k \in Keys, NEW v \in Requests,
         InOrder(kept, order), Cardinality(kept) < MaxEntries,
         Put(kept, order, k, v)
  PROVE  CacheInv'
  <1>1. InOrder(cached, before)'
    BY DEF Put, InOrder
  <1>2. IsFiniteSet(kept)
    BY FS_Subset DEF CacheInv
  <1>3. IsFiniteSet(kept \cup {k}) /\ Cardinality(kept \cup {k}) <= MaxEntries
    <2>1. Cardinality(kept) \in Nat
      BY <1>2, FS_CardinalityType
    <2>2. /\ IsFiniteSet(kept \cup {k})
          /\ Cardinality(kept \cup {k}) \in {Cardinality(kept), Cardinality(kept) + 1}
      BY <1>2, <2>1, FS_AddElement
    <2> QED
      BY <2>1, <2>2, CacheAssumption
  <1>4. cached' = kept \cup {k}
    BY DEF Put
  <1> QED
    BY <1>1, <1>3, <1>4 DEF Put, CacheInv

\* cacheSet keeps the cache well formed and bounded.
LEMMA CacheSetKeeps ==
  ASSUME CacheInv, NEW k \in Keys, NEW v \in Requests, CacheSet(k, v)
  PROVE  CacheInv'
  <1>1. CASE Cardinality(cached) < MaxEntries /\ Put(cached, before, k, v)
    BY <1>1, PutKeeps DEF CacheInv
  <1>2. CASE \E old \in cached : Oldest(old) /\ Put(cached \ {old}, Without(old), k, v)
    <2>1. PICK old \in cached : Put(cached \ {old}, Without(old), k, v)
      BY <1>2
    <2>2. InOrder(cached \ {old}, Without(old))
      BY DropKeepsOrder DEF CacheInv
    <2>3. Cardinality(cached \ {old}) < MaxEntries
      <3>1. IsFiniteSet(cached) /\ Cardinality(cached) \in Nat
        BY FS_CardinalityType DEF CacheInv
      <3>2. Cardinality(cached \ {old}) = Cardinality(cached) - 1
        BY <3>1, FS_RemoveElement
      <3> QED
        BY <3>1, <3>2, CacheAssumption DEF CacheInv
    <2>4. cached \ {old} \in SUBSET cached
      OBVIOUS
    <2> QED
      BY <2>1, <2>2, <2>3, <2>4, PutKeeps
  <1> QED
    BY <1>1, <1>2 DEF CacheSet

\* What is filed after a store: the new report, and what was filed before.
LEMMA CacheSetFiles ==
  ASSUME CacheInv, NEW k \in Keys, NEW v, CacheSet(k, v)
  PROVE  /\ k \in cached' /\ value'[k] = v
         /\ \A j \in cached' : j # k => j \in cached /\ value'[j] = value[j]
  <1>1. PICK kept \in SUBSET cached : \E order : Put(kept, order, k, v)
    BY DEF CacheSet
  <1> QED
    BY <1>1 DEF Put, CacheInv

\* What is filed after a lookup: nothing new.
LEMMA LookupFiles ==
  ASSUME CacheInv, NEW r \in Requests, key[r] \in Keys, Lookup(r)
  PROVE  /\ CacheInv'
         /\ \A j \in cached' : j \in cached /\ value'[j] = value[j]
         /\ r \notin Refreshers => key[r] \notin cached'
  <1>1. CASE r \notin Refreshers /\ key[r] \in cached
    BY <1>1, DeleteKeeps DEF Lookup, Delete, CacheInv
  <1>2. CASE ~(r \notin Refreshers /\ key[r] \in cached)
    BY <1>2 DEF Lookup, cacheVars, CacheInv, InOrder
  <1> QED
    BY <1>1, <1>2

-----------------------------------------------------------------------------
(***************************************************************************)
(* The inductive invariant: a run is awaited by whoever started it, so a   *)
(* request starts at most one; every promise handed out belongs to a run   *)
(* of the same target; and only runs that have begun have an outcome.      *)
(***************************************************************************)
Promised ==
  \A r \in Requests :
    /\ run[r] # "none" => awaits[r] = r
    /\ awaits[r] # NoRun => key[awaits[r]] = key[r]
    /\ answer[r] # NoRun => key[answer[r]] = key[r]

IInv ==
  /\ TypeOK
  /\ CacheInv
  /\ Filed
  /\ Promised
  /\ InflightIsActive

\* The empty cache satisfies the invariant.
LEMMA InitEstablishes == Init => IInv
  <1> SUFFICES ASSUME Init PROVE IInv
    OBVIOUS
  <1>1. CacheInv
    BY FS_EmptySet, CacheAssumption DEF Init, CacheInv, InOrder
  <1>2. TypeOK
    BY DEF Init, TypeOK
  <1> QED
    BY <1>1, <1>2 DEF Init, IInv, Filed, Promised, InflightIsActive

\* A request that hits, joins or starts a scan keeps the invariant.
LEMMA ArrivalKeeps ==
  ASSUME IInv, NEW r \in Requests, Hit(r) \/ Join(r) \/ Start(r)
  PROVE  IInv'
  <1> USE CacheAssumption DEF IInv, TypeOK, Arrives
  <1>1. CASE Hit(r)
    <2>1. key[r] \in cached /\ MoveToEnd(key[r])
      BY <1>1 DEF Hit, FreshHit
    <2>2. CacheInv'
      BY <2>1, MoveKeeps
    <2>3. UNCHANGED <<key, run, ok, awaits, inflight, cached, value>>
      BY <1>1 DEF Hit, MoveToEnd
    <2>4. answer' = [answer EXCEPT ![r] = value[key[r]]] /\ key[value[key[r]]] = key[r]
      BY <1>1, <2>1 DEF Hit, Filed
    <2> QED
      BY <2>2, <2>3, <2>4
         DEF CacheInv, InOrder, Filed, Promised, InflightIsActive, Active
  <1>2. CASE Join(r)
    <2>1. /\ CacheInv'
          /\ \A j \in cached' : j \in cached /\ value'[j] = value[j]
      BY <1>2, LookupFiles DEF Join
    <2>2. /\ UNCHANGED <<key, run, ok, answer, inflight>>
          /\ awaits' = [awaits EXCEPT ![r] = inflight[key[r]]]
          /\ inflight[key[r]] # NoRun /\ awaits[r] = NoRun
      BY <1>2 DEF Join
    <2>3. key[inflight[key[r]]] = key[r]
      BY <2>2 DEF InflightIsActive
    <2>4. Promised'
      BY <2>2, <2>3 DEF Promised
    <2> QED
      BY <2>1, <2>2, <2>4 DEF CacheInv, InOrder, Filed, InflightIsActive, Active
  <1>3. CASE Start(r)
    <2>1. /\ CacheInv'
          /\ \A j \in cached' : j \in cached /\ value'[j] = value[j]
      BY <1>3, LookupFiles DEF Start
    <2>2. /\ UNCHANGED <<key, ok, answer>>
          /\ run' = [run EXCEPT ![r] = "scanning"]
          /\ awaits' = [awaits EXCEPT ![r] = r]
          /\ inflight' = [inflight EXCEPT ![key[r]] = r]
      BY <1>3 DEF Start
    <2>3. InflightIsActive'
      BY <2>2 DEF InflightIsActive, Active
    <2>4. Promised'
      BY <2>2 DEF Promised
    <2> QED
      BY <2>1, <2>2, <2>3, <2>4 DEF CacheInv, InOrder, Filed
  <1> QED
    BY <1>1, <1>2, <1>3

\* A scan that ends, and its finally, keep the invariant.
LEMMA RunKeeps ==
  ASSUME IInv, NEW r \in Requests, ScanResolves(r) \/ ScanRejects(r) \/ Finally(r)
  PROVE  IInv'
  <1> USE CacheAssumption DEF IInv, TypeOK
  <1>1. CASE ScanResolves(r)
    <2>1. CacheSet(key[r], r) /\ key[r] \in Keys
      BY <1>1 DEF ScanResolves
    <2>2. CacheInv'
      BY <2>1, CacheSetKeeps
    <2>3. /\ key[r] \in cached' /\ value'[key[r]] = r
          /\ \A j \in cached' : j # key[r] => j \in cached /\ value'[j] = value[j]
      BY <2>1, CacheSetFiles
    <2>4. /\ UNCHANGED <<key, awaits, answer, inflight>>
          /\ run[r] = "scanning" /\ run' = [run EXCEPT ![r] = "settled"]
          /\ ok' = ok \cup {r}
      BY <1>1 DEF ScanResolves
    <2>5. Filed'
      BY <2>3, <2>4 DEF Filed
    <2>6. InflightIsActive' /\ Promised'
      BY <2>4 DEF InflightIsActive, Active, Promised
    <2> QED
      BY <2>2, <2>4, <2>5, <2>6 DEF CacheInv, InOrder
  <1>2. CASE ScanRejects(r)
    BY <1>2 DEF ScanRejects, cacheVars, CacheInv, InOrder, Filed, Promised,
                InflightIsActive, Active
  <1>3. CASE Finally(r)
    <2>1. /\ UNCHANGED <<key, ok, awaits, answer, cacheVars>>
          /\ run[r] = "settled" /\ run' = [run EXCEPT ![r] = "finished"]
          /\ inflight' = [inflight EXCEPT ![key[r]] = NoRun]
      BY <1>3 DEF Finally
    <2>2. InflightIsActive'
      BY <2>1 DEF InflightIsActive, Active
    <2> QED
      BY <2>1, <2>2 DEF cacheVars, CacheInv, InOrder, Filed, Promised
  <1> QED
    BY <1>1, <1>2, <1>3

\* Answers, expiries and idle steps keep the invariant.
LEMMA OtherKeeps ==
  ASSUME IInv,
         \/ \E r \in Requests : Receive(r)
         \/ \E k \in Keys : Expire(k)
         \/ UNCHANGED vars
  PROVE  IInv'
  <1> USE CacheAssumption DEF IInv, TypeOK
  <1>1. ASSUME NEW r \in Requests, Receive(r) PROVE IInv'
    <2>1. key[awaits[r]] = key[r]
      BY <1>1 DEF Receive, Promised
    <2>2. Promised'
      BY <1>1, <2>1 DEF Receive, Promised
    <2> QED
      BY <1>1, <2>2 DEF Receive, cacheVars, CacheInv, InOrder, Filed,
                        InflightIsActive, Active
  <1>2. ASSUME NEW k \in Keys, Expire(k) PROVE IInv'
    BY <1>2 DEF Expire, CacheInv, InOrder, Filed, Promised, InflightIsActive, Active
  <1>3. CASE UNCHANGED vars
    BY <1>3 DEF vars, CacheInv, InOrder, Filed, Promised, InflightIsActive, Active
  <1> QED
    BY <1>1, <1>2, <1>3

\* The invariant is inductive.
LEMMA StepKeeps == IInv /\ [Next]_vars => IInv'
  BY ArrivalKeeps, RunKeeps, OtherKeeps DEF Next

\* The invariant holds in every state, refreshes included.
THEOREM Invariance == Spec => []IInv
  BY InitEstablishes, StepKeeps, PTL DEF Spec

(***************************************************************************)
(* Every variable keeps its type, and the Map's insertion order stays a    *)
(* strict order of the keys it holds.                                      *)
(***************************************************************************)
THEOREM TypeCorrect == Spec => []TypeOK
  <1>1. IInv => TypeOK
    BY DEF IInv
  <1> QED
    BY <1>1, Invariance, PTL

(***************************************************************************)
(* The cache never holds more than CACHE_MAX reports, with refreshes and   *)
(* expiries in any order.                                                  *)
(***************************************************************************)
THEOREM CacheStaysBounded == Spec => []CacheBounded
  <1>1. IInv => CacheBounded
    BY DEF IInv, CacheInv, CacheBounded
  <1> QED
    BY <1>1, Invariance, PTL

(***************************************************************************)
(* No request receives another target's report, and no failure is served   *)
(* from the cache.                                                         *)
(***************************************************************************)
THEOREM NoReportGoesAstray == Spec => []OwnTarget
  <1>1. IInv => OwnTarget
    BY DEF IInv, Filed, Promised, OwnTarget
  <1> QED
    BY <1>1, Invariance, PTL

(***************************************************************************)
(* Whoever joins a scan joins one of its own target that has not ended.    *)
(***************************************************************************)
THEOREM JoinedRunsAreActive == Spec => []InflightIsActive
  <1>1. IInv => InflightIsActive
    BY DEF IInv
  <1> QED
    BY <1>1, Invariance, PTL

-----------------------------------------------------------------------------
(***************************************************************************)
(* For a target no refresh of which was asked, the Map inflight is exact:  *)
(* every run of it that has not ended is its entry, and while it scans it  *)
(* is not cached. Refreshing breaks both, which is how the sharing of      *)
(* scans is lost (see the run ScanCacheDoc).                               *)
(***************************************************************************)
Exact ==
  \A r \in Requests :
    Unrefreshed(key[r]) =>
      /\ Active(r) => inflight[key[r]] = r
      /\ run[r] = "scanning" => key[r] \notin cached

\* Nothing is in flight and nothing cached at first.
LEMMA ExactInit == Init => Exact
  BY DEF Init, Exact, Active

\* Once asked for, a refresh stays asked for; a refresher never finds a hit.
LEMMA RefreshedStays ==
  ASSUME IInv, [Next]_vars, NEW k \in Keys, Unrefreshed(k)'
  PROVE  Unrefreshed(k) /\ key' = key
  <1> USE CacheAssumption DEF IInv, TypeOK, Arrives, Unrefreshed
  <1>1. ASSUME NEW r \in Requests, Hit(r) \/ Join(r) \/ Start(r)
        PROVE  Unrefreshed(k) /\ key' = key
    BY <1>1 DEF Hit, Join, Start
  <1>2. ASSUME NEW r \in Requests, ScanResolves(r) \/ ScanRejects(r) \/ Finally(r)
        PROVE  Unrefreshed(k) /\ key' = key
    BY <1>2 DEF ScanResolves, ScanRejects, Finally
  <1>3. ASSUME NEW r \in Requests, Receive(r)
        PROVE  Unrefreshed(k) /\ key' = key
    BY <1>3 DEF Receive
  <1>4. CASE (\E j \in Keys : Expire(j)) \/ UNCHANGED vars
    BY <1>4 DEF Expire, vars
  <1> QED
    BY <1>1, <1>2, <1>3, <1>4 DEF Next

\* What is in flight for such a target stays what is registered for it.
LEMMA ExactStep ==
  ASSUME IInv, Exact, [Next]_vars
  PROVE  Exact'
  <1> DEFINE Fine(s) == /\ Active(s) => inflight[key[s]] = s
                        /\ run[s] = "scanning" => key[s] \notin cached
  <1> SUFFICES ASSUME NEW s \in Requests, Unrefreshed(key[s])', key' = key
               PROVE  Fine(s)'
    <2>1. ASSUME NEW s \in Requests, Unrefreshed(key[s])' PROVE key' = key
      BY <2>1 DEF Next, vars, Hit, Join, Start, ScanResolves, ScanRejects, Finally,
                  Receive, Expire
    <2> QED
      BY <2>1 DEF Exact
  <1>u. Unrefreshed(key[s])
    <2>1. key[s] \in Keys
      BY DEF IInv, TypeOK
    <2> QED
      BY <2>1, RefreshedStays
  <1>f. \A r \in Requests : key[r] = key[s] => Fine(r)
    BY <1>u DEF Exact
  <1> USE CacheAssumption DEF IInv, TypeOK, Active
  <1>1. ASSUME NEW r \in Requests, Hit(r) PROVE Fine(s)'
    BY <1>1, <1>f DEF Hit, MoveToEnd
  <1>2. ASSUME NEW r \in Requests, Join(r) PROVE Fine(s)'
    BY <1>2, <1>f, LookupFiles DEF Join, Arrives
  <1>3. ASSUME NEW r \in Requests, Start(r) PROVE Fine(s)'
    <2>1. /\ run' = [run EXCEPT ![r] = "scanning"]
          /\ inflight' = [inflight EXCEPT ![key[r]] = r]
          /\ awaits' = [awaits EXCEPT ![r] = r]
      BY <1>3 DEF Start
    <2>2. key[r] = key[s] => r \notin Refreshers
      BY <2>1 DEF Unrefreshed, Arrives
    <2>3. \A j \in cached' : j \in cached
      BY <1>3, LookupFiles DEF Start
    <2>4. key[r] = key[s] => inflight[key[s]] = NoRun /\ key[s] \notin cached'
      BY <1>3, <2>2, LookupFiles DEF Start
    <2> QED
      BY <1>f, <2>1, <2>3, <2>4
  <1>4. ASSUME NEW r \in Requests, ScanResolves(r) PROVE Fine(s)'
    <2>1. \A j \in cached' : j # key[r] => j \in cached
      BY <1>4, CacheSetFiles DEF ScanResolves
    <2> QED
      BY <1>4, <1>f, <2>1 DEF ScanResolves
  <1>5. ASSUME NEW r \in Requests, ScanRejects(r) PROVE Fine(s)'
    BY <1>5, <1>f DEF ScanRejects, cacheVars
  <1>6. ASSUME NEW r \in Requests, Finally(r) PROVE Fine(s)'
    BY <1>6, <1>f DEF Finally, cacheVars
  <1>7. ASSUME NEW r \in Requests, Receive(r) PROVE Fine(s)'
    BY <1>7, <1>f DEF Receive, cacheVars
  <1>8. ASSUME NEW k \in Keys, Expire(k) PROVE Fine(s)'
    BY <1>8, <1>f DEF Expire
  <1>9. CASE UNCHANGED vars
    BY <1>9, <1>f DEF vars
  <1> QED
    BY <1>1, <1>2, <1>3, <1>4, <1>5, <1>6, <1>7, <1>8, <1>9 DEF Next

(***************************************************************************)
(* Requests for a target share one scan as long as no refresh of it has    *)
(* been asked for, whatever happens to the other targets.                  *)
(***************************************************************************)
THEOREM SharingUntilRefreshed == Spec => SharesUnrefreshed
  <1>1. IInv /\ Exact /\ [Next]_vars =>
          [\A r \in Requests : Unrefreshed(key[r])' => StartsAlone(r)]_vars
    <2> SUFFICES ASSUME IInv, Exact, Next,
                        NEW r \in Requests, Unrefreshed(key[r])',
                        run[r] = "none", run'[r] = "scanning",
                        NEW s \in Requests, run[s] = "scanning", key[s] = key[r]
                 PROVE  FALSE
      BY DEF StartsAlone
    <2>1. Start(r)
      BY DEF Next, Hit, Join, Start, ScanResolves, ScanRejects, Finally, Receive,
             Expire, IInv, TypeOK
    <2>2. key' = key /\ key[r] \in Keys
      BY <2>1 DEF Start, IInv, TypeOK
    <2>3. Unrefreshed(key[s])
      BY <2>2, RefreshedStays
    <2>4. r \notin Refreshers
      BY <2>1, <2>2, CacheAssumption DEF Start, Unrefreshed, Arrives, IInv, TypeOK
    <2> QED
      BY <2>1, <2>3, <2>4, CacheAssumption DEF Start, Exact, Active
  <1>2. IInv /\ Exact /\ [Next]_vars => Exact'
    BY ExactStep
  <1> QED
    BY <1>1, <1>2, ExactInit, Invariance, PTL DEF Spec, SharesUnrefreshed

(***************************************************************************)
(* Until a refresh of it is asked for, a target's report is only stored    *)
(* where none is: no vain eviction, no older report over a newer one.      *)
(***************************************************************************)
THEOREM NoOverwriteUntilRefreshed == Spec => StoresUnrefreshed
  <1>1. IInv /\ Exact /\ [Next]_vars =>
          [\A k \in Keys :
             Unrefreshed(k) /\ value'[k] # value[k] /\ value'[k] # NoRun => k \notin cached]_vars
    <2> SUFFICES ASSUME IInv, Exact, Next,
                        NEW k \in Keys, Unrefreshed(k), value'[k] # value[k], value'[k] # NoRun
                 PROVE  k \notin cached
      OBVIOUS
    <2>1. PICK r \in Requests : ScanResolves(r)
      BY DEF Next, Hit, Join, Start, ScanRejects, Finally, Receive, Expire,
             Lookup, Delete, MoveToEnd, cacheVars, IInv, TypeOK
    <2>2. k = key[r]
      BY <2>1 DEF ScanResolves, CacheSet, Put, IInv, TypeOK
    <2> QED
      BY <2>1, <2>2 DEF ScanResolves, Exact
  <1>2. IInv /\ Exact /\ [Next]_vars => Exact'
    BY ExactStep
  <1> QED
    BY <1>1, <1>2, ExactInit, Invariance, PTL DEF Spec, StoresUnrefreshed

-----------------------------------------------------------------------------
(***************************************************************************)
(* Every call is given the outcome of a scan still to come or a report     *)
(* whose time has not run out, of its own target, and a refresh its own:   *)
(* the entries of inflight are runs that have not ended, whoever deleted   *)
(* and whoever entered them.                                               *)
(***************************************************************************)
THEOREM CallsAreGivenCurrent == Spec => AnswersAreCurrent
  <1>1. IInv /\ [Next]_vars =>
          [\A r \in Requests : Arrives(r) /\ ~Arrives(r)' => GivesCurrent(r)]_vars
    <2> SUFFICES ASSUME IInv, Next, NEW r \in Requests, Arrives(r), ~Arrives(r)'
                 PROVE  GivesCurrent(r)
      OBVIOUS
    <2> USE CacheAssumption DEF IInv, TypeOK, Arrives
    <2>1. Hit(r) \/ Join(r) \/ Start(r)
      BY DEF Next, Hit, Join, Start, ScanResolves, ScanRejects, Finally, Receive, Expire
    <2>2. CASE Hit(r)
      <3>1. /\ key[r] \in cached \ stale /\ r \notin Refreshers
            /\ value[key[r]] \in ok /\ key[value[key[r]]] = key[r]
        BY <2>2 DEF Hit, FreshHit, Filed
      <3>2. awaits'[r] = NoRun /\ answer'[r] = value[key[r]]
        BY <2>2 DEF Hit
      <3> QED
        BY <3>1, <3>2 DEF GivesCurrent
    <2>3. CASE Join(r)
      <3>1. /\ inflight[key[r]] \in Requests /\ inflight[key[r]] # NoRun
            /\ Active(inflight[key[r]]) /\ key[inflight[key[r]]] = key[r]
        BY <2>3 DEF Join, InflightIsActive
      <3>2. awaits'[r] = inflight[key[r]] /\ run' = run /\ r \notin Refreshers
        BY <2>3 DEF Join
      <3> QED
        BY <3>1, <3>2 DEF GivesCurrent, Active
    <2>4. CASE Start(r)
      <3>1. awaits'[r] = r /\ run'[r] = "scanning" /\ r # NoRun
        BY <2>4 DEF Start
      <3> QED
        BY <3>1 DEF GivesCurrent
    <2> QED
      BY <2>1, <2>2, <2>3, <2>4
  <1> QED
    BY <1>1, Invariance, PTL DEF Spec, AnswersAreCurrent

-----------------------------------------------------------------------------
(***************************************************************************)
(* The runs that no caller can join: inflight does not name them. Each     *)
(* refresh adds one at the most, and a run that ends and takes the entry   *)
(* of another with it only leaves that one in its own place.               *)
(***************************************************************************)
Orphans(k) == {r \in Requests : key[r] = k /\ Active(r) /\ inflight[k] # r}

FewOrphans ==
  \A k \in Keys : /\ IsFiniteSet(Refreshed(k)) /\ IsFiniteSet(Orphans(k))
                  /\ Cardinality(Orphans(k)) <= Cardinality(Refreshed(k))

LEMMA NoOrphans == Init => FewOrphans
  <1> SUFFICES ASSUME Init, NEW k \in Keys PROVE Refreshed(k) = {} /\ Orphans(k) = {}
    BY FS_EmptySet DEF FewOrphans
  <1> QED
    BY CacheAssumption DEF Init, Refreshed, Orphans, Active

\* One more and one less.
LEMMA SetsGrow ==
  ASSUME NEW S, IsFiniteSet(S), NEW x, NEW T \in SUBSET (S \cup {x})
  PROVE  /\ IsFiniteSet(T) /\ Cardinality(T) <= Cardinality(S) + 1
         /\ Cardinality(T) \in Nat /\ Cardinality(S) \in Nat
  <1>1. /\ IsFiniteSet(S \cup {x}) /\ Cardinality(S) \in Nat
        /\ Cardinality(S \cup {x}) \in {Cardinality(S), Cardinality(S) + 1}
    BY FS_AddElement, FS_CardinalityType
  <1>2. IsFiniteSet(T) /\ Cardinality(T) <= Cardinality(S \cup {x}) /\ Cardinality(T) \in Nat
    BY <1>1, FS_Subset, FS_CardinalityType
  <1> QED
    BY <1>1, <1>2

\* A request that starts a scan.
LEMMA StartFewOrphans ==
  ASSUME IInv, FewOrphans, NEW r \in Requests, Start(r)
  PROVE  FewOrphans'
  <1> USE CacheAssumption DEF IInv, TypeOK
  <1>0. PICK k \in Keys : k = key[r]
    OBVIOUS
  <1>1. /\ key' = key /\ run' = [run EXCEPT ![r] = "scanning"]
        /\ inflight' = [inflight EXCEPT ![k] = r] /\ k \in Keys
        /\ run[r] = "none"
        /\ r \in Refreshers \/ inflight[k] = NoRun
    BY <1>0 DEF Start, Arrives, Promised
  <1>2. ASSUME NEW j \in Keys, j # k
        PROVE  Refreshed(j)' = Refreshed(j) /\ Orphans(j)' = Orphans(j)
    BY <1>0, <1>1, <1>2 DEF Refreshed, Orphans, Active
  <1>3. IsFiniteSet(Refreshed(k)) /\ IsFiniteSet(Orphans(k))
        /\ Cardinality(Orphans(k)) <= Cardinality(Refreshed(k))
    BY <1>0, <1>1 DEF FewOrphans
  <1>4. Orphans(k)' \subseteq Orphans(k) \cup {inflight[k]}
    BY <1>0, <1>1 DEF Orphans, Active
  <1>5. CASE r \in Refreshers
    <2>1. Refreshed(k)' = Refreshed(k) \cup {r} /\ r \notin Refreshed(k)
      BY <1>0, <1>1, <1>5 DEF Refreshed
    <2>2. /\ IsFiniteSet(Refreshed(k)') /\ Cardinality(Refreshed(k)') = Cardinality(Refreshed(k)) + 1
          /\ Cardinality(Refreshed(k)) \in Nat
      BY <1>3, <2>1, FS_AddElement, FS_CardinalityType
    <2>3. /\ IsFiniteSet(Orphans(k)') /\ Cardinality(Orphans(k)') <= Cardinality(Orphans(k)) + 1
          /\ Cardinality(Orphans(k)') \in Nat /\ Cardinality(Orphans(k)) \in Nat
      BY <1>3, <1>4, SetsGrow
    <2>4. Cardinality(Orphans(k)') <= Cardinality(Refreshed(k)')
      BY <1>3, <2>2, <2>3
    <2> QED
      BY <1>2, <2>2, <2>3, <2>4 DEF FewOrphans
  <1>6. CASE r \notin Refreshers
    <2>1. Refreshed(k)' = Refreshed(k)
      BY <1>0, <1>1, <1>6 DEF Refreshed
    <2>2. Orphans(k)' = Orphans(k)
      BY <1>0, <1>1, <1>6 DEF Orphans, Active
    <2> QED
      BY <1>2, <1>3, <2>1, <2>2 DEF FewOrphans
  <1> QED
    BY <1>5, <1>6

\* A run that ends, and the entry that goes with it.
LEMMA FinallyFewOrphans ==
  ASSUME IInv, FewOrphans, NEW r \in Requests, Finally(r)
  PROVE  FewOrphans'
  <1> USE CacheAssumption DEF IInv, TypeOK
  <1>0. PICK k \in Keys : k = key[r]
    OBVIOUS
  <1>1. /\ key' = key /\ run' = [run EXCEPT ![r] = "finished"]
        /\ inflight' = [inflight EXCEPT ![k] = NoRun] /\ k \in Keys
        /\ run[r] = "settled"
    BY <1>0 DEF Finally
  <1>2. \A j \in Keys : Refreshed(j)' = Refreshed(j)
    BY <1>0, <1>1 DEF Refreshed
  <1>3. \A j \in Keys : j # k => Orphans(j)' = Orphans(j)
    BY <1>0, <1>1 DEF Orphans, Active
  <1>4. IsFiniteSet(Refreshed(k)) /\ IsFiniteSet(Orphans(k))
        /\ Cardinality(Orphans(k)) <= Cardinality(Refreshed(k))
    BY <1>0, <1>1 DEF FewOrphans
  <1>5. CASE inflight[k] = r
    <2>1. Orphans(k)' = Orphans(k)
      BY <1>0, <1>1, <1>5 DEF Orphans, Active
    <2> QED
      BY <1>2, <1>3, <1>4, <2>1 DEF FewOrphans
  <1>6. CASE inflight[k] # r
    <2>1. r \in Orphans(k)
      BY <1>0, <1>1, <1>6 DEF Orphans, Active
    <2>2. /\ IsFiniteSet(Orphans(k) \ {r})
          /\ Cardinality(Orphans(k) \ {r}) = Cardinality(Orphans(k)) - 1
          /\ Cardinality(Orphans(k)) \in Nat
      BY <1>4, <2>1, FS_RemoveElement, FS_CardinalityType
    <2>3. Orphans(k)' \subseteq (Orphans(k) \ {r}) \cup {inflight[k]}
      BY <1>0, <1>1 DEF Orphans, Active
    <2>4. /\ IsFiniteSet(Orphans(k)')
          /\ Cardinality(Orphans(k)') <= Cardinality(Orphans(k) \ {r}) + 1
          /\ Cardinality(Orphans(k)') \in Nat
      BY <2>2, <2>3, SetsGrow
    <2>5. Cardinality(Refreshed(k)) \in Nat
      BY <1>4, FS_CardinalityType
    <2>6. Cardinality(Orphans(k)') <= Cardinality(Refreshed(k))
      BY <1>4, <2>2, <2>4, <2>5
    <2> QED
      BY <1>2, <1>3, <1>4, <2>4, <2>6 DEF FewOrphans
  <1> QED
    BY <1>5, <1>6

LEMMA StepFewOrphans == IInv /\ FewOrphans /\ [Next]_vars => FewOrphans'
  <1> SUFFICES ASSUME IInv, FewOrphans, [Next]_vars PROVE FewOrphans'
    OBVIOUS
  <1>1. ASSUME UNCHANGED <<key, run, inflight>> PROVE FewOrphans'
    <2>1. \A k \in Keys : Refreshed(k)' = Refreshed(k) /\ Orphans(k)' = Orphans(k)
      BY <1>1 DEF Refreshed, Orphans, Active
    <2> QED
      BY <2>1 DEF FewOrphans
  <1>2. ASSUME NEW r \in Requests, ScanResolves(r) \/ ScanRejects(r) PROVE FewOrphans'
    <2>1. /\ UNCHANGED <<key, inflight>>
          /\ run[r] = "scanning" /\ run' = [run EXCEPT ![r] = "settled"]
      BY <1>2 DEF ScanResolves, ScanRejects
    <2>2. \A k \in Keys : Refreshed(k)' = Refreshed(k) /\ Orphans(k)' = Orphans(k)
      BY <2>1 DEF Refreshed, Orphans, Active, IInv, TypeOK
    <2> QED
      BY <2>2 DEF FewOrphans
  <1>3. ASSUME NEW r \in Requests, Hit(r) \/ Join(r) \/ Receive(r) PROVE FewOrphans'
    BY <1>1, <1>3 DEF Hit, Join, Receive
  <1>4. CASE (\E k \in Keys : Expire(k)) \/ UNCHANGED vars
    BY <1>1, <1>4 DEF Expire, vars
  <1> QED
    BY <1>2, <1>3, <1>4, StartFewOrphans, FinallyFewOrphans DEF Next

(***************************************************************************)
(* A target is under no more scans at once than refreshes of it were asked *)
(* for, and one.                                                           *)
(***************************************************************************)
THEOREM RefreshesBoundRuns == Spec => []RunsBounded
  <1>1. FewOrphans => RunsBounded
    <2> SUFFICES ASSUME FewOrphans, NEW k \in Keys
                 PROVE  Cardinality(Running(k)) <= Cardinality(Refreshed(k)) + 1
      BY DEF RunsBounded
    <2>1. /\ IsFiniteSet(Orphans(k)) /\ Cardinality(Orphans(k)) <= Cardinality(Refreshed(k))
          /\ Cardinality(Refreshed(k)) \in Nat
      BY FS_CardinalityType DEF FewOrphans
    <2>2. Running(k) \subseteq Orphans(k) \cup {inflight[k]}
      BY DEF Running, Orphans
    <2>3. /\ Cardinality(Running(k)) <= Cardinality(Orphans(k)) + 1
          /\ Cardinality(Running(k)) \in Nat /\ Cardinality(Orphans(k)) \in Nat
      BY <2>1, <2>2, SetsGrow
    <2> QED
      BY <2>1, <2>3
  <1> QED
    BY <1>1, NoOrphans, StepFewOrphans, Invariance, PTL DEF Spec
=============================================================================
