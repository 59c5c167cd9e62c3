-------------------------- MODULE DashboardProofs --------------------------
(***************************************************************************)
(* However many threads serve however many keys, whatever they store over  *)
(* each other, an answer is to its question and fresh.                     *)
(***************************************************************************)
EXTENDS DashboardCache, TLAPS

\* The bounds are numbers, and NoKey is not a key.
LEMMA CacheBounds ==
  Ttl \in Nat /\ MaxCompute \in Nat /\ MaxClock \in Nat /\ NoKey \notin Keys
  BY CacheAssumption

\* The empty cache: nothing is computed, and nothing is answered.
LEMMA CacheInit == InitCache => CacheInv
<1>1. ASSUME InitCache PROVE CacheTypeOK
  BY <1>1, CacheBounds DEF InitCache, CacheTypeOK, NoEntry, Nothing, Values
<1>2. ASSUME InitCache PROVE \A k \in Keys : EntryOK(k)
  BY <1>2 DEF InitCache, EntryOK, NoEntry
<1>3. ASSUME InitCache PROVE (\A t \in Threads : ComputationOK(t)) /\ AnswersAreFresh
  BY <1>3 DEF InitCache, ComputationOK, Computing, AnswersAreFresh
<1> QED
  BY <1>1, <1>2, <1>3 DEF CacheInv

\* A new request touches nothing but its own thread.
LEMMA RequestKeeps ==
  ASSUME CacheInv, NEW t \in Threads, NEW k \in Keys, Request(t, k)
  PROVE  CacheInv'
<1>1. CacheTypeOK'
  BY CacheBounds DEF CacheInv, CacheTypeOK, Request, Goto, Values
<1>2. (\A j \in Keys : EntryOK(j))'
  BY DEF CacheInv, EntryOK, Request
<1>3. (\A u \in Threads : ComputationOK(u))'
  BY DEF CacheInv, CacheTypeOK, ComputationOK, Computing, Request, Goto
<1>4. AnswersAreFresh'
  BY DEF CacheInv, CacheTypeOK, AnswersAreFresh, AnswerAt, Request, Goto
<1> QED
  BY <1>1, <1>2, <1>3, <1>4 DEF CacheInv

\* A hit hands out an entry stored less than the ttl before.
LEMMA LookupHitKeeps ==
  ASSUME CacheInv, NEW t \in Threads, LookupHit(t)
  PROVE  CacheInv'
<1>1. CacheTypeOK'
  BY CacheBounds DEF CacheInv, CacheTypeOK, LookupHit, Goto, Values
<1>2. (\A j \in Keys : EntryOK(j))'
  BY DEF CacheInv, EntryOK, LookupHit
<1>3. (\A u \in Threads : ComputationOK(u))'
  BY DEF CacheInv, CacheTypeOK, ComputationOK, Computing, LookupHit, Goto
<1>4. AnswersAreFresh'
  <2> SUFFICES ASSUME NEW u \in Threads, pc'[u] = "answer"
               PROVE  AnswerAt(u)'
    BY DEF AnswersAreFresh
  <2> DEFINE entry == cache[key[t]]
  <2>1. CASE u # t
    BY <2>1 DEF CacheInv, CacheTypeOK, AnswersAreFresh, AnswerAt, LookupHit, Goto
  <2>2. CASE u = t
    <3>1. value'[t] = entry.value /\ key' = key /\ asked' = asked
      BY DEF LookupHit, CacheInv, CacheTypeOK
    <3>2. key[t] \in Keys /\ entry.value # Nothing /\ asked[t] - entry.stored < Ttl
      BY DEF LookupHit, Hit, Fresh, CacheInv, CacheTypeOK
    <3>3. /\ entry.value.key = key[t]
          /\ entry.value.at <= entry.stored
          /\ entry.stored - entry.value.at <= MaxCompute
      BY <3>2 DEF CacheInv, EntryOK
    <3>4. /\ entry.stored \in Int /\ entry.value.at \in Int
          /\ asked[t] \in Int
      BY <3>2, CacheBounds DEF CacheInv, CacheTypeOK, Values, Nothing
    <3>5. asked[t] - entry.value.at < Ttl + MaxCompute
      BY <3>2, <3>3, <3>4, CacheBounds
    <3> QED
      BY <2>2, <3>1, <3>3, <3>5 DEF AnswerAt
  <2> QED
    BY <2>1, <2>2
<1> QED
  BY <1>1, <1>2, <1>3, <1>4 DEF CacheInv

\* A miss starts a computation at the present time.
LEMMA LookupMissKeeps ==
  ASSUME CacheInv, NEW t \in Threads, LookupMiss(t)
  PROVE  CacheInv'
<1>1. CacheTypeOK'
  BY CacheBounds DEF CacheInv, CacheTypeOK, LookupMiss, Goto, Values
<1>2. (\A j \in Keys : EntryOK(j))'
  BY DEF CacheInv, EntryOK, LookupMiss
<1>3. (\A u \in Threads : ComputationOK(u))'
  BY CacheBounds
     DEF CacheInv, CacheTypeOK, ComputationOK, Computing, LookupMiss, Goto, Nothing
<1>4. AnswersAreFresh'
  BY DEF CacheInv, CacheTypeOK, AnswersAreFresh, AnswerAt, LookupMiss, Goto
<1> QED
  BY <1>1, <1>2, <1>3, <1>4 DEF CacheInv

\* A value is stored under the key it was computed for.
LEMMA StoreKeeps ==
  ASSUME CacheInv, NEW t \in Threads, Store(t)
  PROVE  CacheInv'
<1>1. value[t] \in Values /\ value[t].key = key[t] /\ value[t].at >= asked[t]
  BY DEF CacheInv, CacheTypeOK, ComputationOK, Computing, Store, Goto
<1>2. CacheTypeOK'
  BY <1>1, CacheBounds DEF CacheInv, CacheTypeOK, Store, Stored, Goto, Values
<1>3. (\A j \in Keys : EntryOK(j))'
  <2> SUFFICES ASSUME NEW j \in Keys PROVE EntryOK(j)'
    OBVIOUS
  <2>1. CASE Ttl > 0 /\ j = key[t]
    <3>1. cache'[j] = [stored |-> clock, value |-> value[t]]
      BY <2>1 DEF Store, Stored, CacheInv, CacheTypeOK
    <3>2. clock - value[t].at <= MaxCompute
      BY DEF CacheInv, ComputationOK, Computing, Store, Goto
    <3> QED
      BY <1>1, <2>1, <3>1, <3>2, CacheBounds
         DEF EntryOK, Values, CacheInv, CacheTypeOK
  <2>2. CASE ~(Ttl > 0 /\ j = key[t])
    <3>1. cache'[j] = cache[j]
      BY <2>2 DEF Store, Stored, CacheInv, CacheTypeOK
    <3> QED
      BY <3>1 DEF EntryOK, CacheInv
  <2> QED
    BY <2>1, <2>2
<1>4. (\A u \in Threads : ComputationOK(u))'
  BY DEF CacheInv, CacheTypeOK, ComputationOK, Computing, Store, Goto
<1>5. AnswersAreFresh'
  BY <1>1 DEF CacheInv, CacheTypeOK, AnswersAreFresh, AnswerAt, Store, Goto
<1> QED
  BY <1>2, <1>3, <1>4, <1>5 DEF CacheInv

\* Giving a request up, or answering it, leaves the cache alone.
LEMMA EndKeeps ==
  ASSUME CacheInv, NEW t \in Threads, Fail(t) \/ Reply(t)
  PROVE  CacheInv'
<1>1. CacheTypeOK'
  BY CacheBounds DEF CacheInv, CacheTypeOK, Fail, Reply, Goto, Values
<1>2. (\A j \in Keys : EntryOK(j))'
  BY DEF CacheInv, EntryOK, Fail, Reply
<1>3. (\A u \in Threads : ComputationOK(u))'
  BY DEF CacheInv, CacheTypeOK, ComputationOK, Computing, Fail, Reply, Goto
<1>4. AnswersAreFresh'
  BY DEF CacheInv, CacheTypeOK, AnswersAreFresh, AnswerAt, Fail, Reply, Goto
<1> QED
  BY <1>1, <1>2, <1>3, <1>4 DEF CacheInv

\* Time passes, within what a computation may take.
LEMMA TickKeeps ==
  ASSUME CacheInv, Tick
  PROVE  CacheInv'
<1>1. CacheTypeOK'
  BY CacheBounds DEF CacheInv, CacheTypeOK, Tick, Values
<1>2. (\A j \in Keys : EntryOK(j))'
  BY DEF CacheInv, EntryOK, Tick
<1>3. (\A u \in Threads : ComputationOK(u))'
  <2>1. ASSUME NEW u \in Threads, Computing(u)
        PROVE  /\ clock \in Int /\ value[u].at \in Int
               /\ clock + 1 - value[u].at <= MaxCompute
    <3>1. value[u] \in Values /\ clock - value[u].at < MaxCompute
      BY <2>1 DEF CacheInv, CacheTypeOK, ComputationOK, Tick
    <3> QED
      BY <3>1, CacheBounds DEF CacheInv, CacheTypeOK, Values
  <2> SUFFICES ASSUME NEW u \in Threads PROVE ComputationOK(u)'
    OBVIOUS
  <2>2. pc' = pc /\ value' = value /\ key' = key /\ asked' = asked /\ clock' = clock + 1
    BY DEF Tick
  <2> QED
    BY <2>1, <2>2 DEF CacheInv, ComputationOK, Computing
<1>4. AnswersAreFresh'
  BY DEF CacheInv, AnswersAreFresh, AnswerAt, Tick
<1> QED
  BY <1>1, <1>2, <1>3, <1>4 DEF CacheInv

(***************************************************************************)
(* The cache and its threads keep CacheInv (_cached): entries are filed    *)
(* under their keys with honest times, whatever order they come in.        *)
(***************************************************************************)
THEOREM CacheInvariant == SpecCache => []CacheInv
<1>1. CacheInv /\ [NextCache]_cacheVars => CacheInv'
  <2> SUFFICES ASSUME CacheInv, [NextCache]_cacheVars PROVE CacheInv'
    OBVIOUS
  <2>1. CASE Tick
    BY <2>1, TickKeeps
  <2>2. ASSUME NEW t \in Threads, NEW k \in Keys, Request(t, k) PROVE CacheInv'
    BY <2>2, RequestKeeps
  <2>3. ASSUME NEW t \in Threads, LookupHit(t) PROVE CacheInv'
    BY <2>3, LookupHitKeeps
  <2>4. ASSUME NEW t \in Threads, LookupMiss(t) PROVE CacheInv'
    BY <2>4, LookupMissKeeps
  <2>5. ASSUME NEW t \in Threads, Store(t) PROVE CacheInv'
    BY <2>5, StoreKeeps
  <2>6. ASSUME NEW t \in Threads, Fail(t) \/ Reply(t) PROVE CacheInv'
    BY <2>6, EndKeeps
  <2>7. CASE UNCHANGED cacheVars
    BY <2>7 DEF cacheVars, CacheInv, CacheTypeOK, Values, EntryOK, ComputationOK, Computing,
                AnswersAreFresh, AnswerAt
  <2> QED
    BY <2>1, <2>2, <2>3, <2>4, <2>5, <2>6, <2>7 DEF NextCache
<1> QED
  BY CacheInit, <1>1, PTL DEF SpecCache

(***************************************************************************)
(* An answer of the dashboard is to the key asked and not older than the   *)
(* ttl and a computation (server.py, _cached), for every number of         *)
(* threads, every set of keys and every ttl.                               *)
(***************************************************************************)
THEOREM AnswersStayFresh == SpecCache => []AnswersAreFresh
<1>1. CacheInv => AnswersAreFresh
  BY DEF CacheInv
<1> QED
  BY CacheInvariant, <1>1, PTL
=============================================================================
