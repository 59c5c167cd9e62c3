--------------------------- MODULE DashboardCache ---------------------------
(***************************************************************************)
(* The cache of the dashboard server: handler threads of a                 *)
(* ThreadingHTTPServer share a dictionary from keys (a scan of a source    *)
(* and assets, an inspection of a market) to the time a value was stored   *)
(* and the value.  A thread looks up under the lock, computes outside it,  *)
(* and stores under it again; the lock makes lookup and store one step     *)
(* each.  A value is known by its key and its generated_at, the clock at   *)
(* the start of its computation.                                           *)
(***************************************************************************)
EXTENDS Integers, FiniteSets

CONSTANTS
  Threads,         \* handler threads
  Keys,            \* cache keys
  NoKey,           \* none of them
  Ttl,             \* --cache-ttl, 0 to always fetch
  MaxCompute,      \* seconds a computation may take: bridge calls time out
  MaxClock         \* bound: seconds elapsed

ASSUME CacheAssumption ==
  /\ Ttl \in Nat /\ MaxCompute \in Nat /\ MaxClock \in Nat
  /\ NoKey \notin Keys

Nothing == [key |-> NoKey, at |-> 0]

VARIABLES
  clock,       \* time.time()
  cache,       \* [Keys -> [stored, value]]; value is Nothing at first
  pc,          \* where each thread is
  key,         \* the key a thread answers
  asked,       \* the clock it read when its request came
  value        \* the value a thread computes or has

cacheVars == <<clock, cache, pc, key, asked, value>>

NoEntry == [stored |-> 0, value |-> Nothing]

InitCache ==
  /\ clock = 0
  /\ cache = [k \in Keys |-> NoEntry]
  /\ pc = [t \in Threads |-> "idle"]
  /\ key \in [Threads -> Keys]
  /\ asked = [t \in Threads |-> 0]
  /\ value = [t \in Threads |-> Nothing]

Goto(t, from, to) == pc[t] = from /\ pc' = [pc EXCEPT ![t] = to]

\* A request comes, and its thread reads the clock before it takes the lock.
Request(t, k) ==
  /\ Goto(t, "idle", "lookup")
  /\ key' = [key EXCEPT ![t] = k]
  /\ asked' = [asked EXCEPT ![t] = clock]
  /\ UNCHANGED <<clock, cache, value>>

\* Mutant: an entry is served one second longer.
Fresh_InclusiveTtl(t, entry) == asked[t] - entry.stored <= Ttl

Fresh(t, entry) == asked[t] - entry.stored < Ttl

Hit(t) == Ttl > 0 /\ cache[key[t]].value # Nothing /\ Fresh(t, cache[key[t]])

LookupHit(t) ==
  /\ Hit(t)
  /\ Goto(t, "lookup", "answer")
  /\ value' = [value EXCEPT ![t] = cache[key[t]].value]
  /\ UNCHANGED <<clock, cache, key, asked>>

LookupMiss(t) ==
  /\ ~Hit(t)
  /\ Goto(t, "lookup", "compute")
  /\ value' = [value EXCEPT ![t] = [key |-> key[t], at |-> clock]]
  /\ UNCHANGED <<clock, cache, key, asked>>

\* The entry is stored under its key with the time of the store.
Stored(t) == [cache EXCEPT ![key[t]] = [stored |-> clock, value |-> value[t]]]

Store(t) ==
  /\ Goto(t, "compute", "answer")
  /\ cache' = IF Ttl > 0 THEN Stored(t) ELSE cache
  /\ UNCHANGED <<clock, key, asked, value>>

\* The venue fails: an error is answered, and nothing is stored.
Fail(t) ==
  /\ Goto(t, "compute", "idle")
  /\ value' = [value EXCEPT ![t] = Nothing]
  /\ UNCHANGED <<clock, cache, key, asked>>

Reply(t) ==
  /\ Goto(t, "answer", "idle")
  /\ value' = [value EXCEPT ![t] = Nothing]
  /\ UNCHANGED <<clock, cache, key, asked>>

Computing(t) == pc[t] = "compute"

Tick ==
  /\ clock < MaxClock
  /\ \A t \in Threads : Computing(t) => clock - value[t].at < MaxCompute
  /\ clock' = clock + 1
  /\ UNCHANGED <<cache, pc, key, asked, value>>

NextCache ==
  \/ Tick
  \/ \E t \in Threads :
       \/ \E k \in Keys : Request(t, k)
       \/ LookupHit(t) \/ LookupMiss(t)
       \/ Store(t) \/ Fail(t) \/ Reply(t)

SpecCache == InitCache /\ [][NextCache]_cacheVars

-----------------------------------------------------------------------------
\* Every variable keeps its type.
Values == [key : Keys, at : 0..clock]

CacheTypeOK ==
  /\ clock \in 0..MaxClock
  /\ cache \in [Keys -> [stored : 0..clock, value : Values \union {Nothing}]]
  /\ pc \in [Threads -> {"idle", "lookup", "compute", "answer"}]
  /\ key \in [Threads -> Keys] /\ asked \in [Threads -> 0..clock]
  /\ value \in [Threads -> Values \union {Nothing}]

(***************************************************************************)
(* An answer is to the question asked, is not older than --cache-ttl and   *)
(* the time its computation took, and without a ttl is made after the      *)
(* request.  So it is although threads that miss together store in any     *)
(* order, an older value over a newer one (_cached).                       *)
(***************************************************************************)
AnswerAt(t) ==
  /\ value[t].key = key[t]
  /\ value[t].at >= asked[t] \/ asked[t] - value[t].at < Ttl + MaxCompute

AnswersAreFresh == \A t \in Threads : pc[t] = "answer" => AnswerAt(t)

(***************************************************************************)
(* What the lock and the times stored keep true between two steps: with    *)
(* it, AnswersAreFresh is inductive.                                       *)
(***************************************************************************)
EntryOK(k) ==
  cache[k].value # Nothing =>
    /\ cache[k].value.key = k
    /\ cache[k].value.at <= cache[k].stored
    /\ cache[k].stored - cache[k].value.at <= MaxCompute

ComputationOK(t) ==
  Computing(t) =>
    /\ value[t].key = key[t] /\ value[t].at >= asked[t]
    /\ value[t] # Nothing /\ clock - value[t].at <= MaxCompute

CacheInv ==
  /\ CacheTypeOK
  /\ \A k \in Keys : EntryOK(k)
  /\ \A t \in Threads : ComputationOK(t)
  /\ AnswersAreFresh
=============================================================================
