----------------------------- MODULE LeafIssuer -----------------------------
(***************************************************************************)
(* The in-memory leaf cache of the agent proxy (LeafIssuer in leaf.go).    *)
(* TLS handshakes call GetCertificate concurrently; MintLeaf looks under   *)
(* the mutex, signs outside it, and looks again under it before it stores. *)
(* What happens under the mutex is one step.                               *)
(*                                                                         *)
(* A handshake carries a server name; normalizeHost maps it to a cache key *)
(* (several names to one key) or rejects it.                               *)
(***************************************************************************)
EXTENDS Integers, FiniteSets, SequencesExt

CONSTANTS Caller,          \* concurrent handshakes
          Name,            \* server names clients send
          Host,            \* cache keys
          NoHost,          \* the empty server name's key
          normalizeHost,   \* [Name -> Host \cup {NoHost}]
          MaxLeaves,       \* maxLeaves
          LeafTTL,         \* leafTTL
          RenewalSkew,     \* leafRenewalSkew
          MaxTime         \* bound: last clock value

CacheIsSound ==
  /\ IsFiniteSet(Host) /\ NoHost \notin Host
  /\ normalizeHost \in [Name -> Host \cup {NoHost}]
  /\ MaxLeaves \in Nat \ {0} /\ LeafTTL \in Nat \ {0}
  /\ RenewalSkew \in Nat /\ MaxTime \in Nat

ASSUME CacheAssumption == CacheIsSound

VARIABLES time, cache, lru, at, key, asked, made, got

leafVars == <<time, cache, lru, at, key, asked, made, got>>
call == <<at, key, asked, made, got>>

\* A leaf: which mint, for which host, until when.
NoLeaf == [id |-> 0, host |-> NoHost, notAfter |-> 0]
Leaf == [id : Nat \ {0}, host : Host, notAfter : Nat]
Cached == {h \in Host : cache[h] # NoLeaf}

LeafTypeOK ==
  /\ time \in Nat
  /\ cache \in [Host -> Leaf \cup {NoLeaf}]
  /\ lru \in Seq(Host)
  /\ at \in [Caller -> {"idle", "look", "create", "store", "served", "error"}]
  /\ key \in [Caller -> Host \cup {NoHost}]
  /\ asked \in [Caller -> Nat]
  /\ made \in [Caller -> Leaf \cup {NoLeaf}]
  /\ got \in [Caller -> Leaf \cup {NoLeaf}]

LeafInit ==
  /\ time = 0
  /\ cache = [h \in Host |-> NoLeaf]
  /\ lru = <<>>
  /\ at = [c \in Caller |-> "idle"]
  /\ key = [c \in Caller |-> NoHost]
  /\ asked = [c \in Caller |-> 0]
  /\ made = [c \in Caller |-> NoLeaf]
  /\ got = [c \in Caller |-> NoLeaf]

-----------------------------------------------------------------------------
\* Mutant: appends without removing the old position.
MutantTouchAppends(order, h) == Append(order, h)

\* touchLRU: drop the first occurrence, append at the recent end.
touchLRU(order, h) == Append(RemoveFirst(order, h), h)

\* Mutant: a leaf is reused until it has expired.
MutantCacheHitUntilExpiry(h, t) ==
  cache[h] # NoLeaf /\ t <= cache[h].notAfter

\* cacheGet: present and still outside its renewal window.
cacheHit(h, t) == cache[h] # NoLeaf /\ t < cache[h].notAfter - RenewalSkew

\* cachePut: store as most recent; evict the least recent beyond maxLeaves.
cachePut(h, leaf) ==
  LET order == IF cache[h] = NoLeaf THEN Append(lru, h) ELSE touchLRU(lru, h)
      filled == [cache EXCEPT ![h] = leaf]
      full == Cardinality({g \in Host : filled[g] # NoLeaf}) > MaxLeaves
  IN /\ lru' = IF full THEN Tail(order) ELSE order
     /\ cache' = IF full THEN [filled EXCEPT ![Head(order)] = NoLeaf] ELSE filled

-----------------------------------------------------------------------------
\* GetCertificate takes the time; MintLeaf normalises the server name.
GetCertificate(c) ==
  /\ at[c] = "idle"
  /\ \E n \in Name :
       /\ key' = [key EXCEPT ![c] = normalizeHost[n]]
       /\ at' = [at EXCEPT ![c] =
                   IF normalizeHost[n] = NoHost THEN "error" ELSE "look"]
  /\ asked' = [asked EXCEPT ![c] = time]
  /\ UNCHANGED <<time, cache, lru, made, got>>

Serve(c, leaf) ==
  /\ got' = [got EXCEPT ![c] = leaf]
  /\ made' = [made EXCEPT ![c] = NoLeaf]
  /\ at' = [at EXCEPT ![c] = "served"]

\* First look under the mutex.
LookUp(c) ==
  /\ at[c] = "look"
  /\ \/ /\ cacheHit(key[c], asked[c])
        /\ lru' = touchLRU(lru, key[c])
        /\ Serve(c, cache[key[c]])
     \/ /\ ~cacheHit(key[c], asked[c])
        /\ at' = [at EXCEPT ![c] = "create"]
        /\ UNCHANGED <<lru, made, got>>
  /\ UNCHANGED <<time, cache, key, asked>>

\* A serial number that no leaf still around carries.
FreshSerial ==
  LET used == {cache[h].id : h \in Host} \cup {made[d].id : d \in Caller}
                \cup {got[d].id : d \in Caller}
  IN Min(1..(Cardinality(used) + 1) \ used)

\* Key generation and signing, outside the mutex.
createLeaf(c) ==
  /\ at[c] = "create"
  /\ made' = [made EXCEPT ![c] = [id |-> FreshSerial, host |-> key[c],
                                  notAfter |-> asked[c] + LeafTTL]]
  /\ at' = [at EXCEPT ![c] = "store"]
  /\ UNCHANGED <<time, cache, lru, key, asked, got>>

\* Key generation, template or signing fails.
createError(c) ==
  /\ at[c] = "create"
  /\ at' = [at EXCEPT ![c] = "error"]
  /\ UNCHANGED <<time, cache, lru, key, asked, made, got>>

\* Mutant: stores what it signed without looking again.
MutantStoreWithoutRecheck(c) ==
  /\ at[c] = "store"
  /\ cachePut(key[c], made[c])
  /\ Serve(c, made[c])
  /\ UNCHANGED <<time, key, asked>>

\* Second look under the mutex, else cachePut, in one critical section.
Store(c) ==
  /\ at[c] = "store"
  /\ \/ /\ cacheHit(key[c], asked[c])
        /\ lru' = touchLRU(lru, key[c])
        /\ Serve(c, cache[key[c]])
        /\ UNCHANGED cache
     \/ /\ ~cacheHit(key[c], asked[c])
        /\ cachePut(key[c], made[c])
        /\ Serve(c, made[c])
  /\ UNCHANGED <<time, key, asked>>

\* The handshake is over; the next one starts fresh.
Done(c) ==
  /\ at[c] \in {"served", "error"}
  /\ at' = [at EXCEPT ![c] = "idle"]
  /\ key' = [key EXCEPT ![c] = NoHost]
  /\ asked' = [asked EXCEPT ![c] = 0]
  /\ made' = [made EXCEPT ![c] = NoLeaf]
  /\ got' = [got EXCEPT ![c] = NoLeaf]
  /\ UNCHANGED <<time, cache, lru>>

LeafTick ==
  /\ time < MaxTime
  /\ time' = time + 1
  /\ UNCHANGED <<cache, lru, call>>

LeafNext ==
  \/ \E c \in Caller :
       \/ GetCertificate(c) \/ LookUp(c) \/ createLeaf(c) \/ createError(c)
       \/ Store(c) \/ Done(c)
  \/ LeafTick

LeafSpec == LeafInit /\ [][LeafNext]_leafVars

-----------------------------------------------------------------------------
\* cachePut and touchLRU keep the order and the map in step: every cached host
\* is in the order exactly once, so eviction always finds its victim and the
\* cache never holds more than maxLeaves leaves.
LruMatchesCache ==
  /\ ToSet(lru) = Cached
  /\ Len(lru) = Cardinality(Cached)
  /\ Len(lru) <= MaxLeaves

\* MintLeaf: whichever of the three paths answered, the leaf is for the
\* requested host and valid at the caller's time.
ServedLeafIsValid ==
  \A c \in Caller :
    at[c] = "served" => got[c].host = key[c] /\ asked[c] < got[c].notAfter

\* "The cache holds a single authoritative entry per host": a leaf is replaced
\* only when its renewal window has begun.  (The case LeafTTL <= RenewalSkew,
\* where every leaf is always due, is included.)
ReplacedOnlyWhenDue ==
  [][\A h \in Host :
       cache[h] # NoLeaf /\ cache'[h] # NoLeaf /\ cache'[h] # cache[h] =>
         cache[h].notAfter - RenewalSkew <= time]_leafVars
=============================================================================
