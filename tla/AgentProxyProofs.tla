-------------------------- MODULE AgentProxyProofs --------------------------
(***************************************************************************)
(* Proofs about the agent proxy's certificates.                            *)
(*                                                                         *)
(* The authority (AgentProxyCA), for any set of processes, any validity    *)
(* and any number of attempts, crashes and I/O errors.                     *)
(* ReturnedCAIsPublished and ValidCertHasItsKey are not inductive alone: a *)
(* process between the second look and the write of the certificate must   *)
(* be known to hold the lock alone (Locking), to have found nothing valid  *)
(* at a time that is past (MintIsDue, NowIsPast), or nothing it could read *)
(* (unread), and to have written its key first (KeyBeforeCert).            *)
(*                                                                         *)
(* The leaf cache (LeafIssuer), for any number of handshakes, names and    *)
(* hosts and any limits: the order and the map change together, so the     *)
(* order lists the cached hosts once each (OrderTells).                    *)
(***************************************************************************)
EXTENDS AgentProxyCA, LeafIssuer, FiniteSetTheorems, TLAPS

-----------------------------------------------------------------------------
(* The authority                                                           *)

\* The critical section is entered by creating the lock file and left by
\* removing it.
Locking ==
  /\ \A p \in Proc : pc[p] \in CriticalSection => lockFile
  /\ MintMutex

NowIsPast == \A p \in Proc : now[p] <= clock

\* The certificate on disk is useless to the process about to replace it, or it
\* could not be read.
MintIsDue ==
  \A p \in Proc :
    pc[p] \in {"mintCA", "openKey", "writeKey", "openCert", "writeCert"} =>
      \/ certFile.id \in {Absent, Torn}
      \/ certFile.notAfter <= now[p]
      \/ certFile.id \in unread

KeyBeforeCert ==
  /\ CertUsable => keyFile # Absent
  /\ \A p \in Proc :
       /\ pc[p] \in Minting \ {"mintUnderLock", "mintCA"} => minted[p].id > 0
       /\ pc[p] \in {"openCert", "writeCert"} => keyFile = minted[p].id
       /\ pc[p] \in {"openMeta", "writeMeta"} => certFile = minted[p]

HeldIsReal ==
  \A p \in Proc : Holding(p) => ca[p].id \notin {Absent, Torn}

SignerIsHeld ==
  \A p \in Proc :
    pc[p] = "readCert" /\ Lasting(p) => signer[p] = ca[p].id

IInv ==
  /\ TypeOK /\ Locking /\ NowIsPast /\ MintIsDue /\ KeyBeforeCert
  /\ HeldIsReal /\ SignerIsHeld
  /\ ValidCertHasItsKey /\ ReturnedCAIsPublished /\ IssuerFollowsGate

USE ValidityAssumption, MaxAttemptsAssumption, BoundAssumption

\* Shapes of the certificates the code handles.
LEMMA CertFacts ==
  /\ NoCert \in Cert /\ NoCert.id = Absent /\ NoCert.notAfter = 0
  /\ TornCert \in Cert /\ TornCert.id = Torn /\ TornCert.notAfter = 0
  /\ \A c \in Cert : c.id \in FileId /\ c.notAfter \in Nat
  /\ \A i \in FileId, n \in Nat : [id |-> i, notAfter |-> n] \in Cert
BY DEF NoCert, TornCert, Cert, FileId, Absent, Torn

USE CertFacts
USE DEF Absent, Torn, FileId, NoPin, files, locals, Minting, Releasing, CriticalSection, Running, Ended, Where, goto, Fault,
        Loads, LoadsValid, CertUsable, Holding, Lasting

\* The initial state of the files and processes is well typed.
LEMMA InitType == Init => TypeOK
<1> SUFFICES ASSUME Init PROVE TypeOK
  OBVIOUS
<1> USE DEF Init
<1>1. /\ clock \in Nat /\ mints \in Nat /\ faults \in Nat
      /\ lockFile \in BOOLEAN
      /\ keyFile \in FileId /\ metaFile \in FileId /\ certFile \in Cert
  OBVIOUS
<1>2. /\ pc \in [Proc -> Where] /\ now \in [Proc -> Nat]
      /\ tries \in [Proc -> Nat] /\ approval \in [Proc -> Nat]
      /\ signer \in [Proc -> FileId]
  OBVIOUS
<1>3. /\ minted \in [Proc -> Cert] /\ ca \in [Proc -> Cert]
      /\ issuer \in [Proc -> Cert]
  OBVIOUS
<1> QED  BY <1>1, <1>2, <1>3 DEF TypeOK

\* ... and satisfies the rest of the invariant.
LEMMA InitIInv == Init => IInv
<1> SUFFICES ASSUME Init PROVE IInv
  OBVIOUS
<1>1. TypeOK  BY InitType
<1>2. Locking /\ NowIsPast /\ MintIsDue /\ KeyBeforeCert
  BY DEF Init, Locking, MintMutex, NowIsPast, MintIsDue, KeyBeforeCert
<1>3. HeldIsReal /\ SignerIsHeld /\ ValidCertHasItsKey
  BY DEF Init, HeldIsReal, SignerIsHeld, ValidCertHasItsKey
<1>4. ReturnedCAIsPublished /\ IssuerFollowsGate
  BY DEF Init, ReturnedCAIsPublished, IssuerFollowsGate
<1> QED  BY <1>1, <1>2, <1>3, <1>4 DEF IInv

\* Every step of ca.go, gate.go and leaf.go keeps the state well typed.
LEMMA TypeStep == TypeOK /\ [Next]_vars => TypeOK'
<1> SUFFICES ASSUME TypeOK, [Next]_vars PROVE TypeOK'
  OBVIOUS
<1> USE DEF TypeOK
<1>1. CASE UNCHANGED vars
  BY <1>1 DEF vars
<1>2. CASE Tick
  BY <1>2 DEF Tick
<1>3. ASSUME NEW p \in Proc, Step(p) PROVE TypeOK'
  <2>1. CASE EnsureCA(p)  BY <2>1 DEF EnsureCA
  <2>2. CASE acquireMintLock(p)  BY <2>2 DEF acquireMintLock
  <2>3. CASE awaitMintLock(p)
    <3>1. CASE LoadsValid(p)  BY <2>3, <3>1 DEF awaitMintLock
    <3>2. CASE ~LoadsValid(p)
      <4>1. /\ tries' = [tries EXCEPT ![p] = @ + 1]
            /\ UNCHANGED <<clock, lockFile, keyFile, certFile, metaFile, mints,
                           faults, unread, pc, now, approval, minted, ca,
                           signer, issuer>>
        BY <2>3, <3>2 DEF awaitMintLock
      <4> QED  BY <4>1
    <3> QED  BY <3>1, <3>2
  <2>4. CASE mintLockTimeout(p)  BY <2>4 DEF mintLockTimeout
  <2>5. CASE mintUnderLock(p)  BY <2>5 DEF mintUnderLock
  <2>6. CASE mintCA(p)  BY <2>6 DEF mintCA
  <2>7. CASE OpenKey(p)  BY <2>7 DEF OpenKey
  <2>8. CASE WriteKey(p)  BY <2>8 DEF WriteKey
  <2>9. CASE OpenCert(p)  BY <2>9 DEF OpenCert
  <2>10. CASE WriteCert(p)  BY <2>10 DEF WriteCert
  <2>11. CASE OpenMeta(p)  BY <2>11 DEF OpenMeta
  <2>12. CASE WriteMeta(p)  BY <2>12 DEF WriteMeta
  <2>13. CASE releaseMintLock(p)  BY <2>13 DEF releaseMintLock
  <2>14. CASE EvaluateGate(p)  BY <2>14 DEF EvaluateGate
  <2>15. CASE loadCASigner(p)  BY <2>15 DEF loadCASigner, IssuerFails
  <2>16. CASE NewLeafIssuer(p)  BY <2>16 DEF NewLeafIssuer, IssuerFails
  <2> QED
    BY <1>3, <2>1, <2>2, <2>3, <2>4, <2>5, <2>6, <2>7, <2>8, <2>9, <2>10,
       <2>11, <2>12, <2>13, <2>14, <2>15, <2>16 DEF Step
<1>4. ASSUME NEW p \in Proc,
             \/ Start(p) \/ StartDisabled(p) \/ Stop(p)
             \/ acquireError(p) \/ loadError(p) \/ mintError(p)
             \/ issuerReadError(p) \/ Crash(p)
      PROVE  TypeOK'
  <2>1. CASE Start(p)  BY <2>1 DEF Start
  <2>2. CASE StartDisabled(p)  BY <2>2 DEF StartDisabled
  <2>3. CASE Stop(p)  BY <2>3 DEF Stop, Exit
  <2>4. CASE acquireError(p)  BY <2>4 DEF acquireError
  <2>5. CASE mintError(p)  BY <2>5 DEF mintError
  <2>6. CASE Crash(p)  BY <2>6 DEF Crash, Exit
  <2>7. CASE loadError(p)
    <3>1. /\ UNCHANGED <<clock, lockFile, keyFile, certFile, metaFile, mints,
                         now, approval, minted, ca, signer, issuer>>
          /\ faults' = faults + 1
      BY <2>7 DEF loadError
    <3>2. unread' \subseteq Nat
      <4>1. certFile.id \in Nat
        BY <2>7 DEF loadError
      <4>2. unread' = unread \/ unread' = unread \cup {certFile.id}
        BY <2>7 DEF loadError
      <4> QED  BY <4>1, <4>2
    <3>4. tries' \in [Proc -> Nat]
      <4>1. tries' = tries \/ tries' = [tries EXCEPT ![p] = @ + 1]
        BY <2>7 DEF loadError
      <4> QED  BY <4>1
    <3>3. pc' \in [Proc -> Where]
      BY <2>7 DEF loadError
    <3> QED  BY <3>1, <3>2, <3>3, <3>4
  <2>8. CASE issuerReadError(p)  BY <2>8 DEF issuerReadError
  <2> QED  BY <1>4, <2>1, <2>2, <2>3, <2>4, <2>5, <2>6, <2>7, <2>8
<1> QED  BY <1>1, <1>2, <1>3, <1>4 DEF Next

\* Type correctness of the state of the authority.
THEOREM TypeCorrect == Spec => []TypeOK
BY InitType, TypeStep, PTL DEF Spec

\* The safety part of the invariant, without the types.
Safety ==
  /\ Locking /\ NowIsPast /\ MintIsDue /\ KeyBeforeCert
  /\ HeldIsReal /\ SignerIsHeld
  /\ ValidCertHasItsKey /\ ReturnedCAIsPublished /\ IssuerFollowsGate

\* Every step of ca.go, gate.go and leaf.go keeps the invariant.
LEMMA IndStep == IInv /\ [Next]_vars => IInv'
<1> SUFFICES ASSUME IInv, [Next]_vars PROVE Safety'
  BY TypeStep DEF IInv, Safety
<1> TypeOK /\ TypeOK'
  BY TypeStep DEF IInv
<1> USE DEF IInv, Safety, TypeOK, Locking, MintMutex, NowIsPast, MintIsDue,
        KeyBeforeCert, HeldIsReal, SignerIsHeld, ValidCertHasItsKey,
        ReturnedCAIsPublished, IssuerFollowsGate
<1>1. CASE UNCHANGED vars
  BY <1>1 DEF vars
<1>2. CASE Tick
  BY <1>2 DEF Tick
<1>3. ASSUME NEW p \in Proc, Step(p) PROVE Safety'
  <2>1. CASE EnsureCA(p)
    <3>1. CASE LoadsValid(p)
      <4>1. /\ ca' = [ca EXCEPT ![p] = certFile]
            /\ pc' = [pc EXCEPT ![p] = "gate"]
            /\ UNCHANGED <<clock, lockFile, keyFile, certFile, unread, now,
                           minted, signer, issuer>>
        BY <2>1, <3>1 DEF EnsureCA
      <4>2. pc[p] \notin {"readCert", "intercepting", "issuerBlind",
                          "issuerRefused", "issuerUnread"}
        BY <2>1 DEF EnsureCA
      <4>3. Locking' /\ NowIsPast' /\ MintIsDue' /\ KeyBeforeCert'
        BY <2>1, <4>1 DEF EnsureCA
      <4>4. HeldIsReal' /\ SignerIsHeld'
        BY <3>1, <4>1, <4>2
      <4>5. ValidCertHasItsKey'
        BY <4>1
      <4>6. ReturnedCAIsPublished' /\ IssuerFollowsGate'
        BY <4>1, <4>2
      <4> QED  BY <4>3, <4>4, <4>5, <4>6
    <3>2. CASE ~LoadsValid(p)
      BY <2>1, <3>2 DEF EnsureCA
    <3> QED  BY <3>1, <3>2
  <2>2. CASE acquireMintLock(p)
    BY <2>2 DEF acquireMintLock
  <2>3. CASE awaitMintLock(p)
    <3>1. CASE LoadsValid(p)
      <4>1. /\ ca' = [ca EXCEPT ![p] = certFile]
            /\ pc' = [pc EXCEPT ![p] = "gate"]
            /\ UNCHANGED <<clock, lockFile, keyFile, certFile, unread, now,
                           minted, signer, issuer>>
        BY <2>3, <3>1 DEF awaitMintLock
      <4>2. pc[p] \notin {"readCert", "intercepting", "issuerBlind",
                          "issuerRefused", "issuerUnread"}
        BY <2>3 DEF awaitMintLock
      <4>3. Locking' /\ NowIsPast' /\ MintIsDue' /\ KeyBeforeCert'
        BY <2>3, <4>1 DEF awaitMintLock
      <4>4. HeldIsReal' /\ SignerIsHeld'
        BY <3>1, <4>1, <4>2
      <4>5. ValidCertHasItsKey'
        BY <4>1
      <4>6. ReturnedCAIsPublished' /\ IssuerFollowsGate'
        BY <4>1, <4>2
      <4> QED  BY <4>3, <4>4, <4>5, <4>6
    <3>2. CASE ~LoadsValid(p)
      BY <2>3, <3>2 DEF awaitMintLock
    <3> QED  BY <3>1, <3>2
  <2>4. CASE mintLockTimeout(p)
    BY <2>4 DEF mintLockTimeout
  <2>5. CASE mintUnderLock(p)
    <3>1. CASE LoadsValid(p)
      <4>1. /\ ca' = [ca EXCEPT ![p] = certFile]
            /\ pc' = [pc EXCEPT ![p] = "releaseOK"]
            /\ UNCHANGED <<clock, lockFile, keyFile, certFile, unread, now,
                           minted, signer, issuer>>
        BY <2>5, <3>1 DEF mintUnderLock
      <4>2. pc[p] \notin {"readCert", "intercepting", "issuerBlind",
                          "issuerRefused", "issuerUnread"}
        BY <2>5 DEF mintUnderLock
      <4>3. Locking' /\ NowIsPast' /\ MintIsDue' /\ KeyBeforeCert'
        BY <2>5, <4>1 DEF mintUnderLock
      <4>4. HeldIsReal' /\ SignerIsHeld'
        BY <3>1, <4>1, <4>2
      <4>5. ValidCertHasItsKey'
        BY <4>1
      <4>6. ReturnedCAIsPublished' /\ IssuerFollowsGate'
        BY <4>1, <4>2
      <4> QED  BY <4>3, <4>4, <4>5, <4>6
    <3>2. CASE ~LoadsValid(p)
      BY <2>5, <3>2 DEF mintUnderLock
    <3> QED  BY <3>1, <3>2
  <2>6. CASE mintCA(p)
    BY <2>6 DEF mintCA
  <2>7. CASE OpenKey(p)
    BY <2>7 DEF OpenKey
  <2>8. CASE WriteKey(p)
    BY <2>8 DEF WriteKey
  <2>9. CASE OpenCert(p)
    BY <2>9 DEF OpenCert
  <2>10. CASE WriteCert(p)
    BY <2>10 DEF WriteCert
  <2>11. CASE OpenMeta(p)
    BY <2>11 DEF OpenMeta
  <2>12. CASE WriteMeta(p)
    BY <2>12 DEF WriteMeta
  <2>13. CASE releaseMintLock(p)
    BY <2>13 DEF releaseMintLock
  <2>14. CASE EvaluateGate(p)
    BY <2>14 DEF EvaluateGate, approvalMismatch
  <2>15. CASE loadCASigner(p)
    <3>1. UNCHANGED <<clock, lockFile, keyFile, certFile, unread, now, minted,
                      ca, issuer>>
      BY <2>15 DEF loadCASigner
    <3>2. CASE keyFile \in {Absent, Torn}
      BY <2>15, <3>1, <3>2 DEF loadCASigner, IssuerFails
    <3>3. CASE keyFile \notin {Absent, Torn}
      <4>1. /\ signer' = [signer EXCEPT ![p] = keyFile]
            /\ pc' = [pc EXCEPT ![p] = "readCert"]
            /\ pc[p] = "readKey"
        BY <2>15, <3>3 DEF loadCASigner
      <4>2. SignerIsHeld' /\ IssuerFollowsGate'
        BY <3>1, <3>3, <4>1
      <4>3. Locking' /\ NowIsPast' /\ MintIsDue' /\ KeyBeforeCert'
        BY <3>1, <4>1
      <4>4. HeldIsReal' /\ ValidCertHasItsKey' /\ ReturnedCAIsPublished'
        BY <3>1, <4>1
      <4> QED  BY <4>2, <4>3, <4>4
    <3> QED  BY <3>2, <3>3
  <2>16. CASE NewLeafIssuer(p)
    BY <2>16 DEF NewLeafIssuer, IssuerFails, validateCAMaterial
  <2> QED
    BY <1>3, <2>1, <2>2, <2>3, <2>4, <2>5, <2>6, <2>7, <2>8, <2>9, <2>10,
       <2>11, <2>12, <2>13, <2>14, <2>15, <2>16 DEF Step
<1>4. ASSUME NEW p \in Proc,
             \/ Start(p) \/ StartDisabled(p) \/ Stop(p)
             \/ acquireError(p) \/ loadError(p) \/ mintError(p)
             \/ issuerReadError(p) \/ Crash(p)
      PROVE  Safety'
  <2>1. CASE Start(p)
    BY <2>1 DEF Start
  <2>2. CASE StartDisabled(p)
    BY <2>2 DEF StartDisabled
  <2>3. CASE Stop(p)
    BY <2>3 DEF Stop, Exit
  <2>4. CASE acquireError(p)
    BY <2>4 DEF acquireError
  <2>5. CASE mintError(p)
    BY <2>5 DEF mintError
  <2>6. CASE Crash(p)
    BY <2>6 DEF Crash, Exit
  <2>7. CASE loadError(p)
    <3>1. CASE pc[p] = "mintUnderLock"
      <4>1. /\ pc' = [pc EXCEPT ![p] = "mintCA"]
            /\ unread' = unread \cup {certFile.id}
            /\ UNCHANGED <<clock, lockFile, keyFile, certFile, now, ca, minted,
                           signer, issuer>>
        BY <2>7, <3>1 DEF loadError
      <4>2. Locking' /\ NowIsPast' /\ MintIsDue' /\ KeyBeforeCert'
        BY <3>1, <4>1
      <4>3. HeldIsReal' /\ SignerIsHeld' /\ ValidCertHasItsKey'
        BY <3>1, <4>1
      <4>4. ReturnedCAIsPublished' /\ IssuerFollowsGate'
        BY <3>1, <4>1
      <4> QED  BY <4>2, <4>3, <4>4
    <3>2. CASE pc[p] # "mintUnderLock"
      BY <2>7, <3>2 DEF loadError
    <3> QED  BY <3>1, <3>2
  <2>8. CASE issuerReadError(p)
    BY <2>8 DEF issuerReadError
  <2> QED  BY <1>4, <2>1, <2>2, <2>3, <2>4, <2>5, <2>6, <2>7, <2>8
<1> QED  BY <1>1, <1>2, <1>3, <1>4 DEF Next

\* The invariant of the authority, for every number of processes, crashes and
\* errors.
THEOREM Invariance == Spec => []IInv
BY InitIInv, IndStep, PTL DEF Spec

\* At most one process mints at a time (acquireMintLock's O_EXCL lock file).
THEOREM MintMutexHolds == Spec => []MintMutex
<1>1. IInv => MintMutex  BY DEF IInv, Locking
<1> QED  BY Invariance, <1>1, PTL

\* A valid certificate on disk always belongs to the key on disk, unless a holder
\* of the lock could not read it and mints over it.
THEOREM ValidCertHasItsKeyHolds == Spec => []ValidCertHasItsKey
<1>1. IInv => ValidCertHasItsKey  BY DEF IInv
<1> QED  BY Invariance, <1>1, PTL

\* Every CA that EnsureCA returned is the published one as long as it lasts.
THEOREM ReturnedCAIsPublishedHolds == Spec => []ReturnedCAIsPublished
<1>1. IInv => ReturnedCAIsPublished  BY DEF IInv
<1> QED  BY Invariance, <1>1, PTL

\* The leaf issuer departs from the gate's CA only after that CA ceased to last.
THEOREM IssuerFollowsGateHolds == Spec => []IssuerFollowsGate
<1>1. IInv => IssuerFollowsGate  BY DEF IInv
<1> QED  BY Invariance, <1>1, PTL

-----------------------------------------------------------------------------
(* The leaf cache                                                          *)

\* A sequence without repetition, and what is in it.
Distinct(s) == \A i, j \in 1..Len(s) : s[i] = s[j] => i = j
Has(s, h) == \E i \in 1..Len(s) : s[i] = h

\* The names and limits, the times, and the keys of the map.
LeafTyped ==
  /\ CacheIsSound
  /\ time \in Nat /\ asked \in [Caller -> Nat]
  /\ at \in [Caller -> {"idle", "look", "create", "store", "served", "error"}]
  /\ key \in [Caller -> Host \cup {NoHost}]
  /\ DOMAIN made = Caller /\ DOMAIN got = Caller
  /\ DOMAIN cache = Host /\ lru \in Seq(Host)

\* The order lists the cached hosts, each of them once, and not too many.
OrderTells ==
  /\ Distinct(lru) /\ Len(lru) <= MaxLeaves
  /\ \A h \in Host : cache[h] # NoLeaf <=> Has(lru, h)

\* A cached leaf is one for its key.
CacheTells ==
  \A h \in Host : cache[h] # NoLeaf =>
    cache[h].host = h /\ cache[h].notAfter \in Nat

\* A handshake looks for a host that its client named, at a time that is past, and
\* signs for both.
CallTells(c) ==
  /\ asked[c] <= time
  /\ at[c] \in {"look", "create", "store"} => key[c] \in Host
  /\ at[c] = "store" => made[c].host = key[c] /\ made[c].notAfter = asked[c] + LeafTTL
  /\ at[c] = "served" => got[c].host = key[c] /\ asked[c] < got[c].notAfter

\* The inductive invariant of the cache.
LeafInv == LeafTyped /\ OrderTells /\ CacheTells /\ \A c \in Caller : CallTells(c)

\* touchLRU moves a host that is in the order to its end.
LEMMA Touched ==
  ASSUME NEW s \in Seq(Host), Distinct(s), NEW h \in Host, Has(s, h)
  PROVE  LET t == touchLRU(s, h)
         IN  /\ t \in Seq(Host) /\ Len(t) = Len(s) /\ Distinct(t)
             /\ \A g \in Host : Has(t, g) <=> Has(s, g)
<1>1. PICK k \in 1..Len(s) : s[k] = h
  BY DEF Has
<1>2. RemoveFirst(s, h) = SubSeq(s, 1, k - 1) \o SubSeq(s, k + 1, Len(s))
  <2>1. {i \in 1..Len(s) : s[i] = h} = {k}
    BY <1>1 DEF Distinct
  <2>2. Min({k}) = k
    BY <1>1 DEF Min
  <2>3. SelectInSeq(s, LAMBDA v : v = h) = k
    BY <2>1, <2>2 DEF SelectInSeq
  <2> QED  BY <1>1, <2>3 DEF RemoveFirst, RemoveAt
<1> DEFINE u == SubSeq(s, 1, k - 1)
           v == SubSeq(s, k + 1, Len(s))
           t == Append(u \o v, h)
<1>3. touchLRU(s, h) = t
  BY <1>2 DEF touchLRU
<1>4. u \in Seq(Host) /\ Len(u) = k - 1 /\ \A i \in 1..(k - 1) : u[i] = s[i]
  BY <1>1
<1>5. v \in Seq(Host) /\ Len(v) = Len(s) - k /\ \A i \in 1..(Len(s) - k) : v[i] = s[i + k]
  BY <1>1
<1> HIDE DEF u, v
<1> DEFINE w == u \o v
<1>w. /\ w \in Seq(Host) /\ Len(w) = Len(s) - 1
      /\ \A i \in 1..(Len(s) - 1) : w[i] = IF i < k THEN s[i] ELSE s[i + 1]
  <2>0. u \in Seq(Host) /\ v \in Seq(Host)
    BY <1>4, <1>5
  <2>1. w \in Seq(Host) /\ Len(w) = Len(u) + Len(v)
    BY <2>0
  <2>2. \A i \in 1..Len(w) : w[i] = IF i <= Len(u) THEN u[i] ELSE v[i - Len(u)]
    BY <2>0
  <2> HIDE DEF w
  <2>3. Len(w) = Len(s) - 1 /\ k \in Int /\ Len(s) \in Nat
    BY <1>1, <1>4, <1>5, <2>1
  <2>4. ASSUME NEW i \in 1..(Len(s) - 1) PROVE w[i] = IF i < k THEN s[i] ELSE s[i + 1]
    <3>1. CASE i < k
      BY <1>4, <2>2, <2>3, <3>1
    <3>2. CASE i >= k
      <4>1. i - (k - 1) \in 1..(Len(s) - k) /\ i - (k - 1) + k = i + 1
        BY <1>1, <2>3, <3>2
      <4>2. w[i] = v[i - (k - 1)]
        <5>1. i \in 1..Len(w) /\ Len(u) = k - 1 /\ ~(i <= k - 1)
          BY <1>4, <2>3, <3>2
        <5> QED  BY <2>2, <5>1
      <4> QED  BY <1>5, <3>2, <4>1, <4>2
    <3> QED  BY <2>3, <3>1, <3>2
  <2> QED  BY <2>1, <2>3, <2>4
<1> HIDE DEF w
<1>6. /\ t \in Seq(Host) /\ Len(t) = Len(s)
      /\ \A i \in 1..Len(s) :
           t[i] = IF i < k THEN s[i] ELSE IF i < Len(s) THEN s[i + 1] ELSE h
  <2>1. t = Append(w, h)
    BY DEF w
  <2> QED  BY <1>1, <1>w, <2>1
<1> HIDE DEF t
<1>7. Distinct(t)
  BY <1>1, <1>6 DEF Distinct
<1>8. ASSUME NEW g \in Host PROVE Has(t, g) <=> Has(s, g)
  <2>1. ASSUME NEW i \in 1..Len(s), s[i] = g PROVE Has(t, g)
    <3>1. CASE i < k
      <4>1. t[i] = g
        BY <1>6, <2>1, <3>1
      <4> QED  BY <1>6, <4>1 DEF Has
    <3>2. CASE i = k
      <4>1. t[Len(s)] = g /\ Len(s) \in 1..Len(s)
        BY <1>1, <1>6, <2>1, <3>2
      <4> QED  BY <1>6, <4>1 DEF Has
    <3>3. CASE i > k
      <4>1. i - 1 \in 1..Len(s) /\ t[i - 1] = g
        <5>1. /\ i - 1 \in 1..Len(s) /\ ~(i - 1 < k) /\ i - 1 < Len(s)
              /\ (i - 1) + 1 = i
          BY <1>1, <2>1, <3>3
        <5>2. t[i - 1] = s[(i - 1) + 1]
          BY <1>6, <5>1
        <5> QED  BY <2>1, <5>1, <5>2
      <4> QED  BY <1>6, <4>1 DEF Has
    <3> QED  BY <1>1, <3>1, <3>2, <3>3
  <2>2. ASSUME NEW i \in 1..Len(s), t[i] = g PROVE Has(s, g)
    BY <1>1, <1>6, <2>2 DEF Has
  <2> QED  BY <1>6, <2>1, <2>2 DEF Has
<1> QED  BY <1>3, <1>6, <1>7, <1>8

\* A host that is new goes to the end.
LEMMA Appended ==
  ASSUME NEW s \in Seq(Host), Distinct(s), NEW h \in Host, ~Has(s, h)
  PROVE  LET t == Append(s, h)
         IN  /\ t \in Seq(Host) /\ Len(t) = Len(s) + 1 /\ Distinct(t)
             /\ \A g \in Host : Has(t, g) <=> Has(s, g) \/ g = h
<1> DEFINE t == Append(s, h)
<1>1. t \in Seq(Host) /\ Len(t) = Len(s) + 1 /\ Len(s) \in Nat
  OBVIOUS
<1>2. t[Len(s) + 1] = h /\ \A i \in 1..Len(s) : t[i] = s[i]
  OBVIOUS
<1> HIDE DEF t
<1>3. Distinct(t)
  <2> SUFFICES ASSUME NEW i \in 1..Len(t), NEW j \in 1..Len(t), t[i] = t[j] PROVE i = j
    BY DEF Distinct
  <2>1. CASE i \in 1..Len(s) /\ j \in 1..Len(s)
    BY <1>2, <2>1 DEF Distinct
  <2>2. CASE i = Len(s) + 1 \/ j = Len(s) + 1
    BY <1>1, <1>2, <2>2 DEF Has
  <2> QED  BY <1>1, <2>1, <2>2
<1>4. \A g \in Host : Has(t, g) <=> Has(s, g) \/ g = h
  BY <1>1, <1>2 DEF Has
<1> QED  BY <1>1, <1>3, <1>4 DEF t

\* Eviction takes the first host out of the order.
LEMMA Popped ==
  ASSUME NEW s \in Seq(Host), Distinct(s), s # <<>>
  PROVE  LET t == Tail(s)
         IN  /\ t \in Seq(Host) /\ Len(t) = Len(s) - 1 /\ Distinct(t)
             /\ Head(s) \in Host
             /\ \A g \in Host : Has(t, g) <=> Has(s, g) /\ g # Head(s)
<1> DEFINE t == Tail(s)
<1>1. /\ t \in Seq(Host) /\ Len(t) = Len(s) - 1 /\ Len(s) \in Nat \ {0}
      /\ Head(s) \in Host /\ Head(s) = s[1] /\ \A i \in 1..Len(t) : t[i] = s[i + 1]
  OBVIOUS
<1> HIDE DEF t
<1>2. Distinct(t)
  BY <1>1 DEF Distinct
<1>3. ASSUME NEW g \in Host PROVE Has(t, g) <=> Has(s, g) /\ g # Head(s)
  <2>1. ASSUME NEW i \in 1..Len(t), t[i] = g PROVE Has(s, g) /\ g # Head(s)
    <3>1. i + 1 \in 1..Len(s) /\ 1 \in 1..Len(s) /\ s[i + 1] = g
      BY <1>1, <2>1
    <3> QED  BY <1>1, <3>1 DEF Distinct, Has
  <2>2. ASSUME NEW i \in 1..Len(s), s[i] = g, g # Head(s) PROVE Has(t, g)
    <3>1. i - 1 \in 1..Len(t) /\ t[i - 1] = g
      BY <1>1, <2>2
    <3> QED  BY <3>1 DEF Has
  <2> QED  BY <2>1, <2>2 DEF Has
<1> QED  BY <1>1, <1>2, <1>3 DEF t

\* As many hosts are in the order as it is long.
LEMMA Counts ==
  ASSUME NEW s \in Seq(Host), Distinct(s)
  PROVE  Cardinality({g \in Host : Has(s, g)}) = Len(s)
<1> DEFINE S == {g \in Host : Has(s, g)}
           f == [i \in 1..Len(s) |-> s[i]]
<1>1. Len(s) \in Nat /\ \A i \in 1..Len(s) : s[i] \in Host
  OBVIOUS
<1>2. f \in Bijection(1..Len(s), S)
  BY <1>1 DEF Bijection, Injection, Surjection, IsInjective, Distinct, Has
<1>3. IsFiniteSet(1..Len(s)) /\ Cardinality(1..Len(s)) = Len(s)
  <2>1. 1 \in Int /\ Len(s) \in Int /\ (1 > Len(s) => Len(s) = 0)
    BY <1>1
  <2>2. /\ IsFiniteSet(1..Len(s))
        /\ Cardinality(1..Len(s)) = IF 1 > Len(s) THEN 0 ELSE Len(s) - 1 + 1
    BY <2>1, FS_Interval
  <2> QED  BY <1>1, <2>1, <2>2
<1> HIDE DEF S, f
<1>4. Cardinality(S) = Cardinality(1..Len(s))
  <2>1. ExistsBijection(1..Len(s), S)
    BY <1>2 DEF ExistsBijection
  <2> QED  BY <1>2, <1>3, <2>1, FS_Bijection
<1> QED  BY <1>3, <1>4 DEF S

\* An empty cache.
LEMMA LeafInvInit == LeafInit => LeafInv
<1> SUFFICES ASSUME CacheIsSound, LeafInit PROVE LeafInv
  BY CacheAssumption
<1>1. LeafTyped /\ OrderTells
  BY DEF LeafInit, LeafTyped, OrderTells, Distinct, Has, CacheIsSound
<1> QED  BY <1>1 DEF LeafInit, LeafInv, CacheTells, CallTells

\* A hit moves the host to the recent end and changes nothing else.
LEMMA HitKeeps ==
  ASSUME LeafInv, NEW h \in Host, NEW t, cacheHit(h, t),
         lru' = touchLRU(lru, h), UNCHANGED cache
  PROVE  lru' \in Seq(Host) /\ DOMAIN cache' = Host /\ OrderTells' /\ CacheTells'
<1>1. Has(lru, h)
  BY DEF LeafInv, OrderTells, cacheHit
<1>2. /\ lru' \in Seq(Host) /\ Len(lru') = Len(lru) /\ Distinct(lru')
      /\ \A g \in Host : Has(lru', g) <=> Has(lru, g)
  BY <1>1, Touched DEF LeafInv, LeafTyped, OrderTells
<1>3. OrderTells'
  BY <1>2 DEF LeafInv, OrderTells, NoLeaf
<1> QED  BY <1>2, <1>3 DEF LeafInv, LeafTyped, CacheTells, NoLeaf

\* cachePut: the order after the new leaf is in has as many hosts as the map, so
\* the victim is there and one eviction is enough.
LEMMA PutKeeps ==
  ASSUME LeafInv, NEW h \in Host, NEW leaf, leaf # NoLeaf, leaf.host = h,
         leaf.notAfter \in Nat, cachePut(h, leaf)
  PROVE  /\ lru' \in Seq(Host) /\ DOMAIN cache' = Host /\ OrderTells' /\ CacheTells'
         /\ \A g \in Host \ {h} : cache'[g] \in {cache[g], NoLeaf}
<1> DEFINE order == IF cache[h] = NoLeaf THEN Append(lru, h)
                                                ELSE touchLRU(lru, h)
           filled == [cache EXCEPT ![h] = leaf]
           full == Cardinality({g \in Host : filled[g] # NoLeaf}) > MaxLeaves
<1>1. /\ lru \in Seq(Host) /\ DOMAIN cache = Host /\ Len(lru) \in Nat
      /\ MaxLeaves \in Nat \ {0} /\ Len(lru) <= MaxLeaves /\ Distinct(lru)
      /\ \A g \in Host : cache[g] # NoLeaf <=> Has(lru, g)
  BY DEF LeafInv, LeafTyped, OrderTells, CacheIsSound
<1>2. /\ lru' = IF full THEN Tail(order) ELSE order
      /\ cache' = IF full THEN [filled EXCEPT ![Head(order)] = NoLeaf] ELSE filled
  BY DEF cachePut
<1>3. /\ DOMAIN filled = Host /\ filled[h] = leaf
      /\ \A g \in Host \ {h} : filled[g] = cache[g]
  BY <1>1
<1> HIDE DEF filled
<1>4. /\ order \in Seq(Host) /\ Distinct(order)
      /\ \A g \in Host : Has(order, g) <=> Has(lru, g) \/ g = h
      /\ Len(order) <= Len(lru) + 1 /\ Len(order) \in Nat
  <2>1. CASE cache[h] = NoLeaf
    BY <1>1, <2>1, Appended
  <2>2. CASE cache[h] # NoLeaf
    BY <1>1, <2>2, Touched
  <2> QED  BY <2>1, <2>2
<1> HIDE DEF order
<1>5. \A g \in Host : filled[g] # NoLeaf <=> Has(order, g)
  BY <1>1, <1>3, <1>4
<1>6. full <=> Len(order) > MaxLeaves
  <2>1. {g \in Host : filled[g] # NoLeaf} = {g \in Host : Has(order, g)}
    BY <1>5
  <2>2. Cardinality({g \in Host : Has(order, g)}) = Len(order)
    BY <1>4, Counts
  <2> QED  BY <2>1, <2>2
<1> HIDE DEF full
<1>7. CASE ~full
  <2>1. OrderTells'
    BY <1>1, <1>2, <1>4, <1>5, <1>6, <1>7 DEF OrderTells, NoLeaf
  <2>2. CacheTells'
    BY <1>2, <1>3, <1>7 DEF CacheTells, LeafInv, NoLeaf
  <2> QED  BY <1>2, <1>3, <1>4, <1>7, <2>1, <2>2
<1>8. CASE full
  <2> DEFINE v == Head(order)
  <2>1. order # <<>>
    BY <1>1, <1>4, <1>6, <1>8
  <2>2. /\ Tail(order) \in Seq(Host) /\ Len(Tail(order)) = Len(order) - 1
        /\ Distinct(Tail(order)) /\ v \in Host
        /\ \A g \in Host : Has(Tail(order), g) <=> Has(order, g) /\ g # v
    BY <1>4, <2>1, Popped
  <2> HIDE DEF v
  <2>3. /\ lru' = Tail(order) /\ cache' = [filled EXCEPT ![v] = NoLeaf]
    BY <1>2, <1>8 DEF v
  <2>4. /\ DOMAIN cache' = Host /\ cache'[v] = NoLeaf
        /\ \A g \in Host \ {v} : cache'[g] = filled[g]
    BY <1>3, <2>2, <2>3
  <2>5. OrderTells'
    BY <1>1, <1>4, <1>5, <2>2, <2>3, <2>4 DEF OrderTells, NoLeaf
  <2>6. CacheTells'
    BY <1>3, <2>2, <2>4 DEF CacheTells, LeafInv, NoLeaf
  <2> QED  BY <1>3, <2>2, <2>3, <2>4, <2>5, <2>6
<1> QED  BY <1>7, <1>8

\* A second look that misses stores a leaf for the caller's host.
LEMMA MadeLeaf ==
  ASSUME LeafInv, NEW c \in Caller, at[c] = "store"
  PROVE  /\ key[c] \in Host /\ made[c] # NoLeaf /\ made[c].host = key[c]
         /\ made[c].notAfter \in Nat /\ asked[c] < made[c].notAfter
<1>1. /\ key[c] \in Host /\ made[c].host = key[c]
      /\ made[c].notAfter = asked[c] + LeafTTL
      /\ asked[c] \in Nat /\ LeafTTL \in Nat \ {0} /\ NoHost \notin Host
  BY DEF LeafInv, LeafTyped, CallTells, CacheIsSound
<1> QED  BY <1>1 DEF NoLeaf

\* A leaf that is served from the cache is for the host and not due.
LEMMA HitIsValid ==
  ASSUME LeafInv, NEW c \in Caller, key[c] \in Host, cacheHit(key[c], asked[c])
  PROVE  cache[key[c]].host = key[c] /\ asked[c] < cache[key[c]].notAfter
<1>1. /\ cache[key[c]] # NoLeaf
      /\ asked[c] < cache[key[c]].notAfter - RenewalSkew
  BY DEF cacheHit
<1>2. cache[key[c]].host = key[c] /\ cache[key[c]].notAfter \in Nat
  BY <1>1 DEF LeafInv, CacheTells
<1>3. RenewalSkew \in Nat /\ asked[c] \in Nat
  BY DEF LeafInv, LeafTyped, CacheIsSound
<1> QED  BY <1>1, <1>2, <1>3

\* The steps of a handshake.
LEMMA HandshakeKeeps ==
  ASSUME LeafInv, NEW c \in Caller,
         \/ GetCertificate(c) \/ LookUp(c) \/ createLeaf(c)
         \/ createError(c) \/ Store(c) \/ Done(c)
  PROVE  LeafInv'
<1>0. /\ LeafTyped /\ OrderTells /\ CacheTells /\ CallTells(c)
      /\ \A d \in Caller : CallTells(d)
  BY DEF LeafInv
<1>1. CASE GetCertificate(c)
  <2>1. PICK n \in Name :
          /\ key' = [key EXCEPT ![c] = normalizeHost[n]]
          /\ at' = [at EXCEPT ![c] = IF normalizeHost[n] = NoHost THEN "error" ELSE "look"]
    BY <1>1 DEF GetCertificate
  <2>2. normalizeHost[n] \in Host \cup {NoHost}
    BY <1>0 DEF LeafTyped, CacheIsSound
  <2>3. asked' = [asked EXCEPT ![c] = time] /\ UNCHANGED <<time, cache, lru, made, got>>
    BY <1>1 DEF GetCertificate
  <2>4. LeafTyped'
    BY <1>0, <2>1, <2>2, <2>3 DEF LeafTyped, CacheIsSound
  <2>5. \A d \in Caller : CallTells(d)'
    BY <1>0, <2>1, <2>2, <2>3 DEF LeafTyped, CallTells
  <2> QED  BY <1>0, <2>3, <2>4, <2>5 DEF LeafInv, OrderTells, CacheTells, NoLeaf
<1>2. CASE LookUp(c) \/ Store(c)
  <2>1. UNCHANGED <<time, key, asked>> /\ at[c] \in {"look", "store"} /\ key[c] \in Host
    BY <1>0, <1>2 DEF LookUp, Store, CallTells
  <2>2. CASE /\ cacheHit(key[c], asked[c]) /\ UNCHANGED cache
             /\ lru' = touchLRU(lru, key[c]) /\ Serve(c, cache[key[c]])
    <3>1. lru' \in Seq(Host) /\ DOMAIN cache' = Host /\ OrderTells' /\ CacheTells'
      BY <2>1, <2>2, HitKeeps
    <3>2. cache[key[c]].host = key[c] /\ asked[c] < cache[key[c]].notAfter
      BY <2>1, <2>2, HitIsValid
    <3>3. LeafTyped'
      BY <1>0, <2>1, <2>2, <3>1 DEF LeafTyped, Serve, CacheIsSound
    <3>4. \A d \in Caller : CallTells(d)'
      BY <1>0, <2>1, <2>2, <3>2 DEF LeafTyped, CallTells, Serve
    <3> QED  BY <3>1, <3>3, <3>4 DEF LeafInv
  <2>3. CASE /\ at[c] = "look" /\ at' = [at EXCEPT ![c] = "create"]
             /\ UNCHANGED <<cache, lru, made, got>>
    <3>1. LeafTyped'
      BY <1>0, <2>1, <2>3 DEF LeafTyped, CacheIsSound
    <3>2. \A d \in Caller : CallTells(d)'
      BY <1>0, <2>1, <2>3 DEF LeafTyped, CallTells
    <3> QED  BY <1>0, <2>3, <3>1, <3>2 DEF LeafInv, OrderTells, CacheTells, NoLeaf
  <2>4. CASE /\ at[c] = "store" /\ cachePut(key[c], made[c])
             /\ Serve(c, made[c])
    <3>1. /\ made[c] # NoLeaf /\ made[c].host = key[c]
          /\ made[c].notAfter \in Nat /\ asked[c] < made[c].notAfter
      BY <2>4, MadeLeaf
    <3>2. lru' \in Seq(Host) /\ DOMAIN cache' = Host /\ OrderTells' /\ CacheTells'
      BY <2>1, <2>4, <3>1, PutKeeps
    <3>3. LeafTyped'
      BY <1>0, <2>1, <2>4, <3>2 DEF LeafTyped, Serve, CacheIsSound
    <3>4. \A d \in Caller : CallTells(d)'
      BY <1>0, <2>1, <2>4, <3>1 DEF LeafTyped, CallTells, Serve
    <3> QED  BY <3>2, <3>3, <3>4 DEF LeafInv
  <2> QED  BY <1>2, <2>2, <2>3, <2>4 DEF LookUp, Store
<1>3. CASE createLeaf(c)
  <2>1. PICK id : made' = [made EXCEPT ![c] = [id |-> id, host |-> key[c],
                                               notAfter |-> asked[c] + LeafTTL]]
    BY <1>3 DEF createLeaf
  <2>2. /\ at[c] = "create" /\ at' = [at EXCEPT ![c] = "store"]
        /\ UNCHANGED <<time, cache, lru, key, asked, got>>
    BY <1>3 DEF createLeaf
  <2>3. LeafTyped'
    BY <1>0, <2>1, <2>2 DEF LeafTyped, CacheIsSound
  <2>4. \A d \in Caller : CallTells(d)'
    BY <1>0, <2>1, <2>2 DEF LeafTyped, CallTells
  <2> QED  BY <1>0, <2>2, <2>3, <2>4 DEF LeafInv, OrderTells, CacheTells, NoLeaf
<1>4. CASE createError(c)
  <2>1. /\ at' = [at EXCEPT ![c] = "error"]
        /\ UNCHANGED <<time, cache, lru, key, asked, made, got>>
    BY <1>4 DEF createError
  <2>2. LeafTyped'
    BY <1>0, <2>1 DEF LeafTyped, CacheIsSound
  <2>3. \A d \in Caller : CallTells(d)'
    BY <1>0, <2>1 DEF LeafTyped, CallTells
  <2> QED  BY <1>0, <2>1, <2>2, <2>3 DEF LeafInv, OrderTells, CacheTells, NoLeaf
<1>5. CASE Done(c)
  <2>1. /\ at' = [at EXCEPT ![c] = "idle"] /\ key' = [key EXCEPT ![c] = NoHost]
        /\ asked' = [asked EXCEPT ![c] = 0]
        /\ made' = [made EXCEPT ![c] = NoLeaf]
        /\ got' = [got EXCEPT ![c] = NoLeaf]
        /\ UNCHANGED <<time, cache, lru>>
    BY <1>5 DEF Done
  <2>2. LeafTyped'
    BY <1>0, <2>1 DEF LeafTyped, CacheIsSound
  <2>3. \A d \in Caller : CallTells(d)'
    BY <1>0, <2>1 DEF LeafTyped, CallTells
  <2> QED  BY <1>0, <2>1, <2>2, <2>3 DEF LeafInv, OrderTells, CacheTells, NoLeaf
<1> QED  BY <1>1, <1>2, <1>3, <1>4, <1>5

\* The invariant is inductive.
LEMMA LeafStep == LeafInv /\ [LeafNext]_leafVars => LeafInv'
<1> SUFFICES ASSUME LeafInv, [LeafNext]_leafVars PROVE LeafInv'
  OBVIOUS
<1>1. CASE LeafTick
  <2>1. time' = time + 1 /\ UNCHANGED <<cache, lru, at, key, asked, made, got>>
    BY <1>1 DEF LeafTick, call
  <2>2. \A c \in Caller : CallTells(c)'
    BY <2>1 DEF LeafInv, LeafTyped, CallTells
  <2> QED  BY <2>1, <2>2 DEF LeafInv, LeafTyped, OrderTells, CacheTells, NoLeaf,
    CacheIsSound
<1>2. CASE UNCHANGED leafVars
  BY <1>2 DEF leafVars, LeafInv, LeafTyped, OrderTells, CacheTells, CallTells,
    NoLeaf, CacheIsSound
<1> QED  BY <1>1, <1>2, HandshakeKeeps DEF LeafNext

\* The invariant holds in every behaviour of the cache.
LEMMA LeafInvariance == LeafSpec => []LeafInv
BY LeafInvInit, LeafStep, PTL DEF LeafSpec

\* However handshakes interleave, the order lists the cached hosts once each and
\* the cache keeps its limit (touchLRU, cachePut).
THEOREM LruMatchesCacheHolds == LeafSpec => []LruMatchesCache
<1>1. LeafInv => LruMatchesCache
  <2> SUFFICES ASSUME LeafInv PROVE LruMatchesCache
    OBVIOUS
  <2>1. /\ lru \in Seq(Host) /\ Distinct(lru) /\ Len(lru) <= MaxLeaves
        /\ \A h \in Host : cache[h] # NoLeaf <=> Has(lru, h)
    BY DEF LeafInv, LeafTyped, OrderTells
  <2>2. Cached = {h \in Host : Has(lru, h)}
    BY <2>1 DEF Cached
  <2>3. Len(lru) = Cardinality(Cached)
    BY <2>1, <2>2, Counts
  <2>4. ToSet(lru) = Cached
    BY <2>1, <2>2 DEF ToSet, Has
  <2> QED  BY <2>1, <2>3, <2>4 DEF LruMatchesCache
<1> QED  BY LeafInvariance, <1>1, PTL

\* Whichever path of MintLeaf answered, the leaf is for the requested host and
\* valid at the caller's time.
THEOREM ServedLeafIsValidHolds == LeafSpec => []ServedLeafIsValid
<1>1. LeafInv => ServedLeafIsValid
  BY DEF LeafInv, CallTells, ServedLeafIsValid
<1> QED  BY LeafInvariance, <1>1, PTL

\* Only a second look that misses replaces a leaf, and it misses at a time that is
\* past, so the leaf is due by now (Store).
THEOREM ReplacedOnlyWhenDueHolds == LeafSpec => ReplacedOnlyWhenDue
<1>1. ASSUME LeafInv, [LeafNext]_leafVars, NEW h \in Host,
             cache[h] # NoLeaf, cache'[h] # NoLeaf, cache'[h] # cache[h]
      PROVE  cache[h].notAfter - RenewalSkew <= time
  <2>1. PICK c \in Caller : Store(c) /\ cache' # cache
    BY <1>1 DEF LeafNext, leafVars, GetCertificate, LookUp,
       createLeaf, createError, Done, LeafTick
  <2>2. /\ at[c] = "store" /\ ~cacheHit(key[c], asked[c])
        /\ cachePut(key[c], made[c])
    BY <2>1 DEF Store
  <2>3. \A g \in Host \ {key[c]} : cache'[g] \in {cache[g], NoLeaf}
    BY <1>1, <2>2, MadeLeaf, PutKeeps
  <2>4. h = key[c]
    BY <1>1, <2>3
  <2>5. /\ asked[c] \in Nat /\ time \in Nat /\ asked[c] <= time
        /\ cache[h].notAfter \in Nat /\ RenewalSkew \in Nat
    BY <1>1 DEF LeafInv, LeafTyped, CallTells, CacheTells, CacheIsSound
  <2> QED  BY <1>1, <2>2, <2>4, <2>5 DEF cacheHit
<1>2. LeafInv /\ [LeafNext]_leafVars =>
        [\A h \in Host :
           cache[h] # NoLeaf /\ cache'[h] # NoLeaf /\ cache'[h] # cache[h] =>
             cache[h].notAfter - RenewalSkew <= time]_leafVars
  BY <1>1
<1> QED  BY LeafInvariance, <1>2, PTL DEF LeafSpec, ReplacedOnlyWhenDue
=============================================================================
