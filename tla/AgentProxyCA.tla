---------------------------- MODULE AgentProxyCA ----------------------------
(***************************************************************************)
(* The local certificate authority of the agent proxy, and the start of    *)
(* `agent-proxy intercept` up to the point where it serves: the opt-in     *)
(* gate (gate.go), EnsureCA with its on-disk mint lock (ca.go), and the    *)
(* leaf issuer that re-reads the authority from disk (leaf.go).            *)
(*                                                                         *)
(* Several processes run this code against one repository directory.  The  *)
(* shared state is four files: the lock, the key, the certificate and the  *)
(* metadata.  os.WriteFile is two steps, a truncating open and a write, so *)
(* readers, crashes and I/O errors can fall between them.  A file that is  *)
(* there can also fail to be read: EnsureCA takes that for "no CA".        *)
(*                                                                         *)
(* A certificate is [id, notAfter]; a key or a metadata file is the id of  *)
(* the mint that wrote it.  The id stands for the fingerprint.             *)
(***************************************************************************)
EXTENDS Integers, FiniteSets

CONSTANTS Proc,          \* processes that share the repository
          Validity,      \* caValidityDuration, in clock ticks
          MaxAttempts,   \* caLockMaxAttempts
          MaxClock,      \* bound: last clock value
          MaxFaults      \* bound: crashes and I/O errors in one behaviour

ASSUME ProcAssumption == IsFiniteSet(Proc)
ASSUME ValidityAssumption == Validity \in Nat \ {0}
ASSUME MaxAttemptsAssumption == MaxAttempts \in Nat \ {0}
ASSUME BoundAssumption == MaxClock \in Nat /\ MaxFaults \in Nat

\* What a file that holds no usable content reads as.
Absent == 0
Torn == -1
FileId == Nat \cup {Torn}

NoCert == [id |-> Absent, notAfter |-> 0]
TornCert == [id |-> Torn, notAfter |-> 0]
Cert == [id : FileId, notAfter : Nat]

\* No ca_approval pin is configured.
NoPin == 0

VARIABLES clock,     \* wall clock
          lockFile,  \* does mint.lock exist
          keyFile,   \* ca-key.pem
          certFile,  \* ca-cert.pem
          metaFile,  \* metadata.json
          mints,     \* how many authorities were generated so far
          faults,    \* how many crashes and I/O errors happened so far
          unread,    \* history: authorities minted over since a holder of the
                     \* lock could not read them
          pc,        \* where each process is
          now,       \* the time a process took when it started
          approval,  \* the ca_approval pin a process was started with
          tries,     \* lock attempts so far
          minted,    \* the authority a process is writing
          ca,        \* the CA value EnsureCA returned
          signer,    \* the private key NewLeafIssuer read
          issuer     \* the certificate of the leaf issuer in use

files == <<keyFile, certFile, metaFile>>
locals == <<now, approval, tries, minted, ca, signer, issuer>>
vars == <<clock, lockFile, files, mints, faults, unread, pc, locals>>

\* The program counters, in the order of the code.
Minting == {"mintUnderLock", "mintCA", "openKey", "writeKey", "openCert",
            "writeCert", "openMeta", "writeMeta"}
Releasing == {"releaseOK", "releaseErr"}
CriticalSection == Minting \cup Releasing
Running == CriticalSection \cup
           {"load", "acquire", "gate", "readKey", "readCert"}
Ended == {"idle", "intercepting", "blind", "refused", "issuerBlind",
          "issuerRefused", "issuerUnread", "failed"}
Where == Running \cup Ended

TypeOK ==
  /\ clock \in Nat /\ mints \in Nat /\ faults \in Nat
  /\ unread \subseteq Nat
  /\ lockFile \in BOOLEAN
  /\ keyFile \in FileId /\ metaFile \in FileId
  /\ certFile \in Cert
  /\ pc \in [Proc -> Where]
  /\ now \in [Proc -> Nat] /\ tries \in [Proc -> Nat]
  /\ approval \in [Proc -> Nat]
  /\ minted \in [Proc -> Cert] /\ ca \in [Proc -> Cert]
  /\ signer \in [Proc -> FileId] /\ issuer \in [Proc -> Cert]

Init ==
  /\ clock = 0 /\ mints = 0 /\ faults = 0 /\ unread = {}
  /\ lockFile = FALSE
  /\ keyFile = Absent /\ certFile = NoCert /\ metaFile = Absent
  /\ pc = [p \in Proc |-> "idle"]
  /\ now = [p \in Proc |-> 0] /\ tries = [p \in Proc |-> 0]
  /\ approval = [p \in Proc |-> NoPin]
  /\ minted = [p \in Proc |-> NoCert] /\ ca = [p \in Proc |-> NoCert]
  /\ signer = [p \in Proc |-> Absent] /\ issuer = [p \in Proc |-> NoCert]

goto(p, place) == pc' = [pc EXCEPT ![p] = place]
Fault == faults < MaxFaults /\ faults' = faults + 1

-----------------------------------------------------------------------------
\* Load, when its reads succeed (loadError is when they fail): the certificate
\* decodes and parses, and the key file is there.  The key is created before
\* the first certificate and nothing removes it, so the stat that follows the
\* read is part of the same step.
Loads == certFile.id \notin {Absent, Torn} /\ keyFile # Absent
LoadsValid(p) == Loads /\ now[p] < certFile.notAfter

\* runAgentProxyIntercept takes the time once and evaluates the gate.  With
\* mode "required" and the environment opt-in set, Evaluate calls EnsureCA.
Start(p) ==
  /\ pc[p] = "idle"
  /\ now' = [now EXCEPT ![p] = clock]
  /\ \E pin \in 0..mints : approval' = [approval EXCEPT ![p] = pin]
  /\ goto(p, "load")
  /\ UNCHANGED <<clock, lockFile, files, mints, faults, unread, tries, minted,
                 ca, signer, issuer>>

\* The gate is off, or the opt-in is missing (stale-config guard): fail_closed
\* refuses to start, passthrough tunnels blindly.
StartDisabled(p) ==
  /\ pc[p] = "idle"
  /\ \E onError \in {"refused", "blind"} : goto(p, onError)
  /\ UNCHANGED <<clock, lockFile, files, mints, faults, unread, locals>>

\* EnsureCA's first look, without the lock.
EnsureCA(p) ==
  /\ pc[p] = "load"
  /\ \/ /\ LoadsValid(p)
        /\ ca' = [ca EXCEPT ![p] = certFile]
        /\ goto(p, "gate")
     \/ /\ ~LoadsValid(p)
        /\ goto(p, "acquire")
        /\ UNCHANGED ca
  /\ UNCHANGED <<clock, lockFile, files, mints, faults, unread, now, approval,
                 tries, minted, signer, issuer>>

\* Mutant: Takes the lock without O_EXCL.
MutantAcquireNoExcl(p) ==
  /\ pc[p] = "acquire" /\ tries[p] < MaxAttempts
  /\ lockFile' = TRUE
  /\ goto(p, "mintUnderLock")
  /\ UNCHANGED <<clock, files, mints, faults, unread, locals>>

\* acquireMintLock: the O_EXCL create wins.
acquireMintLock(p) ==
  /\ pc[p] = "acquire"
  /\ tries[p] < MaxAttempts
  /\ ~lockFile
  /\ lockFile' = TRUE
  /\ goto(p, "mintUnderLock")
  /\ UNCHANGED <<clock, files, mints, faults, unread, locals>>

\* Mutant: Retries without counting the attempt.
MutantAwaitUnbounded(p) ==
  /\ pc[p] = "acquire" /\ tries[p] < MaxAttempts /\ lockFile
  /\ \/ LoadsValid(p) /\ ca' = [ca EXCEPT ![p] = certFile] /\ goto(p, "gate")
     \/ ~LoadsValid(p) /\ UNCHANGED <<ca, pc>>
  /\ UNCHANGED <<clock, lockFile, files, mints, faults, unread, now, approval,
                 tries, minted, signer, issuer>>

\* The lock file exists: look for the authority its holder published, else
\* sleep and try again.
awaitMintLock(p) ==
  /\ pc[p] = "acquire"
  /\ tries[p] < MaxAttempts
  /\ lockFile
  /\ \/ /\ LoadsValid(p)
        /\ ca' = [ca EXCEPT ![p] = certFile]
        /\ goto(p, "gate")
        /\ UNCHANGED tries
     \/ /\ ~LoadsValid(p)
        /\ tries' = [tries EXCEPT ![p] = @ + 1]
        /\ UNCHANGED <<ca, pc>>
  /\ UNCHANGED <<clock, lockFile, files, mints, faults, unread, now, approval,
                 minted, signer, issuer>>

\* ErrCAMintLockTimeout.
mintLockTimeout(p) ==
  /\ pc[p] = "acquire"
  /\ tries[p] = MaxAttempts
  /\ goto(p, "failed")
  /\ UNCHANGED <<clock, lockFile, files, mints, faults, unread, locals>>

\* MkdirAll or the lock's open fails for another reason than "exists".
acquireError(p) ==
  /\ pc[p] = "acquire"
  /\ Fault
  /\ goto(p, "failed")
  /\ UNCHANGED <<clock, lockFile, files, mints, unread, locals>>

\* Mutant: No second look under the lock.
MutantMintWithoutRecheck(p) ==
  /\ pc[p] = "mintUnderLock"
  /\ goto(p, "mintCA")
  /\ UNCHANGED <<clock, lockFile, files, mints, faults, unread, locals>>

\* The second look, under the lock.
mintUnderLock(p) ==
  /\ pc[p] = "mintUnderLock"
  /\ \/ /\ LoadsValid(p)
        /\ ca' = [ca EXCEPT ![p] = certFile]
        /\ goto(p, "releaseOK")
     \/ /\ ~LoadsValid(p)
        /\ goto(p, "mintCA")
        /\ UNCHANGED ca
  /\ UNCHANGED <<clock, lockFile, files, mints, faults, unread, now, approval,
                 tries, minted, signer, issuer>>

\* Load fails on an authority that is there and valid: the certificate cannot
\* be read, or the key's stat fails.  Each of the three looks takes any error for
\* "no CA", so that the holder of the lock mints over a valid authority.
loadError(p) ==
  /\ LoadsValid(p)
  /\ Fault
  /\ \/ /\ pc[p] = "load"
        /\ goto(p, "acquire")
        /\ UNCHANGED <<tries, unread>>
     \/ /\ pc[p] = "acquire" /\ tries[p] < MaxAttempts /\ lockFile
        /\ tries' = [tries EXCEPT ![p] = @ + 1]
        /\ UNCHANGED <<pc, unread>>
     \/ /\ pc[p] = "mintUnderLock"
        /\ goto(p, "mintCA")
        /\ unread' = unread \cup {certFile.id}
        /\ UNCHANGED tries
  /\ UNCHANGED <<clock, lockFile, files, mints, now, approval, minted, ca,
                 signer, issuer>>

\* Mutant: the validity is subtracted from the caller's time.
MutantMintBackdated(p) ==
  /\ pc[p] = "mintCA"
  /\ mints' = mints + 1
  /\ minted' = [minted EXCEPT
                  ![p] = [id |-> mints + 1, notAfter |-> now[p] - Validity]]
  /\ goto(p, "openKey")
  /\ UNCHANGED <<clock, lockFile, files, faults, unread, now, approval, tries,
                 ca, signer, issuer>>

\* A fresh key and a self-signed certificate valid from the caller's time.
mintCA(p) ==
  /\ pc[p] = "mintCA"
  /\ mints' = mints + 1
  /\ minted' = [minted EXCEPT
                  ![p] = [id |-> mints + 1, notAfter |-> now[p] + Validity]]
  /\ goto(p, "openKey")
  /\ UNCHANGED <<clock, lockFile, files, faults, unread, now, approval, tries,
                 ca, signer, issuer>>

-----------------------------------------------------------------------------
\* Mutant: Publishes the certificate before the key.
MutantOpenKeyLate(p) ==
  /\ pc[p] = "openKey"
  /\ certFile' = minted[p]
  /\ keyFile' = Torn
  /\ goto(p, "writeKey")
  /\ UNCHANGED <<clock, lockFile, metaFile, mints, faults, unread, locals>>

\* writeCAArtifacts: key, then certificate, then metadata, each an
\* os.WriteFile.  OpenX truncates, WriteX fills.
OpenKey(p) ==
  /\ pc[p] = "openKey"
  /\ keyFile' = Torn
  /\ goto(p, "writeKey")
  /\ UNCHANGED <<clock, lockFile, certFile, metaFile, mints, faults, unread,
                 locals>>

WriteKey(p) ==
  /\ pc[p] = "writeKey"
  /\ keyFile' = minted[p].id
  /\ goto(p, "openCert")
  /\ UNCHANGED <<clock, lockFile, certFile, metaFile, mints, faults, unread,
                 locals>>

OpenCert(p) ==
  /\ pc[p] = "openCert"
  /\ certFile' = TornCert
  /\ goto(p, "writeCert")
  /\ UNCHANGED <<clock, lockFile, keyFile, metaFile, mints, faults, unread,
                 locals>>

WriteCert(p) ==
  /\ pc[p] = "writeCert"
  /\ certFile' = minted[p]
  /\ goto(p, "openMeta")
  /\ UNCHANGED <<clock, lockFile, keyFile, metaFile, mints, faults, unread,
                 locals>>

OpenMeta(p) ==
  /\ pc[p] = "openMeta"
  /\ metaFile' = Torn
  /\ goto(p, "writeMeta")
  /\ UNCHANGED <<clock, lockFile, keyFile, certFile, mints, faults, unread,
                 locals>>

WriteMeta(p) ==
  /\ pc[p] = "writeMeta"
  /\ metaFile' = minted[p].id
  /\ ca' = [ca EXCEPT ![p] = minted[p]]
  /\ goto(p, "releaseOK")
  /\ UNCHANGED <<clock, lockFile, keyFile, certFile, mints, faults, unread,
                 now, approval, tries, minted, signer, issuer>>

\* An os.WriteFile (or the key generation) fails: the file keeps what the
\* steps so far left in it, and the deferred release still runs.
mintError(p) ==
  /\ pc[p] \in Minting \ {"mintUnderLock"}
  /\ Fault
  /\ goto(p, "releaseErr")
  /\ UNCHANGED <<clock, lockFile, files, mints, unread, locals>>

\* The deferred os.Remove of the lock file in ensureCALocked.
releaseMintLock(p) ==
  /\ pc[p] \in Releasing
  /\ lockFile' = FALSE
  /\ goto(p, IF pc[p] = "releaseOK" THEN "gate" ELSE "failed")
  /\ UNCHANGED <<clock, files, mints, faults, unread, locals>>

-----------------------------------------------------------------------------
approvalMismatch(p) == approval[p] # NoPin /\ approval[p] # ca[p].id

\* The rest of Evaluate: the pin is compared with the CA value in memory.
EvaluateGate(p) ==
  /\ pc[p] = "gate"
  /\ \/ ~approvalMismatch(p) /\ goto(p, "readKey")
     \/ /\ approvalMismatch(p)
        /\ \E onError \in {"refused", "blind"} : goto(p, onError)
  /\ UNCHANGED <<clock, lockFile, files, mints, faults, unread, locals>>

IssuerFails(p) == goto(p, "issuerBlind") \/ goto(p, "issuerRefused")

\* NewLeafIssuer: loadCASigner reads the key ...
loadCASigner(p) ==
  /\ pc[p] = "readKey"
  /\ \/ /\ keyFile \notin {Absent, Torn}
        /\ signer' = [signer EXCEPT ![p] = keyFile]
        /\ goto(p, "readCert")
     \/ /\ keyFile \in {Absent, Torn}
        /\ IssuerFails(p)
        /\ UNCHANGED signer
  /\ UNCHANGED <<clock, lockFile, files, mints, faults, unread, now, approval,
                 tries, minted, ca, issuer>>

\* validateCAMaterial: the certificate's public key is the signer's.
validateCAMaterial(p) == certFile.id = signer[p]

\* ... then the certificate, and accepts the pair only if it matches.
NewLeafIssuer(p) ==
  /\ pc[p] = "readCert"
  /\ \/ /\ certFile.id \notin {Absent, Torn}
        /\ validateCAMaterial(p)
        /\ issuer' = [issuer EXCEPT ![p] = certFile]
        /\ goto(p, "intercepting")
     \/ /\ certFile.id \in {Absent, Torn} \/ ~validateCAMaterial(p)
        /\ IssuerFails(p)
        /\ UNCHANGED issuer
  /\ UNCHANGED <<clock, lockFile, files, mints, faults, unread, now, approval,
                 tries, minted, ca, signer>>

\* A read of the key or of the certificate fails: the construction fails as
\* well, and on_error decides between blind and refused as in IssuerFails.
issuerReadError(p) ==
  /\ pc[p] \in {"readKey", "readCert"}
  /\ Fault
  /\ goto(p, "issuerUnread")
  /\ UNCHANGED <<clock, lockFile, files, mints, unread, locals>>

-----------------------------------------------------------------------------
\* What a process kept in memory is gone.
Exit(p) ==
  /\ goto(p, "idle")
  /\ now' = [now EXCEPT ![p] = 0]
  /\ approval' = [approval EXCEPT ![p] = NoPin]
  /\ tries' = [tries EXCEPT ![p] = 0]
  /\ minted' = [minted EXCEPT ![p] = NoCert]
  /\ ca' = [ca EXCEPT ![p] = NoCert]
  /\ signer' = [signer EXCEPT ![p] = Absent]
  /\ issuer' = [issuer EXCEPT ![p] = NoCert]

\* A run ends and the process may be started again.
Stop(p) ==
  /\ pc[p] \in Ended \ {"idle"}
  /\ Exit(p)
  /\ UNCHANGED <<clock, lockFile, files, mints, faults, unread>>

\* A process dies at any point; whatever is on disk, the lock included, stays.
Crash(p) ==
  /\ pc[p] \in Running
  /\ Fault
  /\ Exit(p)
  /\ UNCHANGED <<clock, lockFile, files, mints, unread>>

Tick ==
  /\ clock < MaxClock
  /\ clock' = clock + 1
  /\ UNCHANGED <<lockFile, files, mints, faults, unread, pc, locals>>

Step(p) ==
  \/ EnsureCA(p) \/ acquireMintLock(p) \/ awaitMintLock(p)
  \/ mintLockTimeout(p) \/ mintUnderLock(p) \/ mintCA(p)
  \/ OpenKey(p) \/ WriteKey(p) \/ OpenCert(p) \/ WriteCert(p)
  \/ OpenMeta(p) \/ WriteMeta(p) \/ releaseMintLock(p)
  \/ EvaluateGate(p) \/ loadCASigner(p) \/ NewLeafIssuer(p)

Next ==
  \/ \E p \in Proc :
       \/ Step(p) \/ Start(p) \/ StartDisabled(p) \/ Stop(p)
       \/ acquireError(p) \/ loadError(p) \/ mintError(p)
       \/ issuerReadError(p) \/ Crash(p)
  \/ Tick

\* A process that has started keeps running: the code never waits for another
\* process without a bound, so weak fairness of its own steps is enough.
Fairness == \A p \in Proc : WF_vars(Step(p))

Spec == Init /\ [][Next]_vars /\ Fairness

-----------------------------------------------------------------------------
CertUsable == certFile.id \notin {Absent, Torn}

\* Only one process is between winning the O_EXCL create in acquireMintLock and
\* the deferred os.Remove in ensureCALocked, crashed holders included.
MintMutex ==
  \A p, q \in Proc :
    pc[p] \in CriticalSection /\ pc[q] \in CriticalSection => p = q

\* writeCAArtifacts writes the key before the certificate: whatever crashes and
\* errors happened, a certificate on disk that is valid at the current time
\* belongs to the key on disk, unless a holder of the lock that could not read
\* it has started to mint over it (mintUnderLock drops the error).
ValidCertHasItsKey ==
  CertUsable /\ clock < certFile.notAfter /\ certFile.id \notin unread =>
    keyFile = certFile.id

\* EnsureCA has returned to p, or is about to after its deferred release.
Holding(p) == pc[p] \in {"gate", "readKey", "readCert", "releaseOK",
                         "intercepting", "issuerBlind", "issuerRefused",
                         "issuerUnread"}

\* The authority p holds has not expired, and no holder of the lock failed to
\* read it.
Lasting(p) == clock < ca[p].notAfter /\ ca[p].id \notin unread

\* A process holds a CA returned by EnsureCA: as long as it lasts it is the one
\* on disk, so concurrent callers were all given the same authority.
ReturnedCAIsPublished ==
  \A p \in Proc : Holding(p) /\ Lasting(p) => certFile = ca[p]

\* NewLeafIssuer re-reads key and certificate in two reads without the lock.
\* When both reads succeed it finds no pair, or another authority than the one
\* the gate accepted, only after the accepted one ceased to last.
IssuerFollowsGate ==
  \A p \in Proc :
    /\ pc[p] \in {"issuerBlind", "issuerRefused"} => ~Lasting(p)
    /\ pc[p] = "intercepting" /\ Lasting(p) => issuer[p] = ca[p]

\* The bounded retry loop of acquireMintLock: a run that starts always ends, a
\* stale lock file of a crashed holder included.
EveryRunEnds ==
  \A p \in Proc : pc[p] \in Running ~> pc[p] \in Ended
=============================================================================
