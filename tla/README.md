# TLA+ verification of coding-ethos

coding-ethos enforces an engineering policy on AI coding agents. Agents call it
through hooks (one short-lived process per event), git calls it through git
hooks, and users start an MCP server, a code-intel store, an HTTPS-intercepting
proxy with a local certificate authority, and managed tools. There is no daemon
that owns the state: processes share files under one repository and coordinate
by flock, by `O_EXCL` lock files, by rename, or not at all. The behaviours that
tests hardly reach are therefore interleavings of such processes, crashes and
I/O errors between two file writes, locks and caches that go stale, and, inside
one process, goroutines: of the AI review, of the interception, of the formatters
and of a tool's output.

`PROJECT.json` holds the machine-readable side: components, runs, the mutants
that break each property, the map from definitions to source lines, the hazards
and the theorems.

## Inventory

| component (source under `src/go/`) | state it keeps | operations | what makes it correct |
|---|---|---|---|
| agent-proxy CA (`internal/agentproxy/ca`, `cmd/coding-ethos-run/agent_proxy.go`) | `mint.lock`, key, certificate and metadata files | ensure/mint, opt-in gate, build the leaf issuer | one minter; a valid certificate has its key on disk; all callers get one authority, unless a minter cannot read it; a start ends |
| leaf issuer (`internal/agentproxy/ca/leaf.go`) | in-memory leaf cache with an LRU order, mutex | mint or reuse a leaf per handshake | map and order in step and bounded; a served leaf is valid; one leaf per host until it is due |
| code-intel event log and index (`internal/codeintel`) | JSONL streams, one file per run, DuckDB tables | append, store, rebuild | the index never loses events and holds only logged ones, but for those of a failed Append; the store can be rebuilt |
| code-intel rebuild lock | lock file with a pid | create, write pid, judge stale, steal, clean up, release | leftovers never block; nothing left behind; only dead owners lose their lock |
| central memory store (`internal/memories`) | `MEMORY.md`, `index.yaml`, lock file | Ensure, ImportExisting | imports exclude each other, drop nothing they read; index matches the file |
| hook session record (`internal/hooks/lifecycle_session.go`, `remediation_correlation.go`) | one JSON record per agent session, flock file, traces | lifecycle transition, remediation correlation | no lost update; guidance and outcomes once; every hook ends |
| hook decision (`internal/hooks`, `internal/hookcli`) | none between invocations | route, evaluate, merge, build, persist, encode, exit | the verdict is the configured one; a refusal never leaves as a success |
| AI code review (`internal/hookrunnercli/gemini*.go`) | goroutines, semaphore, channel, response cache on disk | batch, retry, cache, collect, exit code | nothing lost on the way; pool bounded; the exit code follows the answers |
| managed capture (`internal/managedcapture`, parts of `internal/sandbox`) | temp directory, plan files, cgroup, process group, pipes | start, deadline, kill, copy, judge, clean up | exit 0 means a clean, complete run; everything released, whatever fails; a capture with a timeout ends |
| CONNECT interception (`internal/agentproxy/intercept*.go`) | a tunnel, its listener, its requests | relay, serve, judge, forward, record | nothing unjudged leaves; the evidence is what happened, but for the recorder's own failures; one close; the tunnel ends |
| git hook groups (`internal/hookrunnercli/git_hook.go`, `format_group.go`) | none of its own; worktree and index shared with the author | select, format, stage, run groups, exit code | what is committed from the index was formatted, and read by every check; no lost failure; every pushed file looked at |
| source store (`internal/codeintel/source_v2_*.go`) | fragments, base and delta manifests, receipt per worktree | sync, status, query | an answer is exact for the bytes it was asked about; the receipt names only what is there |
| output pruning (`internal/outputsurface`) | log directories | retention | not modelled |
| policy compiler, evaluators, shell parser, git wrapper, MCP server, sandbox plans, toolchain, lint/SARIF, token economy, web guidance, install state, red-team corpus | none, or written once by one process | pure functions, text classification, kernel effects, user-started I/O | not modelled (see the end) |

Interactions. A tool-call hook decides (`HookDecision`), enters the session
record (`HookSession`), may call `Ensure` of the memory store (`MemoryStore`),
and writes an event to the log and the store (`CodeIntelEvents`). A session
start imports memories. A rebuild takes the rebuild lock (`RebuildLock`) and then
imports the event files (`CodeIntelRebuild` composes the two). The interception
proxy obtains the CA (`AgentProxyCA`), handles tunnels (`InterceptConnect`) and
serves their handshakes from the leaf cache (`LeafIssuer`). The git hooks
(`GitHookGroups`) run their tools through managed capture (`ManagedCapture`) and
the AI review (`GeminiChecks`). A hook's guidance and the MCP tools read exact
source facts (`SourceIndex`).

## Modules

Each module's header says which files it models; names of actions are the
function names of the source, or name the step of a function that is split.

`AgentProxyCA`. `keyFile`, `certFile`, `metaFile` and `lockFile` are the files;
an authority is the number of its mint, which stands for the fingerprint.
`os.WriteFile` is a truncating open and a write (`OpenKey`, `WriteKey`, ...), so
readers see `Torn` files. A process goes through `EnsureCA`, `acquireMintLock`
(with `awaitMintLock` and `mintLockTimeout`), the second look `mintUnderLock`,
`mintCA`, the writes, `releaseMintLock`, the gate (`EvaluateGate`, with the
`ca_approval` pin) and `NewLeafIssuer`, which reads key and certificate again in
two reads without the lock. `Tick` lets certificates expire. `Crash` and the
error actions leave everything as the code leaves it; nobody breaks a lock left
by a crash. Reads fail as well: each of the three looks of `EnsureCA` takes any
error for "no CA" (`loadError`), so that a holder of the lock mints over an
authority that is valid and that others hold, which `unread` remembers; a failed
read of `NewLeafIssuer` (`issuerReadError`) ends the construction.

`LeafIssuer`. `cache` and `lru` are the map and the order under the mutex;
`LookUp` and `Store` are the two critical sections of `MintLeaf`, `createLeaf`
is the signing between them. `normalizeHost` is a parameter: a function from the
names clients send to cache keys.

`CodeIntelEvents`. The stream is the set of decodable events plus two facts that
matter to readers: does some line fail to decode (`garbage`) and does the stream
end in an unterminated line (`tail`). A write is visible in part before it is
complete (`BeginWrite`, `EndWrite`); a short write stays as a tail and the next
record joins its line. A capture's own file is empty, partial or full. An empty
one is zero records to a reader; a full one is visible before it is closed, and
`FillError` removes it all the same when encoding or closing fails, or leaves it
when that removal fails too. Here a trace is one record, and a part of a record is
taken not to decode, although all of it but the newline would. DuckDB is external:
one process has the file open for writing, a transaction is all or nothing.
`ImportEventLog` reads the files without a lock, `CommitImport` replaces the
index.

`RebuildLock`. The file at the lock path, who created it, whether its pid is
written and whether its owner lives. Creating, writing, judging and removing are
separate steps, for rebuilds and for the cleanup command.

`CodeIntelRebuild` composes the two: a process goes through the actions of
`RebuildLock` (an INSTANCE whose program counter is `step`), does the rebuild of
`CodeIntelEvents` while it is at "rebuild", and releases the lock afterwards. A
crash hits both. The lock can be lost to another process (see the findings), so
two rebuilds may overlap, and the properties of the index must hold anyway.

`SourceIndex`. An object is its own ID, so `store` is the set of sound objects
and `damaged` those whose file holds other bytes. A scan resolves HEAD, reads one
file per step (`visitFile`) and, for a sync, lists HEAD again by name, while the
author edits (`Edit`, `Remove`) and moves HEAD (`MoveHead`). A sync collects
reusable fragments (`knownSourceV2Fragments`), builds one entry per step
(`BuildEntry`: reuse, fail, or extract and publish), writes base, delta and
receipt. `Stop` is an error or the end of a process at any step; a conflict with
a damaged file disables the write, so that `Stop` is all that is left.
`PowerLoss` ends everybody and loses or damages an object or the receipt, since
nothing is fsynced. A query is `LoadReceipt` (refusing other bytes), `Verify`,
`QuerySourceIndex`.

`MemoryStore`. `MEMORY.md` is a set of imported blocks and a set of agent notes;
the index is a set of sources. Importers hold the lock file; `Ensure` and agents
do not take it.

`SessionRecord` is the abstract specification of the session record: events are
applied one at a time, `Transition` for the lifecycle and `Correlate` for the
remediations. `HookSession` is the detailed one: hook processes with flock, read,
apply, rename, trace, errors and crashes. `ImplementsRecord` says that it
implements the abstract one under the refinement mapping `Session`: the abstract
record is the file on disk, the settled outcomes are those of records renamed
into place, and a trace is the number of a hook invocation. A trace whose hook
comes to the record no more is `past`: the abstract `Transition` and `Correlate`
add theirs to it, and `Drop` is a hook that died or failed before it got there.

`HookDecision`. One invocation from the decoded event to the exit code:
`collectContext`, `routeToolUse`, one step per policy, `DecideInspection`,
`buildResult` (with `routeWithDebugEnv`), `persistHookResult`, `emitHookResult`
with the encodings of the six providers and of the neutral contract. What a route
or an evaluator finds in a command is input; how findings combine is the model.

`GeminiChecks`. Runs of the review share the response cache. Each batch has a
goroutine: token, cache read, removal of an expired entry (a second step),
requests with backoff, cache write, send. The collector takes results in any
order; the channel is closed behind the last goroutine; the exit code follows
from the counters and outcomes. An answer is its meaning for the commit:
critical, clean or malformed.

`ManagedCapture`. One managed run of a tool. Its processes (a leader and what it
starts) inherit group and pipes, may leave the first and close the second, hang or
end at any moment; the capture goes from the request's checks through plan, temp
directory, cgroup, pipes and start to the select between the tool's end and the
deadline, the kill, the copiers and the judgement of the report. Each early return
has the clean-up the code gives it, and each clean-up may fail: `temp` and `cgroup`
become "removed" or "stuck", the cgroup always the latter while a process is in it
and either while one is still dying. The tool is taken neither to make cgroups
of its own nor to leave the one it is in.

`InterceptConnect`. One tunnel in every configuration. Either two copies relay
bytes with half-closes (`pipe`), or a listener that yields one connection feeds a
server whose goroutines (`conn`, one per request with HTTP/2) are net/http's and
external. A request goes from the authority check through routing, judgement,
upstream, buffered or streamed answer to its events. It has a context of its own,
below the tunnel's: `resetStream`, the client's hang-up and the end of an HTTP/2
connection cancel it while the request goes on, and `evaluateInbound` looks at it.
`record` is detached from both; the recorder stores the event, or fails or takes
longer than five seconds, and then the event is only counted as `lost`. What an
event says of the bytes of an answer is left out.

`GitHookGroups`. Contents of a file are a version of the author's and how far
formatters got with it; `head`, `index` and `work` hold contents. A run selects
files, formats them in two concurrent lanes, stages what changed, runs every group
at the same time (each a sequential prefix and a concurrent rest), then the AI
group, and exits; the author edits, stages, removes, interrupts and tries again.
`read[c][f]` is what command `c` read of file `f` in this run. Three things make
git's view and the hook's differ:

- The names of both hooks are read line by line, without `-z` and trimmed. What
  is left of a name that git quotes is no file, and neither is a link to nowhere;
  such files are `Unseen`. They are selected, and `existingFiles` drops them, so
  that no formatter and no command with a filter sees them.
- `git commit -a` and a commit of paths hand git another index, whose name the
  hook removes from the environment (`GIT_INDEX_FILE`, `evaluators/git_env.go:37`).
  `foreign` and `other` are that index, and the tree that git commits in the end;
  the hook looks at the default one, which git holds locked, so that staging fails.
- A file that cannot be read is left out of the comparison with the snapshot
  (`Unread`, before the formatters or after them) and is not staged again.

The MC modules give constants their values: `MCLeafIssuer`, `MCHookSession`,
`MCHookDecision`, `MCGeminiChecks`, `MCGitHookGroups`, `MCSourceIndex`,
`MCCodeIntelRebuild`. The other runs use the module itself.

The proof modules: `AgentProxyProofs` (`AgentProxyCA`, `LeafIssuer`),
`CodeIntelRebuildProofs` (`CodeIntelEvents`, `RebuildLock`, `CodeIntelRebuild`),
`SourceIndexProofs`, `MemoryStoreProofs`, `HookProofs` (`HookSession` with
`SessionRecord`, `HookDecision`), `GitHookProofs` (`GeminiChecks`,
`GitHookGroups`), `ManagedCaptureProofs`, `InterceptConnectProofs`. Where one of
them extends two components, the second has names of its own for what both have:
`at` for `pc`, `LeafSpec`, `DecisionSpec` and `GitSpec` for `Spec`, and so on. Its
theorems are about its own specification; nothing is composed.

## Runs

All passing runs explore the full state space of their bounds.

| run | bounds | shows |
|---|---|---|
| `agent_proxy_ca` | 2 processes, 1 lock attempt, 1 fault (a crash, a failed write or a failed read), 2 expiries | mutual exclusion of minters, key before certificate, one authority for all, issuer follows gate, unless a minter could not read what was there; every start ends |
| `leaf_cache` | 2 handshakes, 3 hosts over a cache of 2, 5 names, clock 0..2 | LRU order and map in step and bounded, served leaves valid, a leaf replaced only when due |
| `code_intel_rebuild` | 2 hooks on one stream, 1 capture, 2 processes that rebuild or clean up, 2 faults | index never shrinks and holds only logged events, but for one of a failed Append, although rebuilds may overlap; the store is rebuildable without faults; leftovers never block a rebuild that runs alone |
| `source_index` | 2 files, 2 contents (one not indexable), 2 commits, 3 syncs (2 at a time), 1 query at a time, 1 change by the author, 1 power loss | answers match the scanned bytes and never mix generations; the receipt names only sound objects |
| `memory_store` | 2 importers, 1 Ensure, 2 sources, 1 note, 1 fault | blocks and seen notes survive; the index matches; every call ends |
| `hook_session` | 2 hook processes, 4 invocations, 8 events, 1 fault | the processes implement `SessionRecord`; guidance and outcomes once; nothing pending outlives the session's relevance; every hook ends |
| `hook_decision` | 6 providers, all pairs of routes, up to 2 policies, memory files, debug flag, 3 fault points | the verdict is the configured one; a refusal stays one |
| `gemini` | 2 runs, 2 batches, 1 token, 1 retry, 2 failures, 1 expiry | nothing lost between goroutine and collector, exit code follows answers, no hang (deadlock is checked) |
| `managed_capture` | a leader and 2 children, all requests | exit 0 means clean and complete; the temp directory outlives who writes to it; every path releases, and what may stay is a cgroup with a child in it; a capture with a timeout ends unless a process it never kills holds the output |
| `intercept_connect` | 2 concurrent requests, all configurations, resets, a recorder that fails, a stop of the proxy at any moment | the listener's channel is closed once; nothing unjudged reaches the upstream; the evidence is what happened less what the recorder lost; one hang-up ends the tunnel |
| `git_hooks` | a Python file, two Go files and an unseen one, 2 groups and the AI group, 2 refs that each change one of three sets of files, 3 edits and hook runs together | an undisturbed commit from the index is what was formatted and what every command for it read; exit 0 means all due commands passed; checks read one tree; every file of every pushed ref is read by its commands |
| `rebuild_lock_owner` | 2 processes, no fault | the finding below |

Why the bounds are enough. Two processes are what every lock in the code
distinguishes (holder and other); a dead owner of the rebuild lock needs no
process of its own, because a process that dies starts again. One fault is enough
to leave any intermediate file state behind for the others; two are used where a
leftover must be met by a second failure. Two expiries let an authority be
replaced and its replacement expire. The leaf cache has one host more than it
holds, so it evicts. Four hook invocations are a suggestion, an attempt, a result
and one more. The review uses one failure more than the retries allow, so a batch
fails for good, and one batch more than tokens, so a goroutine waits. Three syncs
are one that leaves objects behind and two that overlap; two files of the external
extractor with one content are the case in which a fragment must not be shared,
and the second commit moves a file, so that base, delta and tombstone all matter.
A tool's leader and two children are a process that is killed, one that left the
group and one that closed its output. Three moves of the git hooks are an edit, a
failed or interrupted run and the retry, or two edits and a run; the two Go files
are those of which one could be lost, and every subset of the files is reached by
a push of two refs but for what one set of `Changes` keeps together. Where a proof
exists, the property holds for all bounds. `MaxFaults`, `MaxClock`, `MaxHooks`,
`MaxFailures`, `MaxExpiries`, `MaxMoves`, `MaxChanges`, `MaxLosses` and `MaxSyncs`
are bounds of the model, and `Changes` is the choice of what a pushed ref changes;
`MaxAttempts` (25 for memories), `MaxRefs` (32), `MaxLeaves`, `MaxRetries` and
`Concurrency` are parameters of the code with small values.

Fairness. Only steps of a started process are fair, and only weakly; starting,
failing, crashing and the passing of time never are. That is what an operating
system gives: a runnable process runs. No strong fairness is assumed: `flock(2)`
has no queue, but a process takes it a bounded number of times, so the lock stays
free in the end. Waiting for a lock file is a bounded number of attempts in the
code. `GeminiChecks` has no fairness: each of its steps brings something forward,
so freedom from deadlock, which its run checks, already says that no goroutine
waits for ever; the HTTP client's timeout is why a request always has an end. In
`ManagedCapture` the capture's own steps and the clock are fair, the tool is not.
In `InterceptConnect` the goroutines of the handler and of the connection are
fair, requests and the connection's end only once a peer is gone or the proxy
stops, and a peer closes its side after it reads the end of the other's.

Symmetry is used in runs without liveness properties only. Deadlock is not
checked where the system simply ends (a capture, a tunnel, a decision, a bounded
number of hook invocations, hook runs or syncs).

## Proofs

A theorem holds for every value of the constants: any number of processes, files,
hosts, batches, faults and so on. Every safety and action property that a passing
run checks is stated by a theorem. Hardly any of them is inductive; each proof
module strengthens them to one invariant of named parts, shows that every action
keeps it, and derives the properties. TLC finds no violation of these invariants
either.

**The authority** (`AgentProxyProofs`, `IInv`): `TypeOK`, `MintMutex`,
`ValidCertHasItsKey`, `ReturnedCAIsPublished`, `IssuerFollowsGate`. A minter
holds the lock file alone (`Locking`); it started at a time that is past
(`NowIsPast`) and found no certificate valid at that time (`MintIsDue`), so what it
overwrites is absent, torn or expired by now; it wrote its key before the
certificate (`KeyBeforeCert`). Hence an unexpired certificate is never
overwritten unless its minter could not read it, which gives
`ReturnedCAIsPublished`, and the issuer's two unlocked reads see one authority
unless the accepted one expired or was minted over unread in between
(`SignerIsHeld`, `IssuerFollowsGate`). That exception is the code's: the
invariants name it by `unread`, which holds an authority only once a holder of the
lock failed to read it, and a failed read anywhere else takes nothing away.

**The leaf cache** (`AgentProxyProofs`, `LeafInv`): `LruMatchesCache`,
`ServedLeafIsValid`, `ReplacedOnlyWhenDue`. Order and map change together, so the
order lists the cached hosts once each (`OrderTells`), which three lemmas about the
order preserve (`Touched`, `Appended`, `Popped`) and one turns into the limit on
the number of leaves (`Counts`). A handshake's time is past when its leaf is
stored (`CallTells`), so a leaf that the second look finds due is due by now.

**Event log, index and rebuild lock** (`CodeIntelRebuildProofs`).
`IndexedIsLogged` and `IndexNeverShrinks`: whoever works on the store has it open
alone (`StoreIsHeld`); a capture's file that is complete stays, or goes with a
failed Append, which makes its event `Withdrawn` (`FillingTells`); a trace in the
store is that of a capture that finished (`StoredIsDone`); an open
import holds all of the index but for those, and only events that are logged or
were (`ImportIsComplete`). No step of this part uses the rebuild lock: the exclusive
open of the store is what protects the index.
`StoreIsRebuildableWithoutFaults`: a hook that writes holds the stream's flock
(`StreamIsHeld`), so an unterminated line is always somebody's unfinished write
(`TailIsBeingWritten`), and what is stored was logged before (`LoggedFirst`).
`SelfHealing`: the owner of a lock file with a live pid is between taking and
releasing it (`LiveOwnerWorks`), so a rebuild that runs alone judges the file it
finds as what it is (`AloneSeesTruth`).

**Source index** (`SourceIndexProofs`): `TypeOK`, `ReceiptIsWhole`, `AnswerIsExact`.
Whoever builds an entry, by reuse, failure or extraction, it is the one that path
and content determine (`Right`). So the manifests of a sync are right for the two
trees of its scan as far as it has come (`BuildsFollowScan`), and base and delta
merge to the files that were scanned. Objects disappear by a power loss only,
which ends every process, so what a sync stored is there when it writes the
receipt (`BuildsAreStored`, `ReceiptIsRight`) and what a query verified is there
when it reads (`QueryIsRight`).

**Central memory** (`MemoryStoreProofs`): `TypeOK`, `IndexMatchesPrimary`,
`ImportKeepsBlocks`, `SeenNotesSurvive`. The lock file keeps importers apart, also
one that a dead importer left (`LockHeld`); only an `Ensure` can get between an
importer's read and its rename, and then `raced` says so (`RacesSeen`). What an
importer read is therefore what it replaces (`ImportView`), and without race or
fault the index lags behind by exactly the sources that are being added (`InStep`).

**Session record** (`HookProofs`, `Inv`): `ImplementsRecord`,
`PendingWorkIsRelevant`, `GuidanceOnce`, `ReportedOnce`. The refinement, step by
step: a process holds the flock from its read to its rename, so what it renames
into place is the record now on disk with its own event applied; every rename is
one abstract step, a crash or error is a `Drop` or a stutter, everything else a
stutter. There the sequences in the record stay unexpanded. `ReportedOnce` is
proved of the abstract record and inherited through the refinement: references and
outcomes belong to past traces (`PastTells`), so what a new trace suggests is new,
and every correlation moves, settles or drops references of the record
(`Settles`). What the loop `kept` leaves of a sequence is an induction over its
length. The induction rules of the library cannot be instantiated, so `LoopEnds`
and `KeptOf` argue with a least counterexample (`LeastNumber`), which exists
because the naturals are well founded.

**Decision of a hook** (`HookProofs`, `DecisionInv`): `VerdictIsRight`,
`RefusedStaysRefused`. The merge is that of the policies evaluated so far
(`MergeIsDue`), and an evaluation that stops early has been decided by the policy
that stops it; afterwards the verdict stays (`VerdictStays`), and each encoding of
a refusal says no.

**AI review** (`GitHookProofs`, `IInv`): `TypeOK`, `VerdictFollowsAnswers`,
`NoLostBatch`. How a batch travels (`BatchFlow`: goroutine, channel, collector, one
answer), that the channel is closed behind all goroutines and drained before the
end (`ClosedBehindAll`), and what the counters tell about the outcomes
(`CountersTell`). For `NoLostBatch` the counters are the numbers of the collected
outcomes (`Counted`).

**Git hooks** (`GitHookProofs`, `HookInv`): `CleanCommitIsChecked`,
`ExitReflectsCommands`, `PushedIsChecked`, `ChecksSeeOneTree`. Formatters run
between the fix of the text and the staging only (`LanesRest`), which gives the one
tree. For each file of an undisturbed commit that the hook sees, `FileTells` says
how far its lane has got, and that index and worktree are equal before it and, if
the file could be read, after the staging; `StagedSelected` and `NeededSelected`
say that the hook has all the files it must look at. What a group's record tells
about its commands (`GroupTells`, `FailTells`, `WhoRan`) carries the exit codes.
Unless somebody interfered, what was skipped had no files (`SkipTells`) and what
has returned read every file of its own as it is in the worktree (`ReadTells`).

**Managed capture** (`ManagedCaptureProofs`): `TypeOK`, `ZeroMeansClean`,
`TempOutlivesTool`, `ReleasedOnReturn`. The leader is the first process and the
capture waits for it (`LeaderFirst`); who does not hold the pipes cannot hand them
on, so once the copiers saw the end nobody can come to hold them
(`CopiersSawTheEnd`); what is open follows from the place (`OpenByPlace`,
`TempByPlace`), a cgroup that stays had a child in it (`StuckForChild`), and what
the result says is how the leader ended (`ResultSaysHow`).

**Interception** (`InterceptConnectProofs`): `TypeOK`, `ChannelClosedOnce`,
`JudgedBeforeUpstream`, `EvidenceIsComplete`. `Serve`'s deferred close waits for the
channel, so only the connection's goroutine ever closes it (`ListenerStage`); a
host that must be intercepted leaves the blind path before a byte is relayed
(`BlindStage`); what was recorded of a request is, at each stage, what happened to
it less what the recorder lost (`RequestStage`).

Assumptions are the named ASSUMEs of the modules, which TLC evaluates in the runs:
finite or disjoint sets of processes, positive limits, bounds of the model that are
numbers, the marker `Nobody` (no lock owner) distinct from every process. Beyond
these: in `SourceIndex` the ranks of paths are injective, since the code orders
paths lexically, which is total; in `HookSession` and `HookDecision` events and
invocations have the shape the decoder gives them (`EventAssumption`,
`InputIsSound`); in `GitHookGroups` the groups' commands and filters are those of a
well-formed registry (`RegistryIsSound`); in `LeafIssuer` `normalizeHost` maps
every name to a host or to none, and the limits are positive (`CacheIsSound`).

Only model-checked:

- all liveness (`EveryRunEnds`, `EveryCallEnds`, `EveryHookEnds`, `EndsUnlessHeld`,
  `TunnelReturns`), and freedom from deadlock: fairness and ENABLED are out of the
  prover's reach;
- the type invariants of `HookSession`, `SessionRecord`, `HookDecision`,
  `LeafIssuer` and `GitHookGroups`: TLC finds no violation with the constants of the
  runs, which leave them out because they say little; the proofs use what they need
  of the types (`Slots`, `Shaped`, `Invocation`, `LeafTyped`, `HookTyped`);
- `RemovedLockHasNoOwner`, which does not hold (see the findings).


## Findings

With a run that exhibits it:

- `rebuild_lock_owner`: a lock file is empty until its owner writes its pid, and
  an empty one is judged stale, so a live owner loses its lock
  (`duckdb_store.go:381`).

Seen while modelling; the properties that hold are stated so that they mark the
limit:

- After a short write the next acknowledged event shares a line with the torn
  record: the store has it and no rebuild can read it (`event_log.go:229` against
  `docs/CODE_INTEL_STORAGE.md:26`). `StoreIsRebuildableWithoutFaults` says so by
  its name.
- A denial whose trace cannot be written exits 1 (`hookcli/main.go:107`), which
  Kimi treats as fail-open; `docs/HOOK_CONTRACT_V1.md:129` promises 2.
- A damaged fragment or manifest is never replaced: `sync` fails with
  `errImmutableSourceV2Conflict` every time (`source_v2_storage.go:373`), although
  the receipt names `sync` as the repair; a missing one is written again. Objects
  are linked without fsync, so a power loss can leave such a file.
- The base manifest is labelled with HEAD as it was before the walk and holds the
  tree of HEAD after it (`source_v2_sync.go:389`). The merge is right all the same
  (`AnswerIsExact`), because the delta is computed against the tree that was read.
- A query answers from a generation whose verification failed, and does not
  recompute fragment IDs (`source_v2_query.go:126`): `AnswerIsExact` leaves the
  status `failed` out.
- A tool's leader that ends in time leaves the rest of its group alive; if one of
  them holds the output, the capture waits without a limit
  (`capture_process.go:133`): `EndsUnlessHeld`.
- Every look of `EnsureCA` takes any error of `Load` for "no CA" (`ca.go:102`,
  `ca.go:163`, `ca.go:178`): a holder of the lock that cannot read the certificate,
  or stat the key, mints over an unexpired authority that running proxies hold, and
  if it dies between key and certificate, the old certificate stays without its
  key. `ValidCertHasItsKey`, `ReturnedCAIsPublished` and `IssuerFollowsGate` except
  the authorities this happened to (`unread`) and no others.
- `Append` removes its file on any error, also when the record is complete and only
  the close failed (`event_log.go:97`). A rebuild that ran in between has imported
  an event that no file holds any more, and the next rebuild takes it out again:
  `IndexedIsLogged` and `IndexNeverShrinks` except such `Withdrawn` events.
- The error of `cgroup.Close()` is ignored (`capture.go:320`), and the kernel
  refuses to remove a cgroup with a process in it: what a tool's leader leaves
  behind keeps the cgroup for good, without a word. The errors of `RemoveAll` are
  dropped likewise (`sandbox_cache_env.go:327`). `ReleasedOnReturn` says that each
  is tried on every path, and that a cgroup stays for a process of the tool only.
- Every error of the recorder is ignored, its own timeout included
  (`intercept.go:296`); the comment above it names benign cancellation only. So an
  intercepted request can leave no trace. `EvidenceIsComplete` counts these losses
  and allows no other.
- The git hooks read names line by line, without `-z` (`git_hook.go:523`,
  `git_hook.go:638`). A name that git quotes (`core.quotePath` is on by default,
  so every name outside ASCII) is no file to `existingFiles`: such a file is
  committed unformatted, and with commands that filter by language unchecked, with
  exit 0; commands without a filter get the quoted name.
- The hooks remove `GIT_INDEX_FILE` from git's environment
  (`evaluators/git_env.go:37`). For `git commit -a` and commits of paths they look
  at an index that is not the one committed: with nothing staged there they select
  nothing and exit 0.
- A file that cannot be read is left out of the comparison silently
  (`format_group.go:108`, `format_group.go:134`), so it is formatted and not
  staged. `CleanCommitIsChecked` names these three exceptions, `PushedIsChecked`
  the first.
- The pre-push checks read the worktree, not the commits that are pushed:
  `PushedIsChecked` says what was read.
- An interrupted or failed format run leaves the worktree formatted and the index
  raw. The retry sees no change, stages nothing, and commits contents that the
  checks, which read the worktree, have not read (`format_group.go:57`):
  `CleanCommitIsChecked` is about undisturbed runs. Staging a formatted file also
  adds what its author had left unstaged.
- `docs/HOOK_RUNTIME_BOOTSTRAP.md` says that a failing sequential prefix skips the
  parallel suffix "for that group"; the code does so for the AI group only
  (`git_hook.go:268`).
- A buffered answer whose read fails is forwarded without a mark that a streamed
  one gets, and a tunnel dropped by fail-closed leaves no event
  (`intercept_normalize.go`, `intercept_connect.go`): `EvidenceIsComplete` is about
  requests that were judged.
- The approval pin is compared with the CA in memory and the issuer reads the
  disk. If the approved CA expires and another process mints between the two, the
  proxy uses the new one (`agent_proxy.go:327`): `IssuerFollowsGate` holds only
  until the expiry.
- A note an agent adds to `MEMORY.md` between an import's read and its rename is
  lost (`memory.go:399`), and so is what a late header write truncates
  (`memory.go:219`); an index that `Ensure` merges without the lock, or a crash
  between the two files, leaves `index.yaml` behind (`memory.go:474`). The model has
  all of these; `SeenNotesSurvive`, `ImportKeepsBlocks` and `IndexMatchesPrimary`
  exempt them by name and so do not guard against them.
- With the debug flag, `routeWithDebugEnv` runs after the merge and gives a
  blocked call a rewrite (`runner.go:115`); it shows in the output for unknown
  providers and in the neutral contract: `RefusedStaysRefused` excludes these two.
- Whether a memory route's rewrite can be applied is decided for the memory
  file's owner, the output is encoded for the agent's own provider
  (`inspection.go:48`).
- A check with one reviewed and one failed batch lets the commit through
  (`gemini_report.go:33`), and a malformed answer is cached before it is parsed
  and fails later runs without a request (`gemini_api.go:692`):
  `VerdictFollowsAnswers` says "no reviewed batch" and counts cached answers.
  An expired entry is removed in a second step, which can take a fresh one
  (`gemini_api.go:217`); that costs another request and no verdict.

## Not modelled

The repository has some 170 000 lines of Go. What is modelled is the part with
state that several actors share; most of the rest has none, and a model of it
would repeat its text:

- Policy compiler, evaluators, routes and shell parser: functions of their input
  text; what they find is an input of `HookDecision`.
- Code-intel analysis, health, AST index, queries and the MCP tools over them:
  they read and rank what the store holds. The MCP server answers one request at a
  time from one stream.
- Git wrapper, lint and SARIF, toolchain, install state, web guidance, token
  economy, red-team corpus: sequential I/O or offline work on behalf of one caller.
- Sandbox mounts, namespaces and limits: effects of the kernel.
- Output pruning: deletes by age and size; a candidate for a next module.

Within modelled components: the age fallback of the rebuild lock on hosts without
pid liveness; row pruning and the SQL schema of the store; the explicit content
cache of the AI API and the split of files into batches; the wording of guidance
and the word lists that make a prompt relevant; the reverse proxy of
`passthrough.go` and the payload adapters of the interception; the text that
managed capture parses; what the events of an intercepted answer say of its bytes;
of the git hooks a `stat` that fails for a moment, git's warnings mixed into the
names (`CombinedOutput`), an author who stages while a hook runs, submodules, the
`run-group` command and the index refresh after a push; the identity of a
repository (its normalised origin), the filters of a source query and the
validation of single external facts.

## Plan

1. Proofs: the type invariants that have no theorem yet, for which the references'
   bound (`MaxRefs`) is the interesting part.
2. `OutputPrune`: retention over directories that others write.
