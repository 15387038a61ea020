# A TLA+ model of AegisLLM

AegisLLM is a single-process gateway in Go between clients that hold virtual
keys and LLM providers whose real keys it keeps encrypted. This directory
models the parts of it whose correctness depends on the order in which things
happen, or on an algorithm with many cases, checks them with TLC on small
instances, and proves most of the safety properties with TLAPS for every value
of the constants.

## 1. The system and its modules

| Part | Module | Hard behaviour |
| --- | --- | --- |
| Circuit breaker (`middleware/router.go`) | `Breaker`, `CircuitBreaker` | leases settled long after the state they date from; recovery in whole seconds |
| Router, proxy, capture (`middleware/router.go`, `proxy.go`, `capture.go`, `server/pipeline.go`) | `Router` | unlocked scan before a locked acquire; retry after a captured failure; panics |
| Request body, redaction, adapters, keys, egress (`middleware/body.go`, `redaction.go`, `adapter.go`, `kms.go`, `egress/`, `proxy/stream.go`) | `Redaction`, `Egress`, `Outbound` | overlapping matches across parts; buffers replaced and zeroed while a transport reads; a URL read twice |
| Rate limiter and quota (`middleware/ratelimit.go`, `middleware/quota.go`, `quota/`) | `SlidingWindow`, `Admission` | charged after the fact; release on every path; a record read outside its lock |
| Revocation (`revocation/`) | `Revocation` | several processes, crash between rename and directory sync, different clocks, rollback |
| Local KMS under the operator's commands (`kms/local/`, `operator/`) | `KeyStore` | a migration that stops half way; concurrent imports |
| Server, runtime assembly, configuration (`server/server.go`, `runtime/`, `config/`, `cmd/aegis/main.go`) | `Lifecycle`, `Process` | request against shutdown; hooks that fail, panic or hang; release on each error path of the start |
| Rollback drill (`cmd/aegis-rollback-drill`) | `CandidateTree`, `RollbackDrill` | files that change while they are read; child processes that outlive their parent |

Modules named `MC...` give their module's constants values for TLC; those named
`...Proofs` hold the theorems about it. A client's request meets, in this order,
authentication (the reader of `Revocation`), the limiter and the budget
(`Admission`), and the redaction, router, key, adapter and engine, which
`Router` models for its choices between concurrent requests and `Outbound` for
the request's own data. All of it runs inside the handlers of `Lifecycle`,
between the start and the exit of `Process`. `PROJECT.json` lists every part
with its status, every definition with the lines it models, and every hazard at
its line.

Names with an underscore (`Void_NoGeneration`) are faulty versions of the
definition that follows them. No specification uses them; each shows that a
property notices the fault.

## 2. How the modules correspond to the code

**`Breaker`** holds the `circuitBreaker` record and each method as the value
the record has afterwards. Every method holds `cb.mu` throughout, so each is
one step of whatever uses it. `Second` is the number of clock ticks in a
second: `lastFailure` is `time.Now().Unix()`, and `AllowProbe` compares it with
a finer clock.

**`CircuitBreaker`** is one breaker with its requests: what the router relies
on. A request takes a lease and settles it in one of the three ways of
`settleProviderLease`. The history `fresh` is the set of requests whose lease
dates from the current state, `failedAt` the tick of the last counted failure.

**`Router`** is the loop of `routerWithTable`. `Scan` reads one breaker,
`Acquire` is `pickWeighted` with `AcquireClosed`, `Probe` is one `AllowProbe`,
`LookForUnused` one iteration of `hasUnusedCandidate`; other requests may act
between any two. The end of an attempt is one step: what Dispatch returned
(`Outcomes`), the proxy's classification (`Proxied`), the settlement
(`Settled`) and the decision to loop. Nothing of it but the settlement is
visible to other requests. The list of channels never changes while the
gateway runs, so it is a constant, with the disabled ones left out. Bodies and
headers are abstracted to whether the header was written and whether the body
is whole. The history `healthy` is the set of candidates that have been closed
since the running Route began.

**`Redaction`** has the functions of the semantic processor. A body is a
sequence of tokens; a text is a sequence of characters, and a rule's pattern is
a word, so that matches overlap, nest and run across parts as those of the
regular expressions do. `AggregateRedactionSpans` and `RedactTextPart` follow
the code's sweep over sorted spans; `CanonicalNumericPIICandidate` follows its
handling of digits and exponent.

**`Egress`** has the parsers of URLs, authorities and rules, the match of an
endpoint against the allowlist, and the check of a resolved address. A parser
returns the set of its results, empty if it fails. A host is a sequence of
labels or a literal, each as it is written.

**`Outbound`** takes one request from its body to the connection. `RedactValue`
processes one token, as the decoder's loop does, with the code's limits on
values, depth, members, parts and output. From then on the body is the index of
a buffer: `bufs` keeps every buffer made for the request, so that aliasing and
zeroing are visible. `Send` is the goroutine of net/http's transport, which
reads its buffer at its own pace and may go on after the attempt has ended.
`Init` ranges over bodies, modes, allowlists and providers' URLs with which the
server starts.

**`SlidingWindow`** and **`Admission`** are the limiter and the quota. A step is
one hold of `memoryLimiter.mu` or `MemoryStore.mu`, or one access outside them:
`GetUsage` hands out the record itself, so `CheckBudget` and the usage query
read its fields while `RecordUsage` may be writing (`RecordCost`,
`RecordCount`). `Prune` keeps expired charges in the slice until the head has
moved far enough, and `CleanupExpiredWindows` drops idle windows, both as the
code does. The history `log` is the exact list of charges of the last window.

**`Revocation`** has writers, a reader and a disk. A writer takes the time,
waits for the lock, reads and computes, renames, and syncs the directory; it
may fail or be killed at any of these. `images` is the set of snapshots that a
power loss may leave at the path: a rename adds one, a directory sync leaves
only the current one. The reader reads the file and publishes a view, in two
steps. `committed` and `promised` are the history of successful calls of
Revoke: those that wrote, and those that found nothing to change. A snapshot
is a function from keys to retention times; the list, its order and its JSON
are abstracted, and a file that fails validation is a read error. `Delete`
(only in `DeletingSpec` and `FairSpec`) is somebody removing the file under a
running gateway.

**`KeyStore`** is the file-backed local KMS under the operator's commands. A
blob is a record of its format, the key id it was sealed for, its value and its
nonce; `openBlob` says which of them open, so cryptography is what it promises.
An import, an inspection and each pass of a migration go blob by blob, and
`Stop` may end them between any two: an I/O error, a cancelled context or the
death of the process, which frees the file lock. `latest` is the history of the
values given, `original` and `rewrote` that of migrations, `strict` that a
report free of legacy blobs has been returned. Put is one step, since a synced
temporary file is renamed into place.

**`Lifecycle`** is `Run` with `handlerLifecycle` and `closeResources`. Go's
channels are numbers, so that the one `Run` waits on and the one `begin` made
last can differ. Timers are actions. `Shutdown` of net/http may return nil
while a handler is still running (a reset HTTP/2 stream), so nothing is
assumed of it.

**`Process`** extends it to the whole process. A configuration with its
environment is the set of its defects; each check of `config.go`, `runtime.go`
and `server.go` is the set of defects it looks for, and a stage of
`newServer` fails on those its checks find, after releasing what the error path
at that place in the code releases. `live` is what holds secrets or runs: the
KMS's master key, the signing key, the poller of the revocations, and the admin
handler's token and key. The two shutdown hooks clear them one by one.

**`CandidateTree`** is the drill's inspection of a worktree, entry by entry,
while somebody edits it. A file has a version, which stands for what `Stat`
tells; an edit in place may leave it as it was, when it keeps the size and falls
into the same tick of the clock. A replaced file that is open stays readable.

**`RollbackDrill`** is `run`, one stage after the other, with the list of its
deferred releases. Inputs are replaced or overwritten while they are copied;
the processes it starts fork, hang, exit and write to any file of the drill as
long as one of their group lives. Contents of files are classes: the content
with the locked digest or another one, the legacy store, the migrated one. A
run of the model has either the editor or the misbehaving processes, since the
inspection and the child processes share no state.

Every module has a type invariant `TypeOK`, or extends one that has. Those of
`CircuitBreaker`, `Router`, `Revocation`, `Lifecycle` and `KeyStore` are
theorems; the others say what the variables are, and none of the runs below lists them.

## 3. Runs

| Run | Configuration | Shows |
| --- | --- | --- |
| `circuit_breaker` | 3 requests, threshold 2, recovery 3 ticks, 2 ticks a second, clock to 9 | one probe at a time, no stale evidence, no early recovery |
| `router` | 2 requests, 2 channels of distinct priority, 2 models of which one has a fallback, threshold 1, clock to 3, fair | breakers used as `CircuitBreaker` specifies (a refinement), best healthy channel chosen, only provider outcomes count; every request answered, every probe settled |
| `router_group` | the same with equal priorities | *violation*: a healthy channel is passed over |
| `router_empty` | 1 request | *violation*: an empty 200 |
| `outbound` | 2 providers, of which one translates; about 2,000 bodies in up to three modes, and all pairs of 11 allowlist entries with 8 URLs for each provider | what is redacted is exactly what the rules cover, across parts; no number hides a match; only redacted text leaves, in the provider's form, with its own key, to an allowed endpoint; a provider accepted at the start can be reached; attempts start alike; nothing is left in memory |
| `admission` | 2 goroutines, 2 keys, 3 requests, window of 2 ticks, clock to 2, cleanup at every second operation | slots are exact; windows agree with an exact log; requests stay in their limit, tokens and budgets are overshot only by what is in flight |
| `revocation` | 2 writers, 2 keys, lifetime 1, skew 1, 3 calls, clock to 4 | committed revocations hold and survive; no false rollback |
| `revocation_reader` | 1 writer, 2 keys, room for one entry, 4 calls, clock to 2, deletion, fair | every committed revocation becomes visible or the gateway fails closed; a running reader never forgets |
| `revocation_acknowledged` | 2 writers, 1 key | *violation*: a repeated Revoke is not durable |
| `key_store` | 2 processes, 2 keys, 2 values, 2 backup directories, 3 commands | no key lost or silently replaced, backups whole, clean reports reliable |
| `process` | 3 requests, admin API on, any one or two defects, fair | a failed start releases everything; mistakes of the configuration are found before a key is read; handlers have their keys; exit 0 is a complete shutdown; the process ends |
| `rollback_drill` | a directory with one file of the commit and two paths that are not, 2 edits, 1 swap, 2 writes, fair | printed evidence is true; FINAL_CANDIDATE means that each file was seen as the commit has it; only locked binaries run; the rollback starts on the original store; nothing outlives the drill; it ends |

Bounds. `MaxTime` stops the clock: 9 lets a breaker fail, recover and fail
twice; 3 lets a router's breaker open, recover and be probed; 4 lets a
tombstone be written, expire and be pruned; 2 is the length of the limiter's
window, so that charges expire while others do not. `MaxCalls` bounds the
operations begun by writers: three give a write, a pruning write and one that
races both; deletion needs four, for the second Init. `MaxEntries` is the
snapshot's limit, small enough to be met. `MaxOps` bounds the commands of the
key store: three give a migration that is cut short, its retry, and an import
or inspection around either. One failure opens a breaker in the router runs,
because counting up to a threshold is what `circuit_breaker` checks. Two
channels suffice for a group with one member left over and for a fallback that
is itself lost; two providers for an attempt that meets what another left.
`outbound` has every text of up to four characters over three, and longer ones
in which three matches form a chain, in every cut into three parts; its limits
are met by some of its bodies. Three arrivals on two goroutines make one
request begin after another has left while a third is in flight; key one has a
token limit and one slot, key two a budget and two slots. Three requests at the
server make one begin, end and begin again around the start of draining. Two
defects let a later check hide behind an earlier one. Two edits of the worktree
give one that is undone; one swapped input is enough to be copied half. Writers
and keys, requests of the limiter, and the processes, values and directories of
the key store are permuted, only in runs without liveness.

Fairness. `router` assumes that a request's goroutine runs and that a dispatch
ends, which `StreamTimeout` ensures; nothing is assumed of the clock.
`revocation_reader` assumes that the poll goroutine ticks and that a refresh, a
read of a local file, ends; nothing is assumed of the writers. `process`
assumes that the main goroutine proceeds and its timers fire, never that a
handler or a hook ends. `rollback_drill` assumes that `run` proceeds: whatever
it waits for has a time limit in the code, and a killed group is gone.

### What the violations show

* A Revoke that finds its tombstone returns success without a directory sync.
  If the operation that renamed the snapshot failed in that sync, a power loss
  undoes a revocation both callers were told of or will believe in
  (`revocation.go:176`, against the comments at 63 and 118).
* Route leaves a priority group when the channel it picked has just opened,
  without trying the others (`router.go:207`, against the comment at 162). With
  one channel per priority `router` shows that this cannot happen.
* A captured 200 that fails to transform is flushed as an empty 200
  (`proxy.go:83`), where `docs/module-boundaries.md:57` promises a 500.

## 4. Proofs

The theorems hold for any sets of requests, writers, keys, providers and paths,
and any values of the numeric constants that satisfy the named assumptions
(`BreakerAssumption`, `RouterAssumption`, `RevocationAssumption`,
`LifecycleAssumption`, `ProcessAssumption`, `AdmissionAssumption`,
`KeyStoreAssumption`, `OutboundAssumption`, `TreeAssumption`). Where requests are counted, their set
is finite; the ids of keys are numbers, since the passes over the store go
through them in order; the paths of a worktree are finitely many and form a tree
under its root; the modes of a request are the three of the configuration, and
the host names in URLs and in the allowlist are sequences of labels.

**`CircuitBreakerProofs`**: `SingleProbe` and `ClosedBelowThreshold` are not
inductive, because nothing in them says which leases a settlement will honour.
`IInv` adds that no lease is of a later generation than the breaker, and that a
lease of the current one matches its state. Freshness and the recovery time
follow as action properties; the latter from the fact that `lastFailure` is
`Unix(failedAt)`, which loses less than a second.

**`RouterProofs`**: `ContextInv` says that a request holds a lease exactly from
Route's return to the end of the attempt, on the channel it selected, and that
an attempt starts without the outcome of an earlier one. Each action then
touches the breakers in one of four ways: not at all, by taking a lease, by
taking a probe, or by settling. Each of them is a step of `CircuitBreaker` on
one channel and none on the others, which is `BreakersImplement`; and only the
last, after a dispatch that failed, adds a failure. What `CircuitBreakerProofs`
proves thus holds of every channel. (That last inference is by substitution: the
prover cannot cite theorems of an instance with a parameter.) `BestAvailable` is
proved for one channel to a priority, as it is false otherwise (`router_group`):
`SearchInv` says that every channel that has been closed since Route began is
still to be scanned or has been picked. That the sorted candidates have a first
needs the least element of a set of numbers, which the well-foundedness theorems
of the library give.

**`RevocationProofs`**: `IInv` says that the lock's holder is the only writer
past it, that a staged snapshot extends the file, that every image a power loss
may leave, every snapshot the reader may have read and every view it serves
holds what was committed by its generation (`Holds`), and that views are behind
the file. From it follow durability, rejection of revoked tokens, and that
rollback detection has no false alarm. `ReaderNeverForgets` is proved of
`DeletingSpec`, where the file may be anything, from `Refresh` alone.

**`AdmissionProofs`**: a slot is counted exactly while a request holds it
(`SlotInv`, with the finite-set theorems for a set that gains or loses one
member). For the budget, what has been spent is not enough: `BudgetInv` bounds
what has been spent together with what every request that the check can no
longer stop may still spend. Such a request is past the check, or is about to
compare a fresh record that was not stored. Each holds a slot, so that the
budget is exceeded by less than one request for each slot.

**`ProcessProofs`**, of the lifecycle: the channel `Run` waits on is still the
lifecycle's channel, since nothing begins once draining is set; that channel is
closed only while nothing is active; and hooks start only after `Run` has seen
it closed. Hence no hook runs under a handler, hooks run in order, and `Run`
returns nil only after all of them. This part does not use how many hooks there
are. Of the process: every step is a step of `Lifecycle` or leaves it alone, so `ProcessSpec => Spec` and all theorems about the lifecycle hold of
the process. `KeyInv` then says what is live at each stage of the start and
after each hook, and gives that handlers have their keys, that a failed start
releases everything and that exit status 0 leaves nothing. `CheckedInv` says
which defects each stage of the start has excluded: from it follows that no key
is read under a configuration with a mistake (`ConfigErrorsFirst`).

**`KeyStoreProofs`**: what a command may do to the store depends on what it saw
some steps ago. `Progress` says, for each step, how what the process that holds
the lock has seen, copied and rewritten so far compares with what the store and
its backup hold now; `LockInv` says that nobody else is past the lock, so that
the others' progress cannot be disturbed. A crash at any point keeps all of it,
because the backup is compared with what the store was when its directory was
made. `NoSilentReplace` follows as an action property. The order of the ids
needs a least element again.

**`OutboundProofs`**: `BufferInv` says that every buffer but the body and the
router's copy is zero, and what those two hold at each step; `FlightInv`, that
what a transport may still be reading is text that may leave, in the form of its
provider, or zeros. From them follow that only redacted text leaves, that
attempts start alike and that nothing is left at the end. The other half is
about `Egress`: the authority that net/http makes of a URL parses to the same
endpoint as the URL, so that what the server has accepted at the start is never
blocked, and every connection is within the allowlist. This holds for any
resolver.

**`RollbackDrillProofs`**: the stages have a fixed order, and `RootInv`,
`SealedInv`, `StoreInv`, `SummaryInv` and `CleanInv` say what is settled after
which of them; `GroupInv` says where a process can be alive, and that the next
deferred call stops it. That nothing survives the drill, that the copies are
closed, that locked contents run and that the summary is true follow from them
for any number of writes, swaps and edits. `FinalMeansClean` needs more:
`WalkInv` says that once a directory has been listed, each of its paths has been
as the commit has it at some moment, or is in the snapshot, or is still to be
looked at; that an entry of the snapshot that agrees with the commit was there;
and that the walk ends by leaving a directory. The conclusion then has seen the
whole tree, by the assumption that every directory is reached from the root.

Only model-checked: all liveness (`Answered`, `ProbesResolve`,
`RevocationVisible`, `ProcessEnds`, `DrillEnds`), which is out of the prover's
reach; what the functions of `Redaction` compute (`RedactionExact`,
`NumbersClean`), and `WindowExact` and `RatesBounded`, which would need induction
over texts and lists of charges.

## 5. Not modelled

* The Vault scaffold, whose methods all return not implemented; subscription
  plans, which no request path uses; the models endpoint, the utilities and the
  release manifest tool, which keep no state and run beside nothing.
* `RotateKey`, `DeleteKey` and `SetBudget`: nothing in the program calls them.
* Issuing and signing of virtual keys, parsing of command lines and of HTTP
  headers, the mapping of JSON fields between protocols, token counting,
  logging and audit records: functions of one input without state.
* The bytes of JSON documents: a document is accepted or refused, or is a
  sequence of tokens. Cryptography, hashes and TLS are what they promise.
* In the redaction, the anchors of patterns and the limit on the bytes of one
  array of content parts.
* In the key store, power losses and other programs that write the store: the
  release plan has them stopped. In the drill, processes that leave their
  process group, which the code declares out of its reach.
