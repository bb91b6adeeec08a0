# TLA+ models of dtn7

TLA+ modules for the dtn7 delay-tolerant networking daemon (Go): the bundle
processing pipeline of `core`, the receive-time canonical block walk, the
BPv7 primary block codec, and two TCPCL wire formats. Each module is
translated from the source under `src/`. `PROJECT.json` gives the source
lines behind each definition (`map`), the runs, the mutants, the findings
and the hazards.

## 1. The system and its parts

| Part | Source | State | Operations |
|---|---|---|---|
| Processing pipeline | `src/unnamed/part_000` (`core/processing.go`) | bundle store (bundle id → BundlePack constraints), convergence-sender registry, status reports sent, per-call BundlePack copies | `transmit`, `receive`, `dispatching`, `forward`, `checkAdministrativeRecord`, `inspectStatusReport`, `localDelivery`, `bundleContraindicated`, `bundleDeletion` |
| Canonical block walk | `part_000` 57-89 | the bundle's block list | report / delete bundle / excise block, per unknown block |
| Primary block codec | `src/unnamed/part_001` | none (pure) | `CodecEncodeSelf`, `CodecDecodeSelf`, `HasCRC`, `HasFragmentation` |
| TCPCL contact header | `src/cla/tcpcl/contact_header.go` | the TCP byte stream | `Marshal`, `Unmarshal` |
| TCPCL SESS_TERM | `src/cla/tcpcl/message_sess_term.go` | none (pure) | `MarshalBinary`, `UnmarshalBinary` |
| IdKeeper | spec §4.2 (called at `part_000` 21) | per-source highest creation-timestamp sequence | `update`, called by `transmit` |
| BundleBuilder | `src/bundle/endpoint_dtn_test.go` 70-444 (`bundle_builder.go`) | sticky error, primary block fields, canonical blocks, block counter, CRC type | setters, `Canonical`, the block helpers, `Build` |

**How the parts interact.** Bundles enter the pipeline in two ways:
`SendBundle`/`transmit`, called by an application agent, and `receive`,
called by each CLA's receiving goroutine. The two are concurrent, and all
callers share the store. There is no lock around a call. Each call works
on its own copy of the BundlePack and writes it back with `store.Push`,
so the last write wins.

`forward` starts one goroutine per chosen convergence sender and joins
them with a `sync.WaitGroup`. A failed send restarts its sender in three
steps: `Close`, `RemoveConvergenceSender`, `RegisterConvergenceSender`.

A status report that arrives addressed to this node is parsed by
`checkAdministrativeRecord`. A DeliveredBundle report purges the subject
bundle's constraints in the store, and this can happen while another
goroutine is still forwarding that bundle.

Every goroutine can originate bundles: agents call `SendBundle`, and any
pipeline stage that emits a status report sends it through `transmit`
(spec §4.6). So `transmit`'s `idKeeper.update` runs on several goroutines
at once.

The TCPCL contact header and SESS_TERM formats are what the TCP CLA
exchanges. The primary block codec is what every received bundle goes
through.

**What is hard here.**
- The check-then-act in `receive` (`KnowsBundle`, then `Push`).
- The stale BundlePack copy that `forward` writes back after `wg.Wait`.
- Concurrent link restarts.
- Whether `wg.Wait` returns.
- In-place excision of blocks while iterating over them.
- A decoder that picks its layout from the array length.
- A single `Read` of a header that TCP may split across segments.
- The IdKeeper's read-then-write under concurrent `transmit`s.
- A builder whose `Build` writes a default into its own state before it can still fail.

## 2. Modules

| Module | Models | Composed by |
|---|---|---|
| `BlockWalk` | `receive`'s reverse block loop as the RECURSIVE `WalkFrom`, and a loop-free reference (`RefReports`, `RefKept`, `DeleteIdx`) | `Processing` (used by `ReceivePush`), `MC_BlockWalk` |
| `Processing` | the pipeline and the fan-out, as a state machine | `MC_Processing` |
| `PrimaryBlock` | `Encode`/`Decode` of the CBOR array, `HasCRC`, `HasFragmentation` | `MC_PrimaryBlock`, `MC_PrimaryBlockDecode` |
| `TcpclContactHeader` | `Marshal` onto a segmented stream (or failing part-way and closing), `Unmarshal` with one `Read` (or `io.EOF`) | its own cfgs |
| `TcpclSessTerm` | the flag and reason-code constants, `NewSessionTerminationMessage`, `MarshalBinary`, `UnmarshalBinary` | `MC_TcpclSessTerm` |
| `BundleBuilder` | every builder method as an operator from builder to builder, and a caller chaining up to `CallBound` calls | its own cfgs |
| `IdKeeper` | the start of `transmit` (`idKeeper.update`, then `Push`) on concurrent goroutines, with the IdKeeper from spec §4.2 as an unlocked map | `MC_IdKeeper` |
| `BundleLifecycle` | the abstract per-bundle lifecycle the pipeline promises (spec §2 item 7) | instanced by `Processing` |

### Processing: state and actions

**Variables.**
- `store`: a partial function from bundle id to a constraint set. Its domain is the set of known bundles; `Knows(b)` is `KnowsBundle`.
- `pc`, `next`, `cons`, `reason`: one entry per caller goroutine (`Procs`). `pc` is where the goroutine is in the pipeline, `next` is its next call in `Script`, and `cons` is its local BundlePack copy.
- `go`, `wg`, `sent`, `delAfter`: the fan-out of `forward`. `go[p][n]` is the phase of the goroutine that sends to `n`. `wg` is the WaitGroup counter and `sent` is `bundleSent`.
- `registered`, `closed`: the sender registry and the senders that have been closed.
- `reports`: the status reports sent, each as (subject, kind, reason).
- `delivered`, `transmitted`, `released`, `terminal`: counters and history sets for the properties. `terminal` holds the bundles that reached a terminal state here.

**Actions.** An action ends wherever the Go code touches shared state.
Every `Push` is inside the action whose code makes it.

| Action | Code |
|---|---|
| `Transmit` | `transmit` 12-36: push DP (`Store.Push` is an upsert: the new pack replaces a stored one), source check, then `dispatching` or `bundleDeletion` |
| `Receive` | `receive` 39-48: the `KnowsBundle` check; a known bundle is dropped |
| `ReceivePush` | `receive` 50-91: push DP, reception report, the block walk, then `dispatching` or deletion |
| `Forward` | `forward` 106-143: push FP without DP; the hop count, lifetime and age checks |
| `Route` | `forward` 145-158: a direct sender, or the routing choice; no sender leads to `bundleContraindicated` |
| `SendSucceeded` | 169-186, success branch: `once.Do`, then `wg.Done` |
| `SendFailed` | 171-176 |
| `RemoveSender` | 177 |
| `RegisterSender` | 178-185, including `wg.Done` |
| `AfterSend` | 189-206: the four outcomes after `wg.Wait` |
| `LocalDelivery` | `localDelivery` 279-305, including `checkAdministrativeRecord`/`inspectStatusReport` (`InspectedStore`) |
| `BundleDeletion` | `bundleDeletion` 314-323 |

**Abstractions.**
- A bundle is a record of the attributes the pipeline branches on (`BundleAttr`).
- Lifetime and age are a nondeterministic expiry when `mayExpire` is set.
- The routing algorithm returns any subset of the registered senders and any `deleteAfterwards`.
- A send may fail on any open sender, and always fails on a closed one.
- Status reports are recorded, not sent as bundles.
- The store, `SendStatusReport` and the routing/registry code are not under `src/`. They are modelled from the spec and marked `spec_modelled` in the map.

## 3. Runs

| Run | Expect | What it shows |
|---|---|---|
| `block_walk` | pass | `ReverseWalkCorrect`: for every list of at most 3 blocks (4 flag bits each), the loop agrees with the reference on the reports, the deletion and the blocks kept. |
| `pipeline` | pass | A CLA goroutine receives b1, b1, s1, b2, b3, s2, h1 while an application goroutine transmits a1, a2, a3 (143k states). See the invariants and the refinement below. `AllCallsReturn`: under weak fairness every call returns, and no `wg.Wait` hangs. |
| `duplicate_receive_race` | violation | Two CLAs receive h1 at once. Both pass `KnowsBundle` and two DeletedBundle reports are sent (finding 1). |
| `report_during_send` | violation | A delivery report for a4 is inspected while `forward(a4)` waits. The failed send then pushes `{FP, CI}` over the purged pack, breaking `DeliveredIsFinal`: a pack purged by a delivery report stays purged (finding 2). |
| `primary_block_roundtrip` | pass | Decode∘Encode is the identity on the relevant fields, for every flag and CRC combination. |
| `primary_block_decode_layout` | violation | A 9-element array with CRCType CRCNo decodes with CRC set (finding 3). |
| `contact_header_integrity` | pass | `AcceptedHeaderIsPeers`: a header is accepted only if the peer sent a valid one, and then with the peer's flags. `TypeOK` bounds the decoded flags. |
| `contact_header_segmented` | violation | A valid header split across TCP segments is rejected (finding 4). |
| `sess_term_codec` | pass | `SessTermRoundTrip`: every message, built with `NewSessionTerminationMessage` over the reply flag, every defined reason code and undefined octets, round-trips, and every truncation is rejected. |
| `builder_chains` | pass | Every chain of 4 builder calls (51k states). `FailedBuilderFrozen`: after a failed call no later call changes the primary block, the blocks, the counter or the CRC type, and the builder stays failed. `BlockNumbering`: payload blocks are number 0, the others 1, 2, … in order, and the counter is the next free number. |
| `idkeeper_race` | violation | An agent sends two bundles and a pipeline stage one status report, all from `self` in the same second. Both goroutines read the IdKeeper's entry for `self` while it is still absent, so each keeps sequence 0. Both bundles are pushed as (self, 1, 0), and the stage's pack overwrites the agent's in the store (finding 6). |
| `builder_reportto_stale` | violation | Source(e1) and a `Build` that fails: the builder now holds ReportTo = e1. Then Source(e2), Destination and `Build`: the bundle reports to e1, not to its source e2 (finding 5). |

**Invariants of the `pipeline` run.**
- `AtMostOneOutcomeReport`: at most one Forwarded, Delivered or Deleted report per bundle.
- `NoPackStrandedInDispatch`: a known bundle no goroutine is handling is never left with DispatchPending, and Contraindicated comes only with ForwardPending.
- `RestartRestoresSender`: a sender nobody is restarting is registered and open.
- `PurgeIffTerminal` (spec §8, constraint purge implies eligibility): once no call works on a stored bundle, its constraint set is empty exactly when it was delivered, deleted or sent with deleteAfterwards, or a DeliveredBundle report released it. The history variable `terminal` records the first three and changes nothing else.

**Refinement.** `BundleLifecycle` is the abstract specification of what
the pipeline promises each bundle: unknown → dispatch → forward or done,
forward → contraindicated or done, contraindicated → done, never back.
Several bundles may move in one step, because a delivered status report
releases its subject in the same step. `Processing` defines `Phase(b)` from
the stored constraint set (not stored, DispatchPending, Contraindicated,
ForwardPending, empty) and `Lifecycle == INSTANCE BundleLifecycle WITH
phase <- [b \in Bundles |-> Phase(b)]`. The `pipeline` run checks
`LifecycleRefinement == Lifecycle!Spec` as a PROPERTY. The mapping sends
{ForwardPending, Contraindicated} and {Contraindicated} alike to
"contraindicated", so it does not tell a bundle that keeps ForwardPending
(spec scenario 3) from one that does not. That "every
bundle leaves dispatch" follows from `AllCallsReturn` and
`NoPackStrandedInDispatch`. It is not restated as a leads-to through the
mapping, because TLC cannot evaluate fairness of the abstract action
through the substitution, and checking the nine leads-to formulas takes
three minutes.

Every property of a passing run has a mutant in `PROJECT.json`: a plausible
bug in the mapped definition that TLC catches. Examples are the dropped
`KnowsBundle` check, a missing
`RemoveConstraint(DispatchPending)`, a skipped restart, a missing
`wg.Done`, a double `wg.Done`, an upward walk, swapped decode cases, a
skipped version check, a dropped length check, a flags octet off by one,
swapped unmarshal fields, a builder counter starting at 0, a `CRC` setter
without the error check, a `bundleDeletion` that never pushes, and a counter that also advances for the payload
block.

**Bounds.**
- The pipeline script's 9 bundles were chosen so that every branch of every function fires (TLC coverage shows each action and disjunct taken). They cover a forwarded bundle with a report-and-remove block, a local delivery, a block demanding deletion, a parsed and an unparsable status report, a foreign source, a routed bundle that may expire, an administrative bundle on the `inspectAllBundles` path, and an exhausted hop count.
- Two senders are enough for two fan-out goroutines to race on restarts.
- Two processes are enough for every two-actor race listed as a hazard.
- The IdKeeper run has two goroutines and three transmits from one source in one second. One goroutine transmits twice, so its second update can fall between the other's read and write. With one goroutine the same transmits get sequences 0, 1, 2, and TLC finds no violation.
- Block lists up to 3 blocks cover an excision followed by a shifted neighbour.
- Contact headers of 6 octets cover every split of a segment and every point at which the peer's write can break off.
- Builder chains of 4 calls reach every method after a failure, a second block after a payload block, and `Build` after every kind of failure. The ReportTo run needs 5 calls: Source, Build, Source, Destination, Build.
- Builder arguments: two endpoint ids plus the zero `EndpointID{}`, an unparsable string and a wrong type. Durations: 0 and positive uint/int values, -1, and duration strings of 0, 500 and 5000 ns. Payloads: `[]byte`, a fixed-size value, a string and an `int`, the last two of which `binary.Write` rejects.

**Fairness.** Goroutines are scheduled preemptively by the Go runtime. A
send either completes or fails, because CLA sends have timeouts. This
justifies weak fairness of every caller goroutine (`Proc(p)`) and of every
fan-out goroutine (`FanOut(p, n)`). Nothing stronger is assumed. The
deadlock check stays on: every script ends in `Terminating`.
The IdKeeper model has no fairness: its only run looks for a safety
violation. Its `fatal` outcome, the Go runtime aborting on concurrent map
access, ends the behaviour in `Done`.

## 4. Not modelled

- The IdKeeper's code. Its `update` is modelled from spec §4.2 in `IdKeeper`. The store's implementation, `SendStatusReport`'s bundle construction, the routing algorithms and the CLA registry are outside `src/`. The pipeline sees them only through spec-modelled operators.
- Logging and the `String()` methods (`ContactFlags`, `ContactHeader`, `SessionTerminationFlags`, `SessionTerminationCode`, `SessionTerminationMessage`) are formatting only.
- `NewBundle`'s validation and `CalculateCRC`, called by `Build`, are not in `src/`. `Build`'s call of `NewBundle` is a nondeterministic success or failure.
- The builder methods called without their required first argument panic with an index out of range. That misuse is left out.
- The builder's lifetime edge cases (hazard list): `Lifetime(0)` is accepted, `"0s"` is refused, and a duration below 1 µs becomes lifetime 0. The model reproduces them, but no property is stated, because the intended rule is ambiguous in the code.
- Spec scenario 3 expects the set `{Contraindicated}` for a bundle without a route. The code leaves `{ForwardPending, Contraindicated}`, and the lifecycle mapping treats both as contraindicated.
- The golangci-lint config is tooling.

## 5. Further work

These items need code that is not in the repository, or a budget of runs
the project does not spend:

1. Store sweeps and the re-dispatch of contraindicated bundles after a
   restart. The spec (§4.1) requires them, but their code is outside `src/`.
   Until then `{ForwardPending, Contraindicated}` is a resting state.
2. The registry as a list whose `Register`/`Remove` run under a lock.
   The code is outside `src/`, so the model keeps a set with atomic updates.
3. Larger pipeline instances: three goroutines, or the same bundle on two
   nodes. The two-process scripts already reach every two-actor race in the
   hazard list.
4. A violation run for the builder's lifetime edge cases (hazard at
   `endpoint_dtn_test.go:178`), if the intended rule for zero is settled.
