# Molly: a TLA+ verification project

Molly runs scientific agents: a decision provider (a language model or a fixed
workflow) proposes tool calls, a loop executes them under hard limits and human
approvals, and everything that happened is kept in an append-only ledger, a
content-addressed artifact store and a provenance log. This directory models
that program, checks the models with TLC on small instances and proves the most
important properties with TLAPS. Paths below are relative to `src/src/molly/`,
documents to `src/docs/v2/`.

Contents: 1 the system; 2 the modules; 3 the runs; 4 the proofs; 5 what the
models assume; 6 where code and documents disagree; 7 what is not modelled;
8 the plan.

## 1. The system

All runs of one installation share one *state root*: one `events.jsonl`, one
`lineage.jsonl`, one artifact directory (`runtime/service.py:94-102`). Nothing
locks a run. Each operation of `RuntimeService` opens fresh objects on these
files, from the request threads of a `ThreadingHTTPServer`, from a pool of two
background workers, or from a CLI process. The files are therefore the only
shared state, and most hard behaviour comes from reading them at one moment and
writing at another.

| Component | State | Operations | Talks to | Hard behaviour |
|---|---|---|---|---|
| AgentLoop (`core/agent_loop.py`) | nothing of its own: a projection of the run's events | `run(request, approval)` | ledger, store, lineage, provider, executors | a crash between any two appends, resumption, two drivers of one run |
| RunLedger (`core/ledger.py`, `core/_persistence.py`) | `events.jsonl` with a digest chain | `append`, `events` | flock, fsync | torn lines, unlocked readers, power loss |
| ArtifactStore (`core/artifacts.py`) | an object and a metadata file per content | `put`, `read`, `verify` | hard links | two files published without a lock, death between them |
| ArtifactLineage (`core/lineage.py`) | `lineage.jsonl`; per instance the identities it knows | `register_*`, `add_relation_idempotent` | as the ledger | a cached view of a file other runs append to |
| AcquisitionCache (`acquisition/cache.py`) | a body and a manifest per request | `get`, `put` | transport | racing fills that differ, orphans |
| SafeNetworkTransport (`acquisition/transport.py`) | a slot gate per provider, a rate gate per host | `fetch` | DNS, HTTP | slots on error paths, redirects inside retries inside a deadline, clocks read outside a lock |
| DurableComputeBackend (`plugins/remote_compute/backend.py`) | a state file per idempotency key | `submit`, `inspect`, `collect` | runner, store | crash around the paid call, a failed write that happened |
| Web server (`web/app.py`) | futures per run, previews, upload names | start, resume, approve, show, close | RuntimeService | check-then-act between threads, late approvals, polling |
| RuntimeService (`runtime/`) | none | `start_run`, `resume_run`, `record_approval` | AgentLoop | one loop per call |
| Inspection, observability (`core/inspection.py`, `observability/`) | none | `inspect_run`, exports | ledger, lineage, store | several reads that drivers interleave with |
| BR1 workflow (`plugins/br1_inverse_design/workflow.py`, `runtime.py`, `bindings.py`) | one frozen intent event per run | `next_action`, the stage tools' bindings | AgentLoop, language model | two drivers freezing an intent, seven reads of a ledger that grows, failed stages |
| BR1 science (`plugins/br1_inverse_design/dataset.py`, `remote.py`, `evaluation.py`, `assets/`) | files of a run on another machine | prepare, preflight, train, generate, predict, evaluate | ssh and scp, artifacts | order of the checks of a record, retries of the generator, two racing time limits |
| Provider settings (`web/providers.py`) and BR1 plans (`web/app.py`) | two JSON files; previewed plans by token | upsert, set and remove a secret; preview, start | web server, LLM client | unlocked read-modify-write, profiles read several times while others edit them |
| Evidence (`evidence/`, `domains/oled`) | none; artifacts of six kinds | extract, map, validate, prepare review, review, export | artifacts, language model, a person | the model may combine any artifacts in any order |
| Acquisition, end to end (`acquisition/service.py`) | none | `acquire_full_text` | cache, transport, store | a fetcher's own response against the cached one |
| Documents, CLI | none | parsers, argument parsing | artifacts | formats |

What makes each correct:

* **AgentLoop**: a tool runs at most once per materialized call, never after a
  rejection, never before a required approval; limits hold across restarts;
  the loop never writes a ledger its own strict reader refuses; the lineage of
  every success is complete before the next decision; `run()` returns.
* **RunLedger**: what `append` acknowledged survives, no event is altered or
  removed, the file stays readable line by line, every call returns.
* **ArtifactStore**: everybody is told the same record of a content; metadata
  never vouches for bytes that are not there.
* **ArtifactLineage**: no relation twice; a projection that ends normally is
  complete; every success is projected in the end.
* **AcquisitionCache**: one request, one answer; a manifest describes the body
  it lies beside; a partial entry is never served nor completed.
* **SafeNetworkTransport**: slots are conserved, a fetch is bounded, requests
  to a host keep their distance.
* **DurableComputeBackend**: the runner is called once per key; a job that says
  it succeeded can be collected; all callers get the same.
* **Web server**: no two workers drive one run; an approval decides the call it
  was given for; a page that polls stops.
* **BR1 workflow**: one intent per run whoever drives it; the Top-N comes from
  one chain of artifacts; a failed or rejected stage ends the workflow.
* **BR1 science**: every record of an upload is accounted for once; the list is
  the best of exactly as many distinct molecules as were asked for; the host does
  not give a command up while it runs, and both end.
* **Settings and plans**: a key is sent only for the reference it came for, to a
  profile that stood there before `set_secret` looked; a run names the model that
  read its goal.
* **Evidence**: a dataset is what somebody approved, each row can be followed to
  its source, and no two rows contradict each other.

The full list of hazards, each at its line with the properties that watch it,
is `hazards` in `PROJECT.json`.

## 2. The modules

| Module | Models | Relation |
|---|---|---|
| `RunLifecycle` | what an operator is promised about a run's status and executions | abstract |
| `AgentLoop` | `AgentLoop.run()` by any number of drivers | implements `RunLifecycle` with one driver |
| `AgentLoopProofs` | | proofs about `AgentLoop` and `Br1Workflow` |
| `AppendLog` | an append-only log of acknowledged facts | abstract |
| `RunLedger` | append and read of `events.jsonl`, one system call a step | implements `AppendLog` |
| `RunLedgerProofs` | | proofs about `RunLedger` |
| `ArtifactStore` | put and read of one content | |
| `ArtifactLineage` | drivers projecting successes into `lineage.jsonl` | |
| `ArtifactLineageProofs` | | proofs about `ArtifactLineage` |
| `AcquisitionCache` | get, put and `_fetch_request` of one request | |
| `FullTextAcquisition` | `acquire_full_text`, from the cache to the store | composes `ArtifactStore` and `AcquisitionCache` |
| `FullTextAcquisitionProofs` | | proofs about the two and their composition |
| `HostGates` | `fetch` with slots, rate gate, redirects, retries, deadline | |
| `HostGatesProofs` | | proofs about `HostGates` |
| `ComputeJob` | one job per key: dispatched once, one result | abstract |
| `RemoteCompute` | submit, collect of one key | implements `ComputeJob` |
| `RemoteComputeProofs` | | proofs about `RemoteCompute` |
| `WebRuns` | the server's threads, futures and a small loop per run | what it guarantees is what the proofs about `AgentLoop` assume |
| `WebRunsProofs` | | proofs about `WebRuns` |
| `Br1Plans` | settings, previews and the start of BR1 runs | gives `Br1Workflow` the intent of a confirmed plan |
| `Br1Workflow` | the BR1 provider and its six tools | extends `AgentLoop` with a provider that is code |
| `EvidenceReview` | from a document to a reviewed dataset | |
| `Br1Science` | the data of a BR1 run, and the commands on the other machine | composes with `EvidenceReview`: its datasets are one of the two ways in |
| `Br1Proofs` | | proofs about `Br1Plans`, `EvidenceReview` and `Br1Science` |
| `MC...` | the instances of the runs | |

Every definition that models code is listed with its lines in `map` of
`PROJECT.json`. A name `Bug_X` beside a definition is that definition with one
mistake in it; it records which change of the code a property notices, and no
specification uses it.

**AgentLoop.** `ledger` is the run's part of `events.jsonl`; `store` and
`lineage` are what is published; `effects` is a history of executor calls. `pc`
is the place of a driver in `run()`, named for what it does next, `loc` its
Python locals; both die with it (`Crash`). Each append is a step, and so is each
read at the top of the loop (`_project`, `_counts` are the operators on
`ledger`); between them others may act. `Invoke` is an operator who calls `run`
with a request and perhaps an approval; `Decide` and `ProviderDeclines` are the
provider; `Execute`, `PutDraft`, `PutFails` are an executor and the publication
of its drafts, one at a time; `SuccessRefused` is the event that refuses a
repeated output id outside the `try`. A call is named by the position of its
`TOOL_CALL_MATERIALIZED` event, which is fresh as the drawn ids are.

**RunLedger.** `file` holds complete lines, `tail` the bytes behind the last
newline, `durable` what the last fsync reached. An append takes the lock, reads
the file (`Refused` raises), writes a line in one or two `write` calls, syncs and
unlocks; a reader takes lines without a lock. `Die`, `WriteFails` and
`PowerLoss` may come anywhere. The digest of an event is its chain of ids.

**ArtifactStore.** One content; `object` and `record` are the two files, each
made by a link that never replaces. A put looks, links the object, looks for
metadata, links its own, looks again, compares.

**ArtifactLineage.** `recorded` are the success events of all runs; a driver
opens its own instance, registers (the first registration hydrates the known
identities from the file and turns the instance strict), looks for each relation
without the lock and appends it under the lock. The driver's snapshot of the ledger is
a set of positions, of which it takes the first that is left.

**AcquisitionCache, FullTextAcquisition.** `bodyFile`, `manifestFile`; a fetcher
that misses goes to the network and then through `put`'s tests and links, each a
step. The composition hands what a fetcher came back with, and the content type
*it* saw, to the store's `put`; other callers put and read the same content.
That the cache gives all callers the same bytes (`AnswersAgree`, part of
`CacheSound`) is why one content suffices.

**HostGates.** Discrete time by `Tick`; all times are relative to now. Each lock
of the transport is one step; the clock that `_acquire_host_rate_slot` reads
before it takes the gate's lock is a step of its own.

**RemoteCompute.** `job` is the state file, `published` the outputs and
manifests in the store, `runs` the history of runner calls. A write that raises
may have happened; a reader reads the file twice.

**WebRuns.** `jobs` are the futures of each run, `queue` the executor's queue,
`request` and `driver` what each thread holds. The check for an unfinished
future and the submission are one step (one lock); the three looks of
`_run_detail` are three.

**Br1Plans.** `profiles` and `secrets` are the two files, `previews` the plans by
token, `request` each server thread's place and locals. A change of a file is a
read and a later write of the whole. A key has an identity apart from the profile
it is bound to: it comes with the reference alone (`BeginKey`), `set_secret` looks
at the profile later (`ViewProfile`) and writes both later still (`SaveKey`).
`keys` records, as history, for which reference each key came and which profiles
stood there until that look. A model is called in four steps, as in the code: the
profile is bound, its credential checked, the adapter made, the key resolved and
sent. `CreateAdapter` has both ways of `_compile_workflow_intent`: a decision
provider with `compile_intent` (`Compilers`) compares the profile with the one the
request is bound to, another parses without a comparison. A plan is fetched and
taken away in two critical sections. `runs` and `sent` are histories.

**Br1Workflow.** `AgentLoop`'s variables, and for each driver `ask`, its place in
`next_action`: the frozen intent is looked for, the goal parsed, the intent
appended or found there already, and then a look at the ledger per stage. What
the loop appends in a row is one step here, and lineage and publication are left
out; `AgentLoop` takes those apart. A product is named by what it was made of,
or by its call where the content carries the run and step.

**EvidenceReview.** `store` is the set of artifacts; every tool is an action that
takes *any* artifacts of the right kinds, as a model may propose, and adds one.
Candidates, packets and answers are small records; numbers are thousandths.

**Br1Science.** `phase` is the stage; cleaning, preflight and ranking are steps of
the host; a remote stage is `local` (what the host waits for, how long already)
and `remote` (the command, its time and its work). Connections fail at any step,
a command may outlive its host, time passes in ticks up to what is due.

## 3. The runs

Every property is violated by at least one plausible mistake in the code
(`mutants` in `PROJECT.json`), so none of them holds by the shape of its model.

| Run | Shows | Instance, and why it is enough |
|---|---|---|
| `agentloop_alone` | with one driver at a time: `TypeOK`, `ExecutedAtMostOnce`, `RejectedNeverExecuted`, `ApprovalPrecedesStart`, `LedgerProjectable`, `HardLimits`, `DataFlowSound`, `SuccessesProjectedFirst`, and that the loop implements `RunLifecycle` | 2 requests of one run id, a local and an approval-requiring tool, 3 decisions, 2 calls, 2 drafts, 2 crashes. Two calls let a second meet what the first left; two crashes let a resume die as well; three decisions let a run end after both calls or hit a limit |
| `agentloop_two` | two drivers of one run: every `run()` comes back (`RunReturns`) | limits of 1, so that the second driver can overstep at once; a forbidden tool among the proposals |
| `ledger_stops` | `LedgerSound` (with `SnapshotComplete`), `CallsReturn`, and that the file implements `AppendLog` | 2 processes, 3 ids (a chain with a middle), 2 stops: a torn write and then a power loss |
| `lineage_drivers` | `FileSound` (with `ReconciledIsComplete`), `EventuallyProjected` | 2 drivers, 2 runs, a run with two successes of which the second uses the output of the first, 1 death |
| `acquisition` | `OneRecord`, `RecordHasObject`, `MediaAgrees`, `CacheSound`, `OutcomeIsFinal` | 2 callers, 2 bodies, 2 responses of different media types, 1 death. Callers come again without bound, so a third would only repeat one of the two |
| `compute_job` | `JobSound`, `DispatchedOnce`, `CallersAgree` (handles and collected outputs), and that the backend implements `ComputeJob` | 3 callers, 2 tasks under one key (misuse), 2 outputs, 2 deaths or failed writes |
| `gates_pair` | `LimitsCount` (slots add up, requests are bounded), `ReservationsSpaced` | 2 threads, a quick and a slow provider of one host, one slot each, 1 retry, 1 redirect, deadline of 3 |
| `web_runs` | `WorkersSound`, `ApprovalDecidesNamedCall`, `FuturesSettle` | 1 run with 2 calls and 2 futures, a request that comes again, 2 workers, close, 1 kill |
| `br1_plans` | `KeyGoesHome`, `RunsBound` | 2 requests, 2 references, 2 profiles, 2 runtime profiles of which one has `compile_intent`, 1 goal; 4 edits let both requests save a profile and a key, 3 plans a preview and two starts |
| `br1_workflow` | `IntentAgreed`, `ChainExact`, `AbortStops` | 2 drivers, a request that asks the model and one with a confirmed plan, 3 possible intents of which 2 are usable, limits that allow all six stages and one repetition, 1 death, 1 meeting of two drivers inside the provider: enough for one driver to choose on a view of the ledger that the other has outdated; more meetings are too many states |
| `br1_science` | `ExportedAsReviewed` (with `RowsTraceable`), `RowsAgree`, `CleaningAccounts`, `ListExact` (`CandidatesExact`, `RankingExact`), `TimeLimitLeavesNothingRunning`, `WaitsEnd` | 2 documents of 2 sources, 7 artifacts: one whole way from document to dataset takes 6, so that one artifact more can get in between. 13 answers, one for each way to be refused or to conflict; uploads of up to 3 of 6 kinds of record with a limit of 2 rows; 3 candidates, a list of 2, 2 attempts |
| `agentloop_approval_lost` | counterexample to `ApprovalToolsWaitForApproval` | section 6 |

Bounds named `Max...` cap what the code leaves unbounded (crashes, deaths,
futures, drafts) or are its own limits (`MaxDecisions`, `MaxToolCalls`,
`MaxSteps`, `MaxRetries`, `MaxRedirects`). Symmetry is used only in runs without
liveness and only over values that are compared for nothing but equality.
`LimitsCount`, `FileSound`, `LedgerSound`, `CacheSound`, `JobSound`,
`WorkersSound` and `RunsBound` each conjoin a type invariant with the consistency
of the files or books it types. `br1_plans` and `br1_science` are checked without
deadlock: the bounded edits and plans, and a run, do end.

Fairness. `run()` is synchronous code, so a driver inside it takes its next step
(WF per driver); nobody has to call it, and no crash is fair. In the ledger a
process inside the code is scheduled (WF), and `flock` is granted to a waiter
that keeps finding it free (SF on `Lock`): the kernel queues waiters, and the
lock is given back on every path. A projection that failed against another
driver is repaired when its run is driven again; `EventuallyProjected` therefore
assumes that each run is resumed again and again (SF on opening it), which is
what the failing `run()` calls for, and nothing about who wins. Workers of the
web pool take queued work and finish it (WF), which assumes that each tool call
ends; requests are not obliged to come. In `Br1Science` the host's own steps, the
clock and what the clock makes due are fair (WF): `asyncio` waits with a timeout
and `timeout(1)` kills. A transfer ends, well or not, because `_run_checked` waits for each only so
long; which of the two it is, is left open. The command, the connection it runs on
and the people owe nothing; that both waits end follows from the limits alone. The other modules state no
liveness.

## 4. The proofs

All theorems hold for every value of the constants that satisfies the modules'
named assumptions. "One driver" is the hypothesis `AtMostOne(Drivers)` of the
theorem: one driver at a time, which may die and be followed by a resumption any
number of times, by any operator with any approval.

| Theorem | States |
|---|---|
| `AgentLoopProofs!Typing` | `TypeOK`, any drivers |
| `AgentLoopProofs!DataFlow` | `DataFlowSound`, any drivers: inputs were visible, lineage relates only what is recorded and published |
| `AgentLoopProofs!LimitsHold` | `HardLimits`, any finite set of drivers: at most one over a limit for each further driver |
| `AgentLoopProofs!AtMostOnce` | one driver: no call reaches its executor twice |
| `AgentLoopProofs!RejectionHolds` | one driver: a rejected call never runs |
| `AgentLoopProofs!ApprovalFirst` | one driver: a start that needs an approval comes after it |
| `AgentLoopProofs!LedgerReadable` | one driver: `LedgerProjectable`, no ledger is written that `_project` refuses |
| `AgentLoopProofs!ProjectedFirst` | one driver: `SuccessesProjectedFirst`, no decision before the lineage of every success |
| `AgentLoopProofs!LoopImplementsLifecycle` | one driver: the loop implements `RunLifecycle` |
| `AgentLoopProofs!OneIntentPerRun` | `IntentAgreed`, any drivers: one intent is frozen and every decision is made for it |
| `AgentLoopProofs!TopNOfOneChain` | `ChainExact`, any drivers: a Top-N comes from one chain of artifacts |
| `AgentLoopProofs!AbortIsFinal` | `AbortStops`, any finite set of drivers: after an abort, at most one more call for each other driver |
| `RunLedgerProofs!FileSurvives` | `LedgerSound`: what was acknowledged survives, a reader misses nothing |
| `RunLedgerProofs!LedgerImplementsLog` | the file implements `AppendLog` |
| `ArtifactLineageProofs!FileStaysSound` | `FileSound`: no relation twice, a clean reconciliation is complete |
| `FullTextAcquisitionProofs!OneRecordForAll` | all puts and reads ever answered agree on one record |
| `FullTextAcquisitionProofs!RecordAfterObject` | a record that can be read has its object |
| `FullTextAcquisitionProofs!OneMediaType` | no two successful puts differ about the media type |
| `FullTextAcquisitionProofs!NothingReplaced` | no step changes or removes a published file |
| `FullTextAcquisitionProofs!CacheIsSound` | `CacheSound`: a manifest describes the body beside it, all answers agree |
| `FullTextAcquisitionProofs!OutcomeFinal` | no step asks again, or completes what was left partial |
| `FullTextAcquisitionProofs!AcquisitionKeepsStore` | the composition implements `ArtifactStore` |
| `FullTextAcquisitionProofs!StoreSoundInAcquisition` | the store's promises, in the composition |
| `HostGatesProofs!SlotsAndTriesCount` | `LimitsCount`: slots add up on every path, requests stay within retries and redirects |
| `HostGatesProofs!GateKeepsDistance` | `ReservationsSpaced`: what the gate writes down keeps the interval |
| `RemoteComputeProofs!OneDispatch` | `DispatchedOnce` |
| `RemoteComputeProofs!JobIsSound` | `JobSound`: what says it succeeded can be collected |
| `RemoteComputeProofs!OneAnswer` | `CallersAgree` |
| `RemoteComputeProofs!ComputeImplementsJob` | the backend implements `ComputeJob` |
| `WebRunsProofs!WorkersKeepApart` | `WorkersSound`: no two workers drive one run |
| `WebRunsProofs!ApprovalsStayBound` | `ApprovalDecidesNamedCall` |
| `Br1Proofs!KeysGoHome` | `KeyGoesHome` |
| `Br1Proofs!RunsAreBound` | `RunsBound` |
| `Br1Proofs!DatasetsAsReviewed` | `ExportedAsReviewed` |
| `Br1Proofs!DatasetsAgree` | `RowsAgree` |
| `Br1Proofs!LimitsFit` | `TimeLimitLeavesNothingRunning` |
| `Br1Proofs!EveryRecordCounted` | `CleaningAccounts`: every record of any upload is kept or counted once |
| `Br1Proofs!ListIsExact` | `ListExact`: as many distinct molecules as asked for, and the best of them |

In each module the invariant comes first, as a conjunction of named parts; then a
lemma per kind of step; the theorem at the end combines them. None of the
properties is inductive: each speaks of the end of a call, and what makes it true
was read or written several steps earlier. The invariants say what a thread at
each place of the code still knows, and the argument is always why nobody else can
make that untrue.

**AgentLoop.** Three invariants need nothing of the other drivers. `TypeOK` is
inductive. `FlowInv` says what the proposal and the call in hand saw: the visible
artifacts of an earlier ledger, which remain visible since ledger, store and
lineage only grow. `LimitsInv` counts: the decisions in the ledger plus the
drivers that passed the check and have not yet appended exceed the limit by no
more than the number of further drivers; alone, a driver keeps the limit exactly.

What a driver read of the *status* is outdated by the first append of another, so
the rest assumes one driver. `ExecutionInv` has (a) that executions are among the
started calls, decisions among the required ones, rejected and started calls are
disjoint, and (b) `CallInHand`: at each place of `run()` what the last read
established of the call in hand. `AloneInv` adds `Books` (everything happens to a
call once and in its order, and at most one call is open) and `AloneAt` (at each
place, what the status is, whether the call in hand is the open one, and which
successes are projected). From it follow the readable ledger, the order of
lineage and decisions, and the simulation: each step of the loop is one of
`RunLifecycle`'s, or leaves status and executions alone. TLC checks `AloneInv` on
the instance of `agentloop_alone`.

One driver is what the code relies on and enforces in part. `WorkersKeepApart`
proves the part: background workers of workflow runs never share a run. A run's
starting request, CLI processes and other request threads are not excluded, and
section 6 shows what they then do (`OneStartPerCall`).

**Br1Workflow.** Each action's effect is summarized once (`Moved`: which driver
moved, what it appended, where it now is), and the invariants are kept by the
summary. `RunTyped` says what a driver holds at its place. `IntentInv`: whoever is
inside the provider will freeze the confirmed plan's intent where there is one,
and chooses for the frozen one; the append that finds an intent frozen takes that
one. `ChainInv`: the inputs of every call have the shape the provider's reads give
them, and every success had at its execution what its service demands of them;
both are about events that stay, so they remain true of a longer ledger, and the
chain of a Top-N is found by going back from it. `AbortInv` counts: the calls
decided on after an abort and the drivers that may still decide on an older view
are together fewer than the drivers, since the one that recorded the abort has a
new view. The reads one after the other are a recursive function; it is
unrolled by exhibiting a solution of its equation.

**RunLedger.** An appender between lock and unlock holds the lock, so the last
digest it read is the file's last and its id is still new; a torn tail is
never followed by a line, since the next holder refuses it. A reader has a prefix
of the lines, and complete lines are only ever taken away by a power loss, which
leaves the durable prefix and no reader. The simulation maps a line that is complete
to an appended event, also when its writer died before it could say so.

**ArtifactLineage.** Ledger and file only grow. Of the snapshot's events, those a
driver has gone past are in the file, and of the event in hand all but what it
still holds; a relation is added under the lock, after a second look.

**ArtifactStore, AcquisitionCache, FullTextAcquisition.** Files only appear.
`StoreInv` and `CacheInv` relate each caller's place to the files it has seen: past
the link of an object or body it is there for ever, and what is held of a record
or manifest is the published one. No caller's step can undo that. A step of the
composition is a step of the cache or none, and a step of the store or none;
that the type a fetcher saw belongs to the body it hands on comes from `CacheInv`.
Hence one content in the model of the store is no restriction there.

**HostGates.** The free slots of a provider and the threads at a place that holds
one of them are together its limit; a step moves at most one thread over that
border, so the number of holders changes by one when the counter does. `Quota` is
how many requests a thread's retries and redirects so far allow, and a thread has
made no more. A gate's next time is at least its last one and an interval later,
also when a slower provider widens the interval; of the providers' intervals one is
the greatest, since they are finitely many, and times further back are not told apart.

**RemoteCompute.** The handle in the state file names its submitter, so exactly
one caller works on a job. `Tells` says what the file's state vouches for (a job
that succeeded has its outputs and its manifest in the store), `Knows` what the
worker has done up to its place. A write that raises may have happened: the worker then
records a failure over a success it cannot see, and `Knows` keeps both
possibilities.

**WebRuns.** Only the last future of a run can be unfinished, a future waits in
the queue at most once, and what a worker holds is running. Two workers on one
run would be two unfinished futures. An approval is bound to the call that the
thread inside `RuntimeService` read with it.

**Br1Plans.** The files may be overwritten between any two looks, so nothing is
said of the profiles but their types. `Carries` says what each request took along:
with `compile_intent` the model that is asked is the one bound, and the plan it
made says so. For the keys there is `KeysInv`. What `set_secret` binds a key to is
among the profiles noted with it (`Brings`), because every save is noted with the
keys that are still to be looked for; from then on key, reference and profile
travel together, in the file, in the copies other requests read and write back
(`AtHome`), and what is noted with a key only grows (`Kept`). `resolve_secret`
sends what lies there to the profile it is bound to and to no other.

**EvidenceReview, Br1Science.** Artifacts are never taken back, so what a tool
checked of its inputs holds for ever: `Provenance` states it per kind of artifact,
and a dataset's claims are found by following it to the document. For the two time
limits, `Clocks` relates what the host has waited to the age of the command.

Cleaning a file and reading a batch of the generator are folds over sequences of
any length. A fold of the community modules is a recursive function over sets of
indices: `CleaningFold` and `PickingFold` show that its equation has a solution,
built index by index, and that its values at 0, 1, 2, ... are each made from the
one before. Induction is then a statement about a set of numbers (`UpTo`: there is
no least number outside it), which the provers can instantiate where they cannot
the library's schemes. `CountsUpTo` is what is true after k records: the rows are
the first usable ones so far at their places, duplicates and unusable records are
counted. `ListInv` says what is known at each stage of the molecules that are
picked, listed, scored and ranked; `WaitsInStage`, that the host waits only in a
remote stage.

Every invariant, action property and refinement the passing runs check is proved. Left to TLC:

* Liveness and everything about ENABLED are outside what the prover treats:
  `RunReturns`, `CallsReturn`, `EventuallyProjected`, `FuturesSettle`, `WaitsEnd`.
  The theorems are therefore about the specifications' safety parts.
* That the refusals of section 6 are the only ones: a theorem says what holds, not
  what can happen.

## 5. What the models assume

* Digests are injective; nobody but the program writes under the state root.
* `AgentLoop` and `ArtifactLineage` take an append and a read as one step each.
  `RunLedger` takes them apart and shows appends atomic (`ImplementsLog`). Reads
  are atomic when they answer; a read beside a write may raise instead, in
  which case `run()` ends as by a crash.
* The values that stand for no event (`None`) and for a line that is not an event
  (`Garbage`) are no events (`NoEventAssumption`).
* The value that stands for a gate that was not made yet is no gate (`NoneIsNoGate`);
  threads and providers are finitely many (`GatesAssumption`).
* The upload of a BR1 run is a dataset: what a later stage makes is refused as one by
  `DatasetGate.inspect` (`RawAssumption`). Uploads and batches are finite sequences
  (`ScienceAssumption`). Python's `sorted` is taken by its contract: the same
  elements, in order.
* fsync of a file makes its directory entry last (ledger). `ArtifactStore` and
  `RemoteCompute` model process death, not power loss.
* Field validation of events, records and tasks is left out: the values the
  models enumerate are valid, except where refusal is the point (a repeated
  output id, a forbidden tool, an invisible input, a repeated event id).
* The provider, executors, the network and the operator may do anything their
  types allow.
* A runtime profile's decision provider either has `compile_intent` or has not, for
  good. That a run names the model that read its goal is claimed of those that have;
  the shipped `br1_profile` is one (its provider is a `Br1WorkflowProvider`).
  `app.py:800-811` is there for others, and `EveryRunBound` (section 6) shows what
  is then missing.
* `TimeLimitLeavesNothingRunning` takes `ConnectTimeout` and the margin for the
  bound on how late a remote command starts, as `_subprocess_timeout_sec` does.
* A profile, and a plan's text, stand for their digests, which cover all they
  say; what an artifact is made of stands for its digest.
* `Br1Workflow` may take the loop's handlers whole because `AgentLoop` has
  checked them apart; a lost approval (section 6) is therefore not in it.
* Numbers in evidence are thousandths of a fraction, times in `Br1Science` ticks
  of one clock; the uploads of a stage are one step, since nothing reads them
  before the command starts.

## 6. Where code and documents disagree

One disagreement is a run that TLC refutes:

* **Approval lost** (`agentloop_approval_lost`). `TOOL_CALL_MATERIALIZED` and
  `APPROVAL_REQUIRED` are two appends. After a crash between them the resumed
  run finds a pending call with no requirement and executes it unapproved.

The following were met the same way. Each is stated in its module under
"Expected to fail" (or "Documented behaviour the code does not have"); naming it
as an invariant, or as a property when it is an action formula, in the cfg given
instead of the run's own properties makes TLC print the trace.

| Property | With | What TLC shows |
|---|---|---|
| `OneStartPerCall` (`AgentLoop`) | `agentloop_two` | two drivers project the same pending call and both start it: the tool runs twice and `_project` refuses the run from then on |
| `NoDecisionAfterRejection` (`AgentLoop`) | `agentloop_alone` | a crash before `RUN_REJECTED`, the last of a rejection's three appends, lets the run go on |
| `OnlyDeathInterrupts` (`AgentLoop`) | `agentloop_alone` | two drafts of identical bytes make the success append raise outside the `try`: interrupted for good |
| `HealthyReadAnswers` (`RunLedger`) | `ledger_stops` | a reader meets a line that is being written and raises `LedgerCorruptionError` |
| `RepeatedProjectionAgrees` (`ArtifactLineage`) | `lineage_drivers` | two drivers project the same success; the later one fails on a "duplicate" |
| `OtherRunsDoNotMatter` (`ArtifactLineage`) | `lineage_drivers` | a relation of another run, appended after the hydration, fails this run's projection |
| `SchemasAgree` (`ArtifactStore`) | `acquisition`, with two schemas | a first put without a schema lets later puts assert different ones |
| `IdenticalFillsSucceed` (`AcquisitionCache`) | `acquisition`, as `Cache!IdenticalFillsSucceed` in a definition of the MC module, with one body and no deaths | identical concurrent fills raise, `retrieved_at` is compared |
| `PublishedAsCached` (`FullTextAcquisition`) | `acquisition` | a fetcher that lost the link to the manifest publishes the content type it saw itself; all later hits of the cache are then refused by the store |
| `RepeatReturnsHandle` (`RemoteCompute`) | `compute_job` | the second read of the state file meets the owner's rename: a sound job is refused |
| `TransientNotShown` (`WebRuns`) | `web_runs` | a reply shows INTERRUPTED with no work pending although a worker finished the call |
| `RequestsSpaced` (`HostGates`) | `gates_pair` | the clock read before the lock lets two requests leave too close |
| `TokenStartsOneRun` (`Br1Plans`) | `br1_plans` | a token is looked up and taken away in two critical sections: two requests start a run each |
| `SavedProfilesStay` (`Br1Plans`) | `br1_plans`, without symmetry | two requests read the profiles, each writes the whole file: one profile is gone |
| `KeysStayAway` (`Br1Plans`) | `br1_plans`, without symmetry, 5 edits and no plans | a key is removed while another request holds the file it read: its write brings the key back |
| `KeyGoesWhereSent` (`Br1Plans`) | `br1_plans` | a profile is saved between the arrival of a key and `set_secret`'s look: the key is bound to the new profile and sent there |
| `EveryRunBound` (`Br1Plans`) | `br1_plans` | a runtime profile without `compile_intent`: the profile is saved anew after the credential check, and the goal is read by another model than the run names (`app.py:800-811`) |
| `UnitsSupported` (`EvidenceReview`) | `br1_science` | a record that calls itself NORMALIZED is exported with any unit ("unsupported [...] values remain unresolved", `reports/CORE-05.md:82`) |
| `BundleIsTheRequest` (`EvidenceReview`) | `br1_science`, both documents of one source | a mapping made from another bundle of the same source is validated, reviewed and exported under this one |

Reading the code for the models showed more that no property is about:

* One candidate longer than a packet may be makes its whole bundle unmappable
  (a candidate may have 16,384 characters, a packet 12,000).
* A later REJECTED review does not revoke an earlier APPROVED one.
* A PLQY outside the range raises and refuses the whole answer, instead of leaving
  that value unresolved (`reports/CORE-05.md:82`).
* The preparation report's formula is that of the last record alone, and the
  first alias of a column that exists is taken even where it is empty.
* A reviewed dataset never passes the BR1 preflight: its one property, PLQY, is
  neither of the two targets (the repository's `README.md:69` and `reports/CORE-06A.md:13` have
  reviewed datasets as input). `Br1Science` keeps the way, and it ends there.
* A lost ssh connection leaves the command running until its own limit.
* The observer is blamed for any event another driver appends during an export
  (`observability/service.py:55`).

## 7. What is not modelled

Inspection and observability (`core/inspection.py`, `observability/`): read-only
displays of what `AgentLoop` projects for control. Their one use that others act
on, the status after a join, is in `WebRuns`; the observer's comparison of two
digests is only too strict. Formats, wording and value types (`core/ids.py`,
`core/validation.py`, the parsers of `documents/`, the exporters), the addresses
and adapters of `acquisition/`, the chemistry of BR1, host keys and paths, file
modes, upload names, prototypes and scripts: they keep no state between calls.
What the models need of a document is a constant of `EvidenceReview`. The CLI is
one more driver of `AgentLoop`. `PROJECT.json` lists each as a component with
its reason.

## 8. The plan

Order: the loop every other component serves came first, then the three stores
it writes, then the services that hold state of their own, then the projections
and workflows above them, then the pipelines that feed them.

Done: `AgentLoop`, `RunLedger`, `ArtifactLineage`, `ArtifactStore`,
`AcquisitionCache`, `RemoteCompute`, `HostGates`, `WebRuns`, then `Br1Plans`,
`Br1Workflow`, `EvidenceReview`, `Br1Science` and the composition
`FullTextAcquisition`. Proofs about all of them: no safety property is left to the
small instances.

Models still possible: the parser router and its fallback
(`documents/router.py`), ranking and merging of sources
(`acquisition/service.py`), and the uploads with their file-name sidecar.
