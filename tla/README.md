# RatsNest: a TLA+ verification project

The repository is a hardware-design assistant. A Java control plane accepts runs and hands
them to Python runtime instances, which execute a language-model agent graph; the graph
dispatches a durable workflow, which runs an EDA pipeline step by step over a project directory
and comes back with a board; the same platform evaluates patches to its own harness. This project models the
parts that carry that logic, model-checks them on small instances and proves what matters most
of them for every instance.

Everything lies in this directory. Parse with `tlasany M.tla`, model-check with
`tlc -workers 2 -config X.cfg M`, check proofs with `tlapm M.tla`. `PROJECT.json` lists the
components, the runs, the source lines every definition stands for, the seeded faults that show
each property can fail, the hazards with the properties about them, and the theorems.

## 1. The system: inventory

| Component | State | Operations | Hard behaviour | Correct when |
|---|---|---|---|---|
| Distributed run registry, `src/src/service/redis_run_registry.py` | per run a hash (status, owner, fencing token, lease), an event stream, a dedupe hash; sorted sets `active` and `running`; status counters; one asyncio task per execution | `start`, `append_event`, `pause_for_input`, `resume`, `cancel`, `mark_stream_failed`, `_transition`, lease loop, cancellation watch, `shutdown`, each a Lua script or a sequence of them | leases that expire under a live owner, takeovers, lost replies, crashes, cancellations at every await | one execution writes, nothing rewrites a finished run, indexes and counters follow the hash, every accepted run settles |
| Event subscription, `subscribe` in the same file | a cursor per client | replay, follow, skip or hold a `[DONE]`, report a gap, reconnect | buffer trimmed while reading, DONE of a superseded execution, a state older than the delivery it decides | a client that saw `[DONE]` missed nothing and nothing follows; the loop ends |
| Audit relay, `kafka_relay.py`, `kafka_audit.py` | Redis consumer group, Kafka topic, a batch in hand | reclaim, read, publish, acknowledge-and-delete, shutdown | crash between Kafka and Redis, entries reclaimed in flight, malformed entries | at-least-once: nothing lost, nothing stranded, everything drains |
| Thread coordination, `run_coordination.py` | slots with a user count per process, a PostgreSQL advisory lock | `serialize_thread_run` | cancellation at every await, crash, lost session | one body per (agent, user, thread); no lock left behind |
| HTTP service, `service.py` | none of its own | `invoke`, `stream`, `resume_interaction`, `cancel_run`, the producers | its generator's `finally` yields DONE during a cancellation | what the registry needs of a producer |
| Agent graph, `ratsnestpro_agent.py` | the checkpoint of a thread | phases with edges, the interrupt that asks the user, dispatch, wait, review, report | a crash between a phase's effects and its commit, an answer the registry accepted and the graph has not, a workflow that outlives its wait, amendments | what is published is what the user asked for, and the board that was reviewed as long as nothing else writes the directory |
| Release gate, `release_invariants` and the publication in the agent | manifest, receipt, verdict | extraction, audit, validation, review | files that change between two reads of the review, and between a hash and its copy | no release that misses a constraint |
| Hardware workflow, `src/src/agents/ratsnestpro/temporal/` | Temporal workflow state, child processes | pause, resume and cancel signals, activities with retries, compensation, final read | signals at every await, orphaned children, several workflows of one directory, a checkpoint read before the lock | a cancelled workflow is compensated and never reported completed; a completed one is whole |
| PCB pipeline, `orchestration/pipeline.py`, `tools.py` | `pipeline_state.json` | steps, checks, repair, recovery turns, replans, restoration, resume token | a process that dies at any save, budgets over restarts | every saved artifact was checked against what it is saved with; every loop is bounded |
| Connection synthesis, `connection_synthesis.py` and its step | an in-flight checkpoint | batches, merge, normalizers, checks, scoped repair | refused answers, failed saves, crashes, restarts that normalize again | additive: no accepted pin moves, none is lost |
| Board routing and manufacture, same file | board, baseline, session, report and receipt files | layout, routing portfolio, gap closer, relocation, drill and silk repairs, release | edits in place that fail half way | the result in memory is that of the files; a released board is whole |
| Evolution trials, Java `controlplane/evolution`, Python `evolution/temporal` | candidate and trial rows, workflow, Job or worktree | request, start, attest, materialize, evaluate, clean up, deliver, collect | lost and repeated deliveries, leaked objects, retried activities, a row that the collector moves meanwhile | approval rests on recorded evidence of a clean pass; one proof per trial |
| In-memory registry, durable event stream, control plane's runs, outbox and releases | | | | not modelled, see section 8 |

**Interaction.** An HTTP handler calls `start()`; a Lua script creates the run or takes it
over, and an `_execute` task is started on that process. The task waits for a running slot,
enters the thread lock, and drives the agent graph; each event it yields becomes one or
two scripts. Clients read the Redis stream from any process. Every lifecycle script also adds
an entry to the audit outbox, which the relay moves to Kafka. The graph's hardware phase dispatches a
Temporal workflow by request id and waits for it; each activity of the workflow is a child process that
takes the directory's file lock and runs the pipeline up to one step. Processes share nothing but
Redis, PostgreSQL, Kafka, Temporal and the project directories.

## 2. Modules

| Module | Stands for |
|---|---|
| `RedisRunRegistry` | the registry, its tasks, the producer, time and process failures; one action per script or await |
| `RunLifecycle` | what a caller may assume of a run's status and token: the abstract specification |
| `RunSubscriber` | `subscribe` and a reconnecting client; extends and runs together with the registry |
| `KafkaAuditRelay` | the audit relay |
| `ThreadRunLock` | `serialize_thread_run` for one key |
| `HardwareWorkflow` | the workflow, its activities, child processes and its client, over one directory |
| `EvolutionTrial` | one candidate from submission to its decision, with the workflow and sandbox of each trial |
| `ReleaseGate` | requirement invariants, audit, manifest, review and publication as operators over records |
| `AgentGraph` | one conversation thread over its checkpoint, built from `ReleaseGate` |
| `PcbPipeline` | one run directory under the pipeline's loop |
| `Netlist`, `NetlistChecks` | pin resolution, normalizers, patches and checks as operators |
| `ConnectionSynthesis` | the connection step over `NetlistChecks` |
| `BoardRouting` | layout, routing and manufacture over the board's files |
| `MC*` | instances for TLC: definitions too large for a `.cfg`, and the symmetry set |
| `RegistryProofs` | theorems about the registry and its subscriber |
| `KafkaAuditRelayProofs`, `ThreadRunLockProofs`, `HardwareWorkflowProofs`, `PcbPipelineProofs`, `EvolutionTrialProofs`, `AgentGraphProofs`, `BoardRoutingProofs` | theorems about the module of the name |

### The run registry and its neighbours

A Lua script is atomic, so it is one step of `RedisRunRegistry`; every `await` between two scripts is an
interleaving point, so a task is a program counter (`slot`, `lock`, `produce`, `mark`,
`append`, `tail`, `refresh`, `finish`, `commit`, and `handler`, `h_error`, `h_done`,
`h_commit` for the except clauses). A task belongs to a *claim* `<<request, n>>`: the creation
of the run is claim 1, and each takeover or resume makes the next one with the token the
script hands out.

* *Time.* A lease is live or expired. The hash and both sorted sets carry the same deadline,
  so `LeaseExpires(r)` lets all three pass it in one step. With the fault `expiry` that may
  happen under a live owner (a stalled process); without it, processes are timely.
* *Failures* are chosen by the constant `Faults`: `crash` and `shutdown` of a process,
  `redis` (a call that fails, or whose script ran and whose reply is lost), `expiry`,
  `cancel` (a user), `timeout` (`asyncio.timeout` around the producer), `error` (the producer).
* *The producer* is nondeterministic: it yields data, keyed AHE events, a clarification
  request, an error or DONE. An event above the size limit is replaced by an error event: the stream counts as
  failed, and the key of the event it replaces is spent. The `finally` of the agent's generator, which yields DONE while a
  cancellation or a timeout passes through it, is modelled (`Unwinding`).
* *Cancellation of a task* (`Interrupted`) comes from a refused or failed renewal, the
  cancellation watch, or `shutdown()`; it enters the handler, or ends a task already in it.
  `_tasks` has one task per request, so `Shutdown` may miss one that was replaced.
* *Data* is abstracted: an event is its type, token, key and whether it is too large; payloads, error texts, time
  stamps, `run_id`, `state_version` and audit entries are left out.

`RunLifecycle` has `Accept`, `Begin`, `Supersede`, `Suspend`, `Decide` and `Abort` over status and token;
the registry implements it under `status <- run[r].status`, `fence <- run[r].fence` (`LifecycleSpec`).

`RunSubscriber`: entry ids are positions in `events`; the trimmed stream is the last `BufferSize` of them. Each
read (`Open`, `CheckGap`, `CheckEnd`, `Read`, and `Look`, the state read after `XREAD`) and each delivery is a
step of its own, interleaved with every step of the registry. So a batch is delivered against a state that may
be older than the delivery. A connection lost in the middle of a batch is the same as a shorter `XREAD` reply
or a `Reconnect` between two deliveries.

`KafkaAuditRelay`: `XREADGROUP`, `XAUTOCLAIM`, the `XACK`/`XDEL` script and `send_and_wait` are one step each,
with a version whose effect took place and whose answer is lost. Redis and Kafka are external. The
topic is one sequence: the request id is the Kafka key, so one run lies in one partition.

`ThreadRunLock`: `_slots_guard` is never held over an await, so what it guards is one step. Slots are numbered
because a slot made after the previous one was dropped is a different `asyncio.Lock`. `Fragile` are the calls
whose database session may be lost.

### The hardware path

`HardwareWorkflow`: all workflows of a model share one run directory, a first run and its resumes.
Temporal is external: it delivers signals, retries activities and closes executions; replay is deterministic, so a
worker's crash shows only in the activity it ran, whose child process may survive it (`orphan`). A dispatch reads the
checkpoint, without a lock, to choose the step it resumes at. A child waits for the directory's `flock`; under it, it
loads (`KidLocks`), restores (`KidRestores`), commits (`KidCommits`) and reports what it reached (`KidFinishes`), one step
each. Only afterwards does the workflow read that report (`KidExits`), and between the two the other request's
children may take the directory. The checkpoint is the committed results, the first blocked
one, the step the result file asks for and the one resume token it remembers: a child applies the token of its
request, and with it the truncation, only if the checkpoint does not hold it already.

`PcbPipeline`: `disk` is `pipeline_state.json`, `mem` the state of the process that holds the directory's lock.
An artifact is its fingerprint; a failure is its kind. What a producer proposes and what a check finds are
inputs. A restore that meets an unfinished synthesis stops there without any drift (`Draft`). Which steps a behaviour of one kind concerns (owners, merges, swaps, repairs) are constants, so that four
steps stand for the seventeen.

`ConnectionSynthesis` with `Netlist` and `NetlistChecks`: a part is its role's tags and its symbol's pins; the model's
answers come from a set that holds whole, partial, conflicting and garbled ones. The normalizers are
operators, applied in the code's order; checks keep what they found, and the words a failure text would
show (`Says`) widen the repair's scope as the code's patterns do. Nets and no-connects are sets except where their order is
observable: the forced no-connects of a microSD socket are appended in the order of a set of strings, so a restart may find
another order (`Reordered`), the fingerprint of the ordered JSON differs, and the step is dropped and checked again.

`BoardRouting`: a board is what the checks can tell of it (placement, layers, nets, open connections, the number of errors of each kind,
planes, widths, silkscreen). Each repair compares findings its own way: the plane worker counts them, the gap closer and the
silkscreen repair look at the set of messages. The router's own count of open connections is an input beside that of DRC,
until `Sync` replaces it. What routers and repairs do to it is an input; each worker may fail or be killed.

`ReleaseGate` and `AgentGraph`: a requirement is the request it began with, the requests appended to it, and the
constraints its text and its decisions state; the record is its digest. A phase reads the checkpoint, has its effects, and
commits; a crash may fall between. An answer is first accepted by the registry (`Reply`) and later taken by
`intake_phase` (`IntakeTakes`); a crash between the two loses it. The review reads the receipt and then the board
(`ReviewReads`, `ReviewChecks`), the report hashes the files and then copies them (`ReportHashes`, `ReportCopies`), without looking
at what was reviewed; a workflow of the directory may write between any two. What a language model writes or routes is a
choice.

### Evolution trials

`EvolutionTrial`: the candidate's row, one trial per idempotency key with its workflow, attempts, Job or worktree, proof
and delivery. Calls to Kubernetes, git and the control plane may fail with or without their effect; a start request may
be lost or come twice. Patches are records of what policy and sandbox look at.

## 3. Runs

Bounds are constants of the modules, named for what they bound; each run keeps the smallest values
at which its interesting cases still happen, and every property has a seeded fault in `PROJECT.json` that TLC
finds under exactly these bounds.

| Run | Checks | What it shows, and its bounds |
|---|---|---|
| `registry_safety` | `TypeOK`, `IndexAgreement`, `FencesOrdered`, `AheEventOnce`, `TerminalStreamHasDone`, `TerminalIsFinal`, `StaleTaskFenced` | failed calls and lost replies at every await, late heartbeats, takeovers and cancellations: an execution that was fenced off cannot write. One run, two processes, two claims, two events of a producer |
| `registry_processes` | `RunningWithinLimit`, `Settles` | a stream and an invocation share one slot while either process dies or shuts down. Two runs, two claims |
| `registry_interaction` | `CountersAgree`, `WaitingIsHeld`, `LifecycleSpec` | human pauses, duplicate answers, crashes while waiting, an oversized event, a second question: the registry implements `RunLifecycle`. Four claims, because a run that pauses twice is taken over as well |
| `subscriber` | `DoneIsFinal`, `DeliveredInOrder`, `SubscriptionEnds` | a buffer of two entries, so that trimming races the reads, a crash and a takeover between read and delivery, one reconnect |
| `relay` | `NoAuditLoss`, `NothingStranded`, `Drains` | two relays that reclaim each other's entries, a failed call, shutdowns and crashes. Two entries and batches of one, so that a malformed entry fills a batch and the claim cursor has to get past it |
| `thread_lock` | `MutualExclusion`, `SlotsAgree`, `TurnComes` | three calls in two processes, one of which may lose its database session |
| `pipeline` | `SavedState`, `CheckedOnWhatIsSaved`, `NeverRefused`, `BudgetsKept` | four steps, in both modes: one that the model proposes and that rewrites an earlier artifact, one with a deterministic repair owned by an earlier step; two processes, one fault, every budget 1 |
| `workflow` | `CancelWins`, `CompletedIsWhole`, `Accounted` | two requests of one directory, the second of which resumes, two steps, two attempts; two events of the kinds that need a bound (a lost worker, a pause, a cancel, a deadline, an abandoned run, a drift of inputs) |
| `agent_graph` | `ReviewOfThisHardware`, `ReleaseIsWhole`, `Conversation` | two requests, two boards of which one misses an answered constraint, two answers, one crash, which may fall between an accepted answer and its intake, between the reads of a review, or between hash and copy |
| `board` | `FilesAgree`, `ReleasedBoard`, `RepairsMonotone` | a requirement that fixes the layers, one that prefers some and wants wide tracks, one that asks nothing; one kind of finding, counted up to two, one fault |
| `evolution` | `CandidateFollowsTrial`, `OneProof`, `PassedIsClean` | two keys, four deployments, four patches (permitted, stale, touching sealed tests, naming a reserved file), two attempts, three faults; the collector and administrators move the row at any time |
| `connections` | `CheckpointSound`, `NetlistKept`, `OnlyMeantChanges` | one board in three batches, and one board for each family of normalizers with every assignment of its critical pins; one restart, crash or failed save |

Some properties are conjunctions of named parts: `DeliveredInOrder` of `SentInOrder` and `NothingPassedOver`;
`SlotsAgree` of `TypeOK`, `ProcessExclusion` and `OneSlot`; `SavedState` of `TypeOK`, `SavedPrefix` and
`ExecutionFailureIsLast`; `BudgetsKept` of `Ledgers`, `BudgetsHold` and `ReplansPerBaseline`; `Accounted` of `TypeOK`,
`Compensated` and `ChildrenAreAwaited`; `Conversation` of `TypeOK`, `FreshInteraction`, `OwnAnswer` and `AnswersReachHardware`;
`FilesAgree` of `TypeOK`, `ResultOfBoard`, `PlacementOfBoard` and `ExplicitLayers`; `CandidateFollowsTrial` of `TypeOK`,
`PendingIsEvaluating`, `DecidedByEvidence` and `OnlyPermittedRuns`; `CheckpointSound` of `TypeOK`, `OneDisposition` and
`CallsBounded`; `NetlistKept` of `WholeWhenComplete`, `NothingForgotten` and `AcceptedIsStable`; `OnlyMeantChanges`
of `Additive` and `OutOfScopeKept`.

Deadlock checking is off: runs end, producers stop, bounds are reached. Symmetry (processes are interchangeable, the
scripts only compare owner ids) is used only in runs without liveness properties.

## 4. Fairness

Only the runs with a liveness property assume any.

* Registry (`Settles`): weak fairness of each task's own progress (the event loop runs ready tasks, and a
  process that is up answers), of `LeaseExpires` (time passes) and of a takeover (a client, or the
  control plane's reconciliation, calls `start()` again for a run it has not seen settle). Faults,
  heartbeats, timeouts and cancellations are not fair: none is needed to make progress.
  `Settles` is conditional on one process staying up. `MaxClaims` is large enough that this process has
  a claim left after the other process is gone.
* Subscriber (`SubscriptionEnds`): weak fairness of its loop, and strong fairness of a non-empty read, because
  `XREAD` returns at once when entries are there while the model lets a poll come back idle.
* Relay (`Drains`): weak fairness of a relay's own steps, strong fairness of the reclaim (it comes due every
  `claim_interval_seconds`, although a round may skip it), weak fairness of idle time. `Drains` is
  conditional on one relay staying up, and holds even when its entries are reclaimed in flight (`Slow`).
* Thread lock (`TurnComes`): strong fairness of both acquisitions, since `asyncio.Lock` and PostgreSQL queue their
  waiters, and weak fairness of connecting, of leaving the body (it runs under `asyncio.timeout`) and
  of the release.

## 5. Proofs

The theorems hold for every set of requests, processes, relays, callers, workflows, keys and patches and for every
bound. Their assumptions are those of the modules (bounds are naturals, finite sets, `None` is not a process, record
or interaction); TLC evaluates them in the runs.

**Registry types and indexes** (`RegistryProofs`, first part). *TypeCorrect* rests on `TypeInv`, which adds that a task in a
handler, or about to commit, has a terminal status to commit; without it `Transition` could store a status that is
none. *IndexCorrect* follows from `TypeInv` alone: every script that moves the status moves the run in both sorted
sets too. The `Scope` lemmas, which say what of a run each group of steps may touch, carry everything after them.

**Registry streams** (`RegistryProofs`, second part). *FencesCorrect*, *TerminalDone*, *TerminalFinal*, *StaleFenced*,
*AheOnce*. `TokensIssued`: claims are numbered by the tokens handed out, no task has a newer
token than its run, and the event a task is about to append carries its own token. `DoneBacked`: every
note that DONE was written (the hash's flag, the dedupe key, a task's own flag, the point before a
commit) is backed by a DONE of the current token in the stream. `TerminalStreamHasDone` is not inductive
without it: a commit relies on what its task believes, and after a takeover that belief must not outlive
the token. `NextLogged` says how any step may change a stream; `AheOnce` needs besides that the key of every AHE event in
a stream is in the dedupe hash, which forgets nothing.

**Registry lifecycle** (`RegistryProofs`, third part). *CountersCorrect*: each step moves at most one run between
statuses, and one counter down and one up with it. *OneWriter*, *SlotsLimited*, *WaitingHeld* and *LifecycleRefined*
(the refinement of `RunLifecycle`) are about timely processes, `"expiry" \notin Faults`: their statements carry that
hypothesis, because they are false without it (section 7). `TimelyInv`: at most one task per request has the run's
owner and token (`OneInCharge`), a run whose owner is up holds its lease (`AttendedHeld`), and a task's position fits
the status of the run it is in charge of (`TaskStages`). A free slot is looked for and taken in one script, so only that
script can add a live entry (`SlotStep`).

**Subscriber** (`RegistryProofs`, last part). *DoneFinal*, *DeliveredOnce*. The registry gives three facts: streams only grow,
a terminal run never changes again (`TerminalKept`), and its step is a step of the composition (`Embedded`). `SubInv`: the cursor is
not ahead of the stream nor the client ahead of the cursor; a batch in hand begins behind the cursor and skips only
trimmed entries; a run that was seen over is still what it was when it was seen (`SeenHolds`). The last is why a decision made
on an old state is safe for DONE: `_done_delivery_action` delivers only against a terminal state, and that is the
one kind of state that cannot have changed since. `SentInOrder` is part of the invariant because a reconnect resumes after the
last id sent, which is the greatest only because of that order.

**Audit relay** (`KafkaAuditRelayProofs`). *AuditLossFree*, *NoneStranded*: `RelayInv` adds `InHand` (what a relay holds
was delivered to the group, and what it is about to acknowledge is in Kafka).

**Thread lock** (`ThreadRunLockProofs`). *Exclusive*, from `InsideHolds` (a call in its body whose session lasts holds the
advisory lock), and *SlotsCorrect*: `SlotInv` says that a call under way has a slot of its own process, that a process
has one slot whose user count is the number of those calls, and that a call past the local lock is its slot's
holder. It is what keeps calls of one process apart when a database session is lost.

**Hardware workflow** (`HardwareWorkflowProofs`). *CancelDecides*, *WorkflowAccounted* and *CompletedStaysWhole*. The first
two need a local invariant: `Good` says of one execution what each of its phases promises (running, unwinding, reading,
over), and `Awaited` that a child which is no orphan is the one its execution's current attempt waits for. The third is about the
directory, which every child of every request may write. An execution that is *alone* since its dispatch (no other
request's resume was applied, no restore dropped results) cuts the checkpoint at most once, and when it ends as completed,
the checkpoint is whole. `Tokens` says why a second child, a retry's or an orphan's, cuts nothing more: the token in the
checkpoint is that of the execution. `Applied` says that no step after the one it resumed at is started before the resume was
applied, and `Whole` that what a last step reported is still there when the summary is read, and after it. Without
*alone* all three are false: section 7 says how.

**PCB pipeline** (`PcbPipelineProofs`). *SavedStateCorrect*, *CheckedCorrect*, *NeverRefusedCorrect* and *BudgetsCorrect*, for any steps,
owners, rewrites, budgets, learned scores and faults. None of the first three is inductive: what is saved depends on what the process held.
`PipelineInv` gives the state in hand a form for each place of the process: `Ready` (every result passed, a candidate at most
for the next step), `Working` (the candidate taken), `Judged` (one result more, which may have blocked) and `Saved` (what may be
written, which both `Ready` and a `Judged` state that is given up are). `Sound(m, n)` is what the forms share, and its
parts need each other: a rewrite of upstream artifacts (`RewriteSound`) keeps them checked only because no
earlier result lacks its artifact, which holds because those results did not block execution. `Regresses` is false of every state
in hand, and `Follows` says of each operator that it is newer or no shorter than what it was made from. The ledgers of
repairs, replans and turns are outside the core (`SameCore`), so these three do not depend on any budget.

*BudgetsCorrect* is about those ledgers. `LedgerInv` says that the one on disk and the one in hand are within the budgets, which is
not inductive: `remaining_task_budget` is computed once, when a repair loop begins, and the loop then spends
attempts of its own. `Room` relates the two: what the ledger holds and the attempts the loop has left (`hard - att`) are together
within the budget. A replan is counted per baseline and failure, under the limit its own learned score allowed
(`ReplansPerBaseline`). A restart, a rollback and an amendment only drop entries: `Keep(s, K)`, what a restore leaves of a
ledger, has at most as many entries of a kind as `s` (`KeptCounts` and the lemmas before it); it is defined by position rather
than with `SelectSeq` so that this can be stated without induction over the ledger.

**Evolution trials** (`EvolutionTrialProofs`). *CandidateDecided*, *ProofIsOne*, *PassLeavesNothing*. `KeyInv` is three
facts about one key: its workflow's (one proof, the stamp counts attestation attempts, a result only after
attestation, reports in order), its attempts' (each clean-up stage has dealt with what it says, the created objects
the worker was not told of included; a materialized patch was permitted), and the trial row's (calls, workflow and
deliveries only for an existing trial; the row's proof is the workflow's). Administrators and the collector move the candidate
between any two of a trial's writes; `CollectKeeps` says that what the collector writes touches nothing a trial rests on, and the
refusal on a row version keeps a completion from overwriting it. Frame lemmas (`KeyKept`, `SandboxFrame`,
`WorkflowFrame`) reduce every step to one key and one of the three. *PassLeavesNothing* is an action property: only the end
of an attempt brings a passed report, and only after its clean-up.

**Agent graph** (`AgentGraphProofs`). *ReviewCorrect*, *ConversationKept*, *ReleaseCorrect*, from `IInv`, which has two halves.
`Talk` is the conversation over the registry's runs: every run is paused on at most one interaction, and none of these has
dispatched (`Runs`); what the registry accepted and the intake has not taken belongs to the run that executes (`Held`);
a question is put under a state version beyond those of all answered ones, and one with options is settled by an answer to
it only (`AnsweredEarlier`). What the user is owed is counted over all requests (`Due`: given, less what is on its way and what was
lost), and is in the latest request, or in the requirement once `initialize` has run (`AnswersKept`). *ConversationKept* claims
nothing of answers that a crash, a refusal, an abandoned turn or a free question dropped; that such answers exist is in section 7.
`Made` is the release: a request that has dispatched has the one workflow started for its requirement, in its
workspace (`Dispatched`), which holds boards of one requirement, whichever workflow wrote last (`Files`); a review that passed is about
the attested board, and if no workflow was running when it read the receipt, none has written since (`Still`, carried through the
second read, the verdict, the hash and the copy by `Verdict` and `Stands`); and what was published stays sound although workspaces are
written again (`Released`, over the history of boards). So what was *reviewed* always satisfies the requirement, while the *bytes*
that go out are claimed to be those only in that case. The boards' features, the answers and the numbers of requests,
questions and crashes are arbitrary.

**Board** (`BoardRoutingProofs`). *FilesCorrect*, *ReleaseWhole* and the action property *RepairsSafe*, from `BoardInv`. The result and the
files agree only between repairs. Inside one the files are ahead of the result, so `InHand` says that the result fits the
board *or the backup that may come back*, `Backup` what the board of each stage of a repair still shares with its backup (nets,
copper, no kind of finding that is new, and while the plane worker holds it none counted more), and `Aside` that what a relocation put aside is a placement, its board and its result.
A retained best result may describe an older board, but then it has a finding and is not committed (`Verdict`,
`Committed`). *ReleaseWhole* needs `Product` besides: a manufacture without findings is of a clean board, unless another program
saved it. *RepairsSafe* is the `Backup` conjunct at the steps that end a repair: no repair opens connections or brings a new kind of
DRC error (`NoNewKind`), and all but the gap closer, which compares sets of messages, bring no further error of a kind that was
there (`Fewer`). The assumptions are that the
bounds are naturals, that the findings include the drill finding, and the shapes of requirements and layers.

**Only model-checked.** `Settles`, `SubscriptionEnds`, `Drains` and `TurnComes` are liveness under fairness, which the
prover does not reach; so is anything with ENABLED. `NetlistKept` is about folds of normalizers over a board: what these compute
for every input is induction over data, out of reach too. `CheckpointSound` contains the type of a batch plan, which `PlanBatches`
builds with folds, and `OnlyMeantChanges` is stated over patches of normalized netlists; neither is proved (section 9).

## 6. What the checks mean together

The registry's theorems make a run a well-behaved object: whichever processes fail, one execution's writes are
effective, its stream is ordered and ends in one DONE, and a client that reads the DONE has the stream. The relay and
the lock are what the registry's surroundings must keep. Under it, the workflow's theorems say that its end is
the one its signals and its directory justify, and those of the pipeline and of the board that what is in the
directory was checked as it stands. The theorems of the agent graph close the circle: what is published was reviewed as a board of that directory that
satisfies the requirement with the answers the graph took meanwhile, and it is that board, byte for byte, if no workflow of the
directory was still running when the review began. The code does not enforce that last condition.

## 7. Where the documentation says more than the code does

The following sentences of documents, comments and tests, and expectations a reader may have of the code (the rows whose
sentence has no place), do not hold in the models. Their properties are in the
modules and have no run of their own among those of section 3; where a configuration is named, TLC shows the violation with
`tlc -config <it> <module>`.

| Property | The sentence | The code |
|---|---|---|
| `AtMostOneWriter` (`DocOneWriter.cfg`) | at most one effective writer (technical report) | two starts of one process may read the same token when a lease expires under a live owner |
| `OnlyUsersCancel` (`DocCancelled.cfg`) | after a failed renewal a new instance takes over (`redis_run_registry.py:1483`) | the handler still owns the run and commits `cancelled` |
| `FailureIsOfThisExecution` (`DocFailure.cfg`) | an old producer cannot contaminate a new execution | `stream_failed` survives a takeover |
| `GapReported` (`DocReplayGap.cfg`) | a cursor older than the buffer gets `replay_gap` | not if the entries are trimmed between the check and a non-empty read |
| `RunOrderKept` (`DocRelayOrder.cfg`) | one run's audit events keep their order (`kafka_relay.py:163`) | a failed send is overtaken by newer entries |
| `ReplayedDispatchAttaches` (`DocAttach.cfg`) | start once, or attach when a checkpoint replays dispatch (`temporal/client.py:154`) | the request's digest holds the step to resume from; once the directory moved on, a replay has another digest and is refused |
| `AcknowledgedCancelStops` (`DocCancelAck.cfg`) | cancellation is never falsely acknowledged (`temporal/client.py:105`) | a cancel whose signal found no workflow is acknowledged, and a dispatch between the two has started one |
| `TrialEnds` (`DocTrialEnds.cfg`) | a trial reaches a result (`EvolutionTrialService.java:266`) | a start that was lost is sent again with another status in its digested input, and conflicts for ever |
| `CommittedStepsKept` | a worker retry never repeats committed steps | a restart repeats the connection step, and all after it, when its synthesis is unfinished (`pipeline.py:17508`), or when it had added parts to the selection, which changes the fingerprint of the netlist that is normalized again (`pipeline.py:17549`); results blocked for release only are kept |
| `AcceptedStepKept` (`DocRestart.cfg`) | the same sentence, of the connection step alone | the forced no-connects of a microSD socket are appended in the order of a set of strings, which differs between processes (`pipeline.py:5515`); the fingerprint of the ordered JSON then differs, and the step and all after it are repeated |
| `EveryAnswerReachesHardware` (`DocAnswers.cfg`) | an answer that was accepted reaches the requirement | a crash, or a refusal, between the registry's acceptance (`service.py:1066`) and the intake's commit loses it: the takeover replays the original message; and the answer to a free question, taken in a later request, drops the options chosen before |
| `AnswerOfItsOwn` (`DocOwnAnswer.cfg`) | an answer settles the question it was given to | a free text that was given to an earlier question settles whatever free question is open when it arrives |
| `ReleasedAsReviewed` (`DocReview.cfg`) | what is released is the board that was reviewed | publication hashes and copies what is on disk then, without the identity the review attested (`artifact_publisher.py:240`): a workflow that still runs may write between review and hash, or between hash and copy |
| `RepairsAddNoError` (`DocFindings.cfg`) | the gap closer accepts "only monotonic, DRC-safe patches" (`pipeline.py:14790`) | it compares sets of messages, so a second error with a message that is there already is accepted |
| `VerifiedBoardKept`, `ReleasedPlacement` | a rollback retains the verified board | a relocation is kept for fewer open connections, whether or not it counts as routed; a crash between its files and its commit parts placement and board |
| `InFlightSurvives` | crash-safe state for one in-flight synthesis (`connection_synthesis.py:315`) | a crash between the last persist and the commit loses the synthesis |

Other behaviour that a reader of the code may not expect, all of it part of the models:

* *Registry.* A timeout inside the agent's generator leaves DONE before the error and none after it; a failed read
  before a renewal ends the lease loop and leaves the producer running; admission counts live leases only, so a
  crashed run is unfinished and not counted. With an expiry under a live owner a second task may decide a run that
  waits for a human.
* *Thread lock.* A lost database session lets a second process into a thread.
* *Workflow.* `pipeline_result.json` is shared by the workflows of a directory; an orphaned child may still commit; a
  signal during the final read overwrites the progress; the checkpoint remembers one resume token only, so a late child of
  an earlier resume cuts again what another request's resume has meanwhile made whole; a paused workflow does not see its deadline, only the
  server's execution timeout closes it; a resumed step may be refused when the checkpoint moved on.
* *Pipeline.* Replans are bounded only per baseline fingerprint and do not look at the deadline; the limit on equal
  failures is exceeded when a repair exposes another one.
* *Agent graph.* After an abandoned question every new request is taken as its answer (`service.py:578`); a takeover
  after a crash replays the original message as a free-text answer; a wait that failed leaves
  the old workflow writing while a later resume starts a second one in the directory.
* *Board.* `.drc.json`, which relocation reads, is written by Manufacture only; a re-proposal in the routing repair overwrites the
  board even when it is rejected; the gap closer ignores an explicit minimum track width; a left-over `.ses` skips the
  two-layer attempt.
* *Evolution.* A candidate has one trial ever; a create whose reply was lost leaves its Job until the clean-up finds it; leftovers
  of a failed first attempt, and those of a dead worker, do not count against the second's clean pass; a completion that meets
  a row the collector has moved is refused and not retried: the trial stays pending unless a repeated start delivers too.
* *Connections.* The merge resolves pins strictly, the checks loosely; the pins that pending batches own count as
  disposed; the total budget of calls is per checkpoint, and forgets a call whose save failed before a crash.

## 8. Not modelled

* The `retained` counter, the retention expiry of terminal runs, `run_id`, access checks on user and
  fingerprint: no property here depends on them, except that a request id reused after its retention
  executes again (listed as a hazard).
* The in-memory registry, the durable event stream, and the control plane's run submission, outbox, releases and
  record keeping: they need models of their own (section 9), or are single database transactions.
* Part selection, placement and schematic drawing: domain computation inside one step of the pipeline.
* In the modelled components, what the notes in `PROJECT.json` name: the workflow's snapshot query and telemetry, the
  path that discards stale questions, the legacy retry inside one process, some functional checks of a netlist, geometry
  and net classes, how a patch is written and how evidence is collected.
* Formatting, transport, identity, EDA adapters, frontend, deployment, evaluations: no shared state that interleaves.

## 9. Plan

1. Done: the modules of section 2, their runs, and the theorems of section 5.
2. Proofs left: of `ConnectionSynthesis`, `OneDisposition`, `CallsBounded` and `Additive`, which need of the folds only that
   a plan is a sequence of disjoint batches.
3. A composition of the registry's slots with `ThreadRunLock`: runs of one thread that hold every slot.
4. `DurableEventStream`: publication and bounded idempotency, with its reader.
5. `RunSubmission` and `RunOutbox`: the control plane's idempotent creation, dispatch, reconciliation,
   event ingestion and ordered outbox.
6. `LocalRunRegistry`: the in-memory registry as a second implementation of `RunLifecycle`.
