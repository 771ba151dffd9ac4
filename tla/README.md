# A TLA+ model of microLLM-rocm

microLLM-rocm is a small C++/HIP framework that trains and serves language models on AMD
GPUs. This directory holds TLA+ modules that model the parts of it whose correctness depends
on the order of events, the TLC configurations that check them on small instances, and TLAPS
proofs of what can be said for every value of the constants. Paths below are relative to the
root of the repository; `src/inference/scheduler.cpp` is the file of that name.

How to run: `tlc -workers 2 -config X.cfg M` for a run of `PROJECT.json`, and `tlapm M.tla` for each of
the modules whose name ends in `Proofs`.

## 1. Inventory

### Serving

| component | state | operations | hard behaviour |
|---|---|---|---|
| `ReferenceScheduler` (`src/inference/scheduler.cpp:42-281`) | a list of requests, each with its own KV cache, logits, generator and generated tokens | `submit`, `cancel`, `step` (prefill a pending request, or select one token and decode), `run_until_idle` | every model call may throw out of `step()` with the tokens already appended |
| `ContinuousBatchScheduler` (`scheduler.cpp:491-1070`) | the requests, `slots`, `slot_ever_used`, `slot_logits`, one shared KV cache with a row per slot, counters | `submit`, `cancel`, `step` = `admit_pending` + `select_tokens` + `complete` + decode | rows are refilled while others are mid-sequence; partial failures; the logits of a row outlive its request |
| `AdmissionBatchScheduler`, `LengthBucketedBatchScheduler` (`scheduler.cpp:283-462`, `1071-1334`) | queues of requests per prompt length; several continuous schedulers | `submit`, `drain`, `step` | order of answers, fairness between buckets |
| `KVCache` (`src/inference/kv_cache.cpp`) | per layer a key and a value tensor and their sequence length, per row a position | `advance`, `advance_row`, `reset`, `reset_row` | the views of all rows share one length, each row has its own position |
| cached forward passes (`src/model/model.cpp:2640-3260`) | none of their own; they write the KV cache | `forward_prefill_cached[_rows]`, `forward_cached`, `forward_cached_active_rows` | where in the sequence of writes an exception leaves the cache |

The schedulers own requests and caches and call the model; nothing runs concurrently, but any
call of `step()` may throw after part of its effects, and the caller may then cancel, submit
and step again. That is what the model explores.

### Runtime and training

| component | state | operations | hard behaviour |
|---|---|---|---|
| caching allocator and deferred deallocation (`src/runtime/runtime.cpp:151-640`, `1165-1400`) | the pool of retired blocks, the flags that allow reuse, a lock; per-thread deferred frees | allocate, deallocate, notify-before-submit, quiesce, enable | a block reused while work of another stream is pending; the window between the notification and the submission |
| gradient buckets, data-parallel trainer (`src/multi_gpu/`) | per rank and bucket the contributions seen, the order buckets are enqueued in, the overlap flag | begin, mark_ready, finish, clear, all_reduce, abort | callbacks of several ranks in any order, exceptions in the middle of an overlap |
| rank-per-process trainer and launchers (`apps/distributed_rank.cpp`, `tools/distributed/run_ranked*.py`) | the id file, the ready file, the checkpoints and parameter files of one output directory; one process per rank; the launcher's place in `main()` | start a group, rendezvous, train, checkpoint, resume, wait, terminate, judge, clean up | a stale file of an earlier attempt, a rank or a launcher that dies between two steps, deadlines, signals that race with results |
| checkpoint files (`src/training/checkpoint.cpp`, `src/io/safetensors.cpp`) | a file and its temporary | save, load, restore | a crash before the rename; a reader that comes too early |
| Python profiling (`python/microllm/profiling.py`) | scope objects, the depth of each context, the ROCTX stack of each thread, HIP events, a completion lock and a future per scope | enter, exit, `wait`, `ready`, `close`, `observe_async`, clock calibration, merge with the profiler's trace | tasks that share a thread's ranges; waiting, closing and observing from several threads; an entry that fails half way |
| autograd (`src/autograd/autograd.cpp`) | per node the contributions still expected | backward, ready hook | a gradient announced before its last contribution |
| tensors, operators and kernels, tuning tables, optimizer, tokenizers, model loading, C++ tracing, applications, C API, benchmark and log scripts | - | - | arithmetic, tables, conversions and reports in sequential code, which unit tests reach |

Every component is listed in `PROJECT.json` with its status, and every hazard at its line with
the properties that watch it.

### What makes each component correct

- Schedulers: a row belongs to one decoding request, and every decoding request has a row; a
  row's position follows its request; the capacity reserved at submission suffices; an ended
  request stays as it is; counters add up; admission is first come, first served within a
  prompt length; the answer is the one `generate()` gives alone; every request ends.
- Allocator: a block never has pending work of two of its lives on different streams; a block
  is in one place; the cache stays below its limit.
- Overlap: a bucket is reduced once, after its last contribution, in the same order on all
  ranks; an exception gets out of an overlap unless a rank it still waits for has failed.
- Launch and checkpoints: the ranks of a group join one communicator and use only files of their
  own attempt; a checkpoint that is announced is complete; the launcher judges a group only when
  it is gone, calls it completed only when every rank succeeded, cleans up behind it, and always
  gets to a verdict.
- Profiling: a row tells the truth about its depth and its range; a kernel belongs to the range it
  was launched in; a completion is recorded once, whoever waits for it.

## 2. Modules

| module | models | composes |
|---|---|---|
| `RequestLifecycle` | the promise of a scheduler, request by request: pending, decoding, ended, with the tokens selected in order | - |
| `ReferenceScheduler` | the reference scheduler with a KV cache per request | refines `RequestLifecycle` |
| `ContinuousBatch` | the continuous batching scheduler with the shared KV cache | refines `RequestLifecycle` |
| `CachingAllocator` | the caching allocator of one device, its phases, deferred scopes, threads and streams | - |
| `GradientBuckets` | how the parameters of a model are divided into buckets, and what a division is however it is made | - |
| `RankOverlap` | the training loop of one process per rank with overlapped gradient reduction, its devices, failures and the launcher | - |
| `OverlapPlan` | the properties of the plan a rank makes before its first step | `RankOverlap` with `GradientBuckets` |
| `GroupVerdict` | the promise of `wait_group()` and its caller: what "completed" means, and that nobody runs any more | - |
| `RankedLaunch` | both ranked launchers, the processes they start and the files they meet in | refines `GroupVerdict` |
| `ProfileScopes` | the profile scopes of the Python package, the ranges and events they open, and what the merge makes of them | - |
| `MCReferenceScheduler`, `MCContinuousBatch`, `MCCachingAllocator`, `MCRankOverlap`, `MCRankedLaunch`, `MCProfileScopes` | the instances TLC uses | |
| `ReferenceSchedulerProofs`, `ContinuousBatchProofs`, `CachingAllocatorProofs`, `GradientBucketsProofs`, `RankOverlapProofs`, `ProfileScopesProofs` | theorems about the module of that name | |
| `RankedLaunchProofs`, `RankedLaunchVerdictProofs` | theorems about `RankedLaunch`: files, attempts, judgements and that the launcher gets on; the verdict of an attempt in which nothing goes wrong | the second rests on the first |

### How the model corresponds to the code

**Tokens and logits.** The model's forward pass is a function of the tokens before it, so a
row of logits is represented by the number of generated tokens it was computed from (`seen`)
and whether it is finite, and a selected token by the `seen` of the logits it came from and
the number of draws its request's generator had made. Under this abstraction "the answer is
the one `generate()` gives" says: the k-th token came from logits that had seen k-1 tokens
with k-1 draws. Whether a token is a stop token is a nondeterministic choice.

**`step()` of the continuous scheduler** is split where it can throw and where the model's
interesting state changes: `StepBegin`, `AdmitBatch` / `AdmitFails` / `AdmitDone` (one
iteration of the loop of `admit_pending`), `SelectTokens` (selection, append, completion and
release of rows as one action, including the throw at a row of non-finite logits), and
`DecodeRows` / `DecodeFails` / `CopyFails`. `Submit` and `Cancel` happen between steps
because the scheduler is not shared between threads. `phase` is the program counter of
`step()`.

**Failures.** `Faults` selects which calls may throw, `MaxFaults` how many do in a
behaviour: a prefill (before or after the storage was allocated), the allocation of a
layer's value tensor after its key, a decode (some of the layers may have appended), the
copy of a row of logits, and logits that are not finite. A failure caused by the state
(a partly allocated layer, a view that does not match the positions, a full row) needs no
entry in `Faults`: it is the guard of the code.

**KV cache.** `position` is `row_positions_`; `storage` says whether the layers' key and value
tensors are undefined, half allocated or defined; `prefix` is the sequence length of the
first layer's view. All layers move together except in a failed decode, where those that
came first may be one longer: `DecodeFails` chooses.

**The reference scheduler** has an action per branch of `step()` and a cursor for the request
loop; a thrown exception ends the pass.

**The allocator.** `enabled` and `forbidden` are the pool's flags of the device, `retired` its
stacks of blocks per exact size, `cached` the counter compared with the limit. A critical
section under `pool.mutex` is one action; only the quiescent handoff keeps the lock over a
wait, so only it shows in `mutex`. `deallocate` decides under the lock and calls `hipFree`
after it: two actions, as are the notification and the launch of an operator on a side stream
(`ResolveSide`, `SubmitSide`). A stream is a queue of work items; when a retired block is handed
out again its queued items become `old`. `hipFree` waits for an idle device. A deferred scope
belongs to a thread, and one of kind `"routed"` sends the thread's default work to the side
stream too. Two rules of the callers are part of the model: side work starts after the default
stream was waited for (the operators order their streams by events or synchronization; without
it `SafeReuse` fails, since a block may be reused with default work pending), and `QuiesceAlone`,
which the run `allocator_race` drops. The counter of cached bytes is process-wide in the code; with one
device it is the device's. Failing HIP calls, stream-ordered buffers, arenas and graph capture are left
out.

**Ranked overlap.** Each rank has the program counter of `run_rank`'s loop, the fields of its
bucket plan, and a device with a default stream (`work`: gradients to add up, events to record)
and a communication stream (`comm`: buckets to pack and reduce). The first step is synchronous
and makes the plan, later steps overlap. A parameter's contributions may come in any order, on
each rank another; the last one runs the whole of `mark_parameter_ready`, with every bucket it
enqueues. `EventPassed` is `hipStreamWaitEvent`: the bucket's event is no longer in the default
stream. `AllReduce` is one step of all ranks whose streams have come to it, as NCCL's kernels
wait for each other. What a bucket holds is a set of triples rank, step, bucket: packing a bucket
with a missing contribution leaves it empty, and averaging unites the sets, so a
bucket is right when it holds exactly `Ranks \X {step} \X {bucket}`. Freeing a replaced
gradient waits for the device, because an overlap forbids reuse. `Throw` stands for an exception
anywhere in the loop (between two calls of the plan, not inside one), `Crash` for a process that
dies, `Terminate` for the launcher. An exception (`raised`) destroys first what the loop and the backward
pass hold (`distributed_rank.cpp:833-835`, `autograd.cpp:353-379`); freeing those tensors waits for the
device, as reuse is forbidden (`runtime.cpp:613`), and so for the all-reduces in its queue. The plan is
declared before the loop (`distributed_rank.cpp:785`) and destroyed after it: only then does `clear()` abort the
communicator (`gradient_bucket.cpp:196,207-213`), by which time the device is idle. `Clear` is all of this in
one step, whose guard is the wait. Where `RankCommunicator::synchronize` is what throws (`communicator.cpp:245-253`),
it has aborted before the unwinding, and the wait ends by itself. Steps are counted from 1; buckets and parameters too.

**Ranked launch.** Training is one step here; `RankOverlap` has its inside. A rank is a program
counter (`at`) that walks `run_rank`, a status, the signal on its way to it, the id it has
read, its training step and the checkpoint it has loaded. A file has a path (its kind, the group
whose directory it is in, the rank) and remembers the attempt and the group that wrote it, so
that a reader's mistake shows. Writing under a temporary name and renaming are two actions, and a
crash may fall between any two. `publish_checkpoint_ready` and `write_id` remove the old
file before they rename: removal and rename are one action, since in an attempt's directory there is
no old file to miss. A collective is passed when every rank has come to it
(`Collective`); a rank that waits for a dead peer waits until a signal ends it. The launcher is
`main()` of the script: `run_ranked.py` with its four failure modes, `run_ranked_checkpoint.py` as the mode
`"checkpoint"` with its four groups. `wait_group` may see success, a failure, or its deadline, and the
deadline may pass after the last poll saw a process run that has ended since. `terminate()` is a
signal that takes its time, two seconds of grace, and a second signal. The pipes are read after that:
a record that does not fit (`run.fits`) blocks its rank in `Report`. `LaunchFails`, `CollectTimesOut`,
`RejectRecords` and `LauncherDies` leave the directory as it is. Trajectories are told by their number of
steps, because the training of a seed is deterministic; that the resumed and the uninterrupted
checkpoint are equal byte for byte becomes equality of their steps. Rules of the model: attempts in a
directory follow each other, and no process of one lives on in the next; the removal of the four
checkpoints at the end is one action; the reference run and the checks of the records are one choice.

**Profile scopes.** A task is a thread or one of the asyncio tasks of a thread. `depth` is the context
variable `_DEPTH`, hence a task's own, and `ranges` is the ROCTX stack, hence a thread's. A task is created by
another in a copy of its context (`Spawn`), in the same thread or in another one, and so starts with its
creator's depth; `base` remembers how many scopes that were. (A bare `threading.Thread` starts with an empty context:
in the model it is a task created outside every scope.) Entering and leaving a scope are single
actions, as they run without an `await`; a failed entry contains its push and its pop. Tasks of one thread interleave as they like:
`roctxRangePop` takes no handle, so `PopLast` pops whatever range the thread opened last, another
task's or not. A pop that fails is only noted in the row (`popError`), which keeps `roctx_emitted`, and the
range stays open. The clock `now` ticks at every push, pop and launch, so that the profiler's timestamps
differ. `wait()` is split at its blocking points: the lock, the synchronization of the event, the line in the
file. An event that is destroyed is `closed`; a step that would use it shows in `CompletionIsUnique`.
`observe_async()` is split where it can be interrupted or fail: it looks for a future (`Observe`), so that two callers may make
one each, stores its own (`StoreFuture`), and starts the thread (`StartThread`) or fails to (`StartFails`), which leaves the
stored future to later callers as `"orphaned"`. A line is appended as a whole or not at all. One rule of the
callers is part of the model, `Unpolled`: nobody closes a scope that another thread polls (`ready()`
looks at the record and then at the event, without the lock). The merge is an operator on the markers and
launches of a state: the narrowest marker around a launch, of any thread, as in the code; `HoldsMarker` is
what the calibration of the clocks takes for granted of a row.

Mutated forms of a definition, used to confirm that a property can fail, stand beside the
definition and are marked `Mutant`. No specification uses them.

## 3. Runs

| run | configuration | shows |
|---|---|---|
| `continuous_faults` | 3 requests, 2 rows of 4 tokens, all faults, 2 of them | table, rows, capacity, counters, finality and admission order hold whatever throws |
| `continuous_clean` | as above, only prefills fail | the refinement of `RequestLifecycle`, views that fit the uniform decode, and termination |
| `continuous_nonfinite` | 2 requests, non-finite logits | violation: tokens appended before the throw are selected again |
| `continuous_allocate` | 2 requests, one allocation fails | violation: the pending requests never end |
| `reference_lifecycle` | 3 requests, prefill faults and non-finite logits | the reference scheduler follows its lifecycle, its caches follow the requests, and every request ends unless logits stay non-finite |
| `reference_decode_fault` | 2 requests, one decode fails | violation: the token is appended twice |
| `allocator_phases` | 2 threads, 3 blocks of two sizes, streams of 3 items | blocks are reused safely, none is lost or in two places, the cache keeps its limit; no deadlock |
| `allocator_race` | 2 threads, a handoff at any time | violation: reuse is enabled while side work is launched |
| `overlap_failures` | 2 ranks, 2 buckets, 3 steps, 2 failures; for the division into buckets, all lists of up to 6 parameters of 0-3 elements, limits 1-4 | the ranks enter the same collectives and every optimizer step reads complete averages; no circle of waiting, one failure ends the group, and a rank that throws ends without a launcher unless the other has failed too; the division into buckets is complete, within the limit and the shortest |
| `ranked_launch` | 2 attempts in one directory, every mode, 2 ranks, 2 failures, any deadline | attempts do not mix, announced checkpoints are complete, verdicts are right, files are cleaned up behind them, and every attempt ends; the refinement of `GroupVerdict` |
| `profile_scopes` | 2 tasks on 1 or 2 threads, 2 scopes (1 with HIP events), 2 observers, 1 kernel, 1 failing call | depths are true and markers match the rows of a nested thread, kernels follow ranges, one completion per scope and no use of closed events, every future whose thread starts is completed |
| `profile_crossing` | 2 tasks on one thread, 2 scopes that interleave, nothing fails | violation: a row's marker ends outside of its own pop |

**Bounds.** Three requests on two rows are the smallest instance with a refill next to a row
in mid-sequence and a request left waiting. The workload has two prompt lengths (so that
admission groups), outputs of 0 to 3 tokens (completion at submission, at the first token and
later), a sampling request beside greedy ones and one that exceeds the capacity. A capacity of four
makes the largest request fit exactly. Two failures allow one to hit the state the other
left. `DrawCap` bounds the draws of a generator in steps that keep throwing: no answer has
that many tokens, so a generator at the bound differs from every generator on course.

For the allocator, two threads give every race of a handoff, a submission and a free; two
blocks of one size and a larger one give reuse within and between sizes; the limit holds one
large or two small blocks; `MaxQueue` lets a stream hold work of every block. For the overlap,
three steps are one synchronous and two overlapped ones, so that state left by an overlap meets the
next; two buckets, one whose parameter is used twice, can become ready in either order, and the second use is a late
contribution; two failures let both ranks fail, which is what keeps an unwinding rank waiting.

For the launchers, the second attempt meets what any ending of the first left; one step and then two
make the resumed, the uninterrupted and the first segment distinguishable by their steps; two failures
let a rank fail and the launcher die, or both ranks fail. The world size is two because
`run_ranked_checkpoint.py` fixes it. For the scopes, two scopes nest in one task, interleave between two
tasks, overlap between threads, or are one around a task's creation and one inside that task; two observers are what two racing callers of
`observe_async()` can make; the one failing call is an event, a pop, the file, or the start of a thread, so that a wait fails
and is tried again, or a future is left behind.

**Deadlock** is checked for the allocator. The other configurations do not check it: a
scheduler whose requests have all ended, a model that has all its parameters and a group whose
ranks have all stopped do nothing more. That a group does stop, and not before its ranks have,
is `GroupEnds`.

**Fairness.** Schedulers: `WF_vars(Step)`: `run_until_idle` calls `step()` as long as a request is active
(`scheduler.cpp:1009-1012`). There is no fairness on `Submit` or `Cancel`, and none on the choice of
the stop token: a request ends because `max_new_tokens` is finite. The number of failures is
finite (`MaxFaults`), which is the assumption under which a caller that retries makes
progress. In the reference scheduler a request whose logits stay non-finite makes every step throw, so
`EveryRequestEnds` assumes finite logits where it is checked with such faults.

Ranks: `WF_vars(Runs)`, that is, running processes and devices go on. Exceptions and crashes have no
fairness. The launcher's reaction is an assumption of `GroupEnds` alone (`Launched`); `run_ranked.py`
polls its processes until it returns. `UnwindingEnds` makes do without it.

Launchers: `WF_vars(LauncherStep)` and nothing for the ranks: `LauncherEnds` needs only that the
launcher's loop and its clocks run (`run_ranked.py:117-124`), since its deadlines bound every wait for a
process. `Deadline` and `CollectTimesOut` are among its steps; without a deadline of the group
(the mutant) a rank that waits for a dead peer's collective, or for the pipe, would keep the launcher forever.

Scopes: the HIP stream comes to every recorded event (`Finish`), and threads inside `wait()` or between
storing a future and starting its thread go on (`Progress`). There is none on the calls a program makes.

## 4. Divergences found

The first five are runs that must end in a violation.

1. `continuous_nonfinite`: with only greedy requests, `step()` appends the selected tokens row
   by row and throws at the first row without a finite logit (`scheduler.cpp:911-922`). The
   rows before keep the token, are not decoded, and select it again at the next step. The
   serving document promises the answer of `generate()` (`docs/dev/serving-scheduler.zh-CN.md:13`).
2. `continuous_allocate`: `forward_prefill_cached_rows` allocates a layer's key, then its value
   (`model.cpp:2809-2820`). If the second throws, the scheduler resets the rows but the layer
   stays half allocated, and every later prefill refuses it (`model.cpp:2795-2799`). The
   reference scheduler resets its cache and recovers; `scheduler.h:59-61` says the optimized
   schedulers must match it.
3. `reference_decode_fault`: the token is appended (`scheduler.cpp:211`) before the decode
   replaces the logits (`scheduler.cpp:225`); if the decode throws, the next step appends the
   token again.
4. `allocator_race`: `notify_non_default_stream` releases the pool's lock before its caller
   launches; a quiescent handoff of another thread in between enables reuse, and the launch
   then queues side work while reuse is enabled. `runtime.cpp:471-474` says that holding the lock
   prevents exactly this. Callers that quiesce while no other thread submits do not meet it.

5. `profile_crossing`: `@profile(..., emit_roctx=True)` accepts coroutine functions
   (`profiling.py:429-436`), and `__exit__` pops whatever range its thread opened last (`profiling.py:134-140`). Two tasks
   of a thread that interleave (one enters, the other enters, the first leaves) pop each other's ranges.
   `docs/development/2026-08-26-python-roctx-gpu-clock.md:23` says that the ROCTX action of a boundary always
   lies between the row's two clock readings, and `docs/dev/profiling.md:547` offers the option on both APIs
   with the readings "immediately before and after push/pop". What holds of such a thread is in `RowsAreTrue`: the depths,
   and the markers again of every thread whose ranges are nested.

Three more were met while modelling and are in the model, each as a step that a property excludes:

- Exceptions in an overlap. In `run_rank` the abort of `clear()` comes after the unwinding has waited for the device (section 2). A rank that throws
  while an all-reduce is queued, and whose peer is dead, therefore hangs in its destructors until the
  launcher ends it. `docs/development/2026-08-25-ranked-gradient-overlap-infrastructure.md:24-25` says of the plan alone
  that it aborts first and waits afterwards, which `clear()` does; what protects a rank is less than that. `UnwindingEnds` says what: its end without a launcher
  when `synchronize()` threw, or as long as the other ranks go on.
- A future without a thread. `observe_async()` stores the future before `thread.start()` (`profiling.py:396-397`). If that raises, every
  later call returns the stored future (`profiling.py:382-383`), which nobody completes. `FuturesEnd` is about the other futures.
- A failed pop. The row says `roctx_emitted` and `pop_error`, and the range stays open (`profiling.py:134-140`, `268-274`): every later pop of that thread
  is one off, and the calibration refuses the trace for lack of a marker or takes a wrong one. `RowsAreTrue` promises no markers in such a thread, but the
  depths.

## 5. Proofs

Every safety invariant and every action property that a run checks is also a theorem, for
every value of the constants; what remains model-checked is liveness. In each
module of actions a lemma per action shows that an inductive invariant `Inv` is kept; TLC confirmed the invariants
on instances before they were proved. The assumptions are those the modules state about their constants
(`ConstantsAssumption`, `AllocatorAssumption`, `PlanAssumption`, `OverlapAssumption`, `LaunchAssumption`, and those of the
reference scheduler and the scopes), which TLC evaluates in every run, and those named with a theorem.

### Continuous batching

`ContinuousBatchProofs` proves, for any number of requests and rows, any capacity, any workload
with prompts of at least one token, any set of faults and any number of them: `TypeCorrect`;
`SlotsConsistent` (the slot table and the requests' own slot fields are inverse, through
admission, completion, cancellation and every failure); `RowsFollow`; `CapacitySuffices`.

All four follow from `Invariance`, whose inductive invariant `Inv` is the conjunction of
`TypeOK`, `SlotMapConsistent`, `RowsFollowRequests` and two strengthenings. `RequestsFit` says
that every submitted request passed the check of `submit()`, that only pending and decoding
requests have a bound on tokens still open, and how long an answer may be in each state; without it the
position of a row is bounded by nothing. `TokenToDecode` says that in the decode phase every
occupied row has one token more than its logits have seen and room for it; without it
`DecodeRows` could advance a row beyond its request's tokens.

The main lemmas: `AdmissionIsInjective` (pairing the k-th waiting request of the chosen length
with the k-th free row gives no row two requests; it rests on `RankInjective`),
`PositionsBounded` and `GrownPrefixType` (the maximum over the rows' positions exists), and one
lemma per action.

The second half of the module rests on that invariant and proves what callers observe:

- `EndedForGood`, `ServedInOrder`: the action properties `TerminalIsFinal` and `AdmissionOrder`. The second
  needs that ranks number a finite set without gaps (`EveryRankTaken`).
- `CountersAddUp`: `Spec => []CountersAgree`, which is inductive with `Inv`.
- `ViewsAreExact` and `NoBatchRefused`: as long as no decode throws by itself, the views end at the longest
  row, and the checks of the decode (`model.cpp:108-141`, `kv_cache.h:105-125`) hold of every
  batch that reaches it: a prefill, an allocation or a copy that fails cannot make a later
  decode fail. The assumption is needed: a failed decode leaves layers of different lengths.
- `AnswersAreTheirOwn` and `ImplementsLifecycle`: as long as only prefills and allocations fail, every answer
  is the one `generate()` gives (`Spec => []OutputMatchesReference`) and the scheduler implements
  `RequestLifecycle`, step by step. Both rest on `LogitsFollow` (a row's logits know every token of its
  request but the one about to be decoded) and `DrawsFollow`. The assumption is again needed:
  `continuous_nonfinite` shows a counterexample, and a failed decode gives the one of
  `reference_decode_fault`.
- `EveryStepServes`, which is what `EveryRequestEnds` rests on, without the fairness: while a request is active, a
  phase of the step has its guard and does not throw for its logits, and every step but a submission, a failed one
  included, decreases `Distance`, a well-founded order. It counts first the failures still to come, then the tokens still
  due (a prefill as a request's token zero, a cancelled or completed request owing none), then the phases of the current
  step. Its assumption is `DecodesSucceed`: only prefills and copies may fail. A failed decode leaves layers of
  different lengths, which every later decode of the batch may refuse, a failed allocation a layer that every later
  prefill refuses (finding 2), and logits that stay non-finite make every later step throw (finding 1).

### Reference scheduler

`ReferenceSchedulerProofs`: `TypeCorrect` and `CacheFollows` with any faults (`Inv` adds that the loop of
`step()` stands at a request that is active, and decodes only a prefilled one); `OutputIsItsOwn` and
`ImplementsLifecycle` as long as no decode fails, with `AnswerFollows` for each request: as many tokens as its
logits have seen, one more before a decode, a draw for each, and one still wanted. Finding 3 is what happens without the
assumption. Non-finite logits need none here: the reference scheduler handles one request at a time.

`EveryStepServes` says of this scheduler what it says of the other one. Here prefills and decodes may both fail: a decode that
throws leaves its request where it was and spends one of the failures to come. What is assumed is `LogitsFinite`: a request whose logits
stay non-finite throws at every step and the requests behind it are never reached (`scheduler.cpp:122`).

### Caching allocator

`CachingAllocatorProofs`, for any number of threads and blocks, any sizes and limits, and queues of any length:

- `ReuseIsSafe` and `ReuseDisabledBeforeSideWork` under the callers' rule `QuiesceAlone` (without it: `allocator_race`).
  Their invariant says why: the flags are exclusive, and while reuse is not forbidden the
  side stream is empty and nobody is about to launch on it (`Flags`); during a handoff nobody launches
  and everything on the side stream is waited for (`Handoff`), so that enabling reuse finds it
  empty; hence side work is never `old` (`SideIsCurrent`), and default work, which may be, meets no
  side work of an earlier life. Without `Handoff` the step that enables reuse proves nothing.
- `TypeCorrect`, `BlocksStayInOnePlace` and `PoolWithinLimit` without that rule. Their invariant `Placed` follows
  each block: it is with a program, with the driver, at one place of one stack, at one place of one scope or in one
  thread's hands, and the counter is the number of bytes of the pooled blocks, counted as a set.

### Gradient buckets

`GradientBucketsProofs`, for every list of parameter sizes and every limit: `DivisionIsCorrect` (`make_ranges` leaves no
parameter out, keeps their order and the limit; `BucketsOfEveryModel` says so of all sequences), `DivisionIsShortest` (no
other division within the limit has fewer buckets; `FewestBuckets`) and `BucketsSuitOverlap` (what
`OverlapAssumption` takes for granted of the buckets holds of whatever `make_ranges` returns, so that the theorems of
`RankOverlap` apply to it). The definitions are folds, that is, recursive functions chosen by an equation. `FoldExists` builds
a function that satisfies the equation up from the smaller sets, `ElementsAdd` shows that the sum over a bucket does not
depend on the order, and `MakeRangesRecursion` turns the fold into buckets `R[0]`, `R[1]`, ... of ever more parameters.
`Placed` is what every one of them satisfies. The shortest division is the argument that the greedy one stays ahead:
after every parameter it is at most in the bucket in which the other division is, and if
they are in the same one, its bucket is a part of the other's. For that every parameter needs
elements: one without any, after a full bucket, gets a bucket of its own that another division spares. The
library's induction theorems take an operator, which no installed prover instantiates; `Induction` says the same
of a set of naturals, which is enough.

### Ranked overlap

`RankOverlapProofs`, for any number of ranks, any graph, any division into buckets, any number of steps and failures:
`TypeCorrect`; `SameOrder` (all ranks enter the same collectives in the same order); `Lockstep` (no rank is two
steps ahead of another); `EveryBucketEnqueued`; `OptimizerReadsAverages` (every optimizer step reads, in every bucket, the
gradients of all ranks and of its own step). `Inv` follows each rank (`RankFollows`): what its host loop, its
default stream and its communication stream have done of each bucket, in the orders the events force; and it keeps
ranks in lockstep by what they have left to reduce. Whether a rank lives, has failed or was killed
decides which part of it still holds.

`UnwindingEnds` and `GroupEnds` need fairness, but what they rest on is proved. `UnwindingWaitsInOrder`: a rank whose exception
unwinds and that has no step of its own waits, not aborted, in an all-reduce that no other living rank has gone past: each of them is in
that step or before it, and if it waits in a stream, then for the same bucket. So only a rank that failed, or one that is not there yet, keeps it.
`NoCollectiveDeadlock`: until a process has ended with a failure, even while exceptions unwind some, the guard of
some rank's step or of the next all-reduce holds, unless all ranks are done. A rank that cannot move is done or
waits with a packed bucket (`WaitsForOthers`); by the lockstep nobody is done while another waits (`NobodyIsLeftBehind`), so if
none can move all have packed the same bucket and the all-reduce goes on. `EveryStepCounts`: every step brings a rank nearer to its end by
`Distance`, whose order is well-founded, and takes none further away. What is left to TLC is to get from
there to `~>`.

### Launchers

`RankedLaunchProofs`, for any number of ranks, steps, attempts and failures: `TypeCorrect`, `AttemptsStayApart`,
`ReadyFilesAnnounce`, `VerdictCleans`, `ImplementsVerdict` (the launchers implement `GroupVerdict`) and `LauncherGetsOn`. `Inv` says of every
file that it belongs to the attempt and to a group that has run, with the steps of that group (`FilesFollow`), of every
process what it has read and how many steps it has trained (`ProcessesFollow`), and of rank 0 what is in the directory
between each two of its calls (`SavedInOrder`): the last is what makes `ReadyMeansComplete` inductive.

`LauncherGetsOn` is what `LauncherEnds` rests on, without the fairness: in an attempt without a verdict the guard of one of the
launcher's actions holds whatever its ranks do (`LauncherFollows`: rank 0 is the last to be launched, so there is one to launch
until it waits), each of its steps decreases `Distance` (the groups to judge, the phases of the group at hand, the ranks
to launch), and no rank increases it.

`RankedLaunchVerdictProofs` proves `HealthyAttemptsPass` (`HealthyAttemptPasses`). As long as no call, no process and no
deadline fails, the attempt is `OnCourse`: a rank ends with 0, with the one failure its mode means, or by a signal that
follows that failure; in a group that is meant to fail nobody gets further than the failure lets it
(`Where`: without the rank that failed no communicator is made, without even counts nobody trains, without the
barrier of rank 0 nobody publishes); the launcher stops waiting only for a group that is complete or has the failure
that is meant, and then a peer of that rank was still running to be signalled, which `main()` insists on
(`terminated`); the temporary files are only there between two calls of rank 0. Each of `main()`'s
judgements then finds what it looks for. No assumption beyond `LaunchAssumption` is made, and
not even fairness: it is about the verdict, not about getting to one.

### Profile scopes

`ProfileScopesProofs`, for any number of tasks, threads, scopes, observers, kernels and failures: `TypeCorrect`,
`RowsSayWhatHappened`, `KernelsAreAttributed`, `CompletesOnce`. `Inv` follows the tasks' nesting on top of what they were created in
(`TasksFollow`), the scopes (`ScopesFollow`), the ranges of each thread, in the order of their pushes (`RangesFollow`), the
markers (`MarkersFollow`) and the launches: a launch is inside the range that started last of those around it
(`KernelsFollow`). None of these has a rule for how tasks interleave or which pops fail. Whatever they do, a thread's markers nest, for it has one stack
(`MarkersNest`); that makes the narrowest one the innermost. What depends on the tasks is whose scope a range belongs to: `NestedFollow` says that as long as the
ranges of a thread are nested (`IsNested`), they are those of its open scopes, and every scope of it that is over has its
marker. It is inductive because the first crossing, or the first failed pop, ends its premise for good.
`CompletionFollows` says who has the lock, and that the one who has it between synchronization and line finds no
record. The callers' rule `Unpolled` is part of the specification.

`CompletionNeverSticks` is what `FuturesEnd` rests on: while a future of `observe_async()` is under way, the caller that stored it can start its
thread, or its scope has a finish event to come, or some thread in `wait()` has nothing to wait for in its next step. A future whose
thread failed to start is not under way: nobody completes it (section 4). `WaitsFollow` is the invariant behind it: who
holds a lock is at a line that gives it back, who waits for it waits for that thread, a stored future has one caller at the line that starts
its thread, and nobody waits for an event that was closed or never recorded.

### Only model-checked

Everything under fairness: `EveryRequestEnds` (of both schedulers), `UnwindingEnds`, `GroupEnds`, `LauncherEnds`, `FuturesEnd`. TLAPS does
not handle ENABLED here, and with it no liveness. `NoCollectiveDeadlock`, `UnwindingWaitsInOrder`, `CompletionNeverSticks`
and `LauncherGetsOn` therefore name the guards of the actions and not ENABLED; `EveryStepCounts`, `LauncherGetsOn` and, of
both schedulers, `EveryStepServes` say that these steps cannot go on forever. What is left to TLC is the step from there to
`<>`, which is where the fairness comes in.

## 6. Plan

Done in this order so far: `RequestLifecycle`, `ReferenceScheduler`, `ContinuousBatch`,
`ContinuousBatchProofs`, `CachingAllocator`, `CachingAllocatorProofs`, `GradientBuckets`,
`RankOverlap`, `GroupVerdict`, `RankedLaunch` (with the checkpoint files), `ProfileScopes`, and then the proofs:
`ReferenceSchedulerProofs`, `RankedLaunchProofs`, `ProfileScopesProofs`, `RankOverlapProofs`,
`RankedLaunchVerdictProofs`, `GradientBucketsProofs` (with `OverlapPlan`). Next:

1. `DataParallel`: the single-process trainer with its own plan, and an exception in its step.
2. `LengthBucketedBatch`: several `ContinuousBatch` instances behind one queue, which refine
   `RequestLifecycle` together.
3. Failing HIP calls in `CachingAllocator`: a block whose deferred free fails belongs to nobody
   (`runtime.cpp:1251`), which needs a place of its own in `BlocksInOnePlace`.

Theorems planned: those of the two modules to come.

## 7. Not modelled, and why

Kernels, operators and the optimizer compute on floating-point numbers; TLC has none. Tensor views,
tuning tables, tokenizers, model loading, the C++ trace and the command-line programs are sequential
code over their inputs without state that outlives a call. In the modelled components,
timing metrics, diagnostics capture and the wording of errors are left out, because no property
is about them.

Most lines of Python in the repository are in two scripts of the optimization log:
`validate_log.py` (21,000 lines) compares recorded benchmark files with constants written into it, and
`render_progress.py` (6,800 lines) draws SVG charts from them. They keep no state, make no step that could
come in another order, and a definition for one of their checks would repeat the constant it compares
with. The scripts under `benchmarks/`, `tools/alignment/` and `prepare_hf_fixture.py` run a program once and report on its
floating-point output. `_capi.py` is a binding: of it only the events of `ProfileScopes` have behaviour of
their own. They stay out of the model, and so most Python lines do.

Of the launchers, the checks on the records' counters (`run_ranked.py:412-676`) are one nondeterministic
failure, as their outcome depends on measured numbers. Of the profiling module, the least-squares fit of the
clocks and the export of the trace are arithmetic and formatting. A restore that fails half way
(`checkpoint.cpp:328`) ends the process in every program of the repository.
