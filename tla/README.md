# A TLA+ model of the AI inference service

The service answers generation requests over HTTP (`app/main.py`), runs them on a vLLM
server with retries, a circuit breaker and a fallback (`app/inference.py`,
`app/resilience.py`, `app/redis_circuit_breaker.py`), and takes long jobs through a Redis
Stream that worker processes consume (`app/redis_stream_jobs.py`, `app/job_worker.py`). A
second service answers questions about images (`app/multimodal/service.py`). Around them are
the programs whose output is the project's evidence: workload runs, benchmarks, evaluations
that can be resumed, and a simulation of two schedulers (`scripts/`).
This directory holds TLA+ modules for the parts where processes, threads, files and Redis meet,
the TLC configurations that check them on small instances, and TLAPS proofs for every
value of the constants.

Paths such as `app/...` and `scripts/...` are below `src/`.

## 1. The system

| Part | State it keeps | Operations | Talks to |
|---|---|---|---|
| Job queue (`redis_stream_jobs.py`) | in Redis: a stream, its consumer group with a pending list, one JSON document per job with a TTL | `enqueue`, `get_job`, `ensure_consumer_group`, `read_new`, `reclaim_idle`, `mark_running`, `complete`, `fail` | Redis |
| Job worker (`job_worker.py`) | the reclaim cursor, "group is ready", the batch in hand, the lease of the job being executed | `process_once` in an endless loop | job queue, `generate_text` |
| Job routes (`main.py`) | none | `POST /jobs`, `GET /jobs/{id}` | job queue |
| Local circuit breaker (`resilience.py`) | state, failure count, time of opening, probe flag, under one lock | `allow_primary_call`, `record_success`, `record_failure`, `state`, `snapshot` | |
| Resilience controller (`resilience.py`) | per request: attempts, permit | `execute` | breaker, primary, fallback |
| Shared circuit breaker (`redis_circuit_breaker.py`) | in Redis: a hash (state, version, failures, time of opening) and a probe key with a lease; in each gateway a local breaker | as the local breaker, each a Lua script | Redis, local breaker |
| `generate_text`, `POST /generate` (`inference.py`, `main.py`) | none of their own | one request | controller |
| vLLM backend (`backends/vllm_backend.py`) | none | `generate`, `check_ready` | vLLM over HTTP |
| Mock and Transformers backends | a loaded model | `generate` | torch |
| Readiness (`main.py`, `deployment/week3_ha/k8s`) | the thread pool of all routes; the kubelet's failure counts | `/livez`, `/readyz`, `/health` | backends, kubelet |
| Multimodal service (`multimodal/service.py`) | a cached client, temporary files, a thread pool, counters | `/multimodal/generate`, `/multimodal/health` | BAGEL server |
| BAGEL drivers (`scripts/week4_cloud/run_bagel_workload_manifest.py`, `scripts/week3_bagel/run_understanding_benchmark.py`) | records, GPU samples, snapshots of the counters, an archive | `main` and a sampling thread | multimodal service |
| Workload routing (`routing.py`) | none | `classify_workload`, `select_serving_profile` | |
| INT8 RMSNorm (`kernels/rmsnorm_int8.py`) | none | the kernel and its reference | GPU |
| Scheduler simulation (`scripts/scheduler_simulation.py`) | queues of simulated requests | static and continuous batching | |
| Text workload and grading (`scripts/week4_cloud/run_text_workload_manifest.py`, `evaluate_codegen_functional.py`) | responses appended case by case, records written at the end; docker containers | `main` of either | gateway, docker |
| GSM8K evaluations (`scripts/run_gsm8k_full_benchmark.py`, `scripts/run_bnb_int8_gsm8k_batched.py`) | a dataset, a CSV file they resume from, a summary | `main` | gateway, or the model itself |
| Load benchmarks (five scripts, see `LoadBenchmarks`) | rows in memory, written at the end | `main` and a pool of threads | gateway or vLLM |
| Metrics, plots, preparation scripts, deployment | result files, manifests | | |

What makes them hard:

* **Job queue.** Any number of workers on one stream. Every operation on a job is two
  Redis commands (read the document, then a script), and other workers run in between.
  Workers die, replies are lost, documents expire, and a message that has been pending for
  too long is given to another worker whether or not the first is dead. Correct means: no
  accepted job is lost, the result stored is that of the last lease, a finished job stays
  finished, clients are told the truth, and accepted jobs finish.
* **Breakers.** Threads and gateways record results in any order, long after the circuit
  has changed under them. Correct means: it opens after the threshold of failures, one
  probe goes out when it may be recovered, a late result does no harm where the code
  fences it, and it never stays shut.
* **Requests.** Bounded retries, a fallback that hides outages, one answer per request. A
  call of vLLM fails at different points of its exchange, and what the failure is called
  decides whether it is sent again.
* **Thread pools.** `/livez` and `/readyz` need a thread of the pool that `/generate` fills;
  the BAGEL service's health route needs one of the pool in which timed-out calls go on.
  Correct means: every request is answered, no call is made twice, no file stays behind,
  and the pod is in service when it can serve, and out of it when it cannot.
* **Programs that make evidence.** They are killed and run again over files that were half
  written, collect results in any order, give up on requests that are still at work, and read
  what other threads append to. Correct means: what is written covers the cases, agrees with
  what the servers did, and the program ends.
* **Scheduler simulation.** One thread, but three nested loops over a clock that several
  branches move. Correct means: all time is accounted for, requests that need no more
  than later ones are not overtaken by them, the continuous scheduler does not idle with
  work at hand, reported latencies cover the work, and the loops end.

## 2. The modules

| Module | Models |
|---|---|
| `JobQueue` | gateway's `POST /jobs`, queue and workers, one action per Redis command |
| `AtLeastOnceQueue` | what the queue promises its clients; `JobQueue` implements it (`KeepsPromise`) |
| `CircuitBreaker` | the local breaker as a value and functions on it; used by the next two |
| `Gateway` | concurrent `POST /generate` requests over `execute()` and a local breaker |
| `FencedBreaker` | a breaker to which results of an earlier state do nothing |
| `SharedBreaker` | gateways on one Redis circuit with their local breakers; implements `FencedBreaker` (`ImplementsFenced`) |
| `VllmBackend` | one exchange of the vLLM backend: where it failed, and the error class it becomes |
| `GatewayPod` | the gateway's thread pool under `/generate`, `/livez`, `/readyz` and the kubelet's probes |
| `Multimodal` | the BAGEL service: handlers on the event loop, threads of the default executor |
| `BagelWorkload` | the two scripts that drive it, with their sampling threads; extends `Multimodal` |
| `ContinuousBatching` | the simulated continuous scheduler, a step per round of an inner loop |
| `StaticBatching` | the simulated static scheduler, then the continuous one, then both summaries |
| `TextWorkload` | the text workload over synchronous and job requests, killed and run again |
| `CodegenEvaluation` | the grading of its answers in docker containers; extends `TextWorkload` |
| `ResumableEvaluation` | the two GSM8K evaluations over kills, exceptions and resumes |
| `LoadBenchmarks` | five benchmarks that send a list of requests and write rows at the end |
| `Percentiles` | the percentiles the benchmarks and the simulation report, as functions of the values |
| `MCJobQueue`, `MCGateway`, `MCSharedBreaker`, `MCBagelWorkload` | names, threads and symmetry for TLC |
| `MCPrograms` | the parts that share no state with queue, breakers and BAGEL service, one of them to a behaviour |
| `JobQueueProofs`, `CircuitBreakerProofs`, `GatewayProofs`, `SharedBreakerProofs`, `ContinuousBatchingProofs`, `MultimodalProofs` (with the scripts' archive), `BenchmarkProofs` (evaluations, simulation, benchmarks), `ProgramProofs` (the other programs, and all side by side) | the theorems |

Definitions whose comment starts with *Mutant* are wrong on purpose and used by nothing:
each is a plausible mistake in the code, and putting it in the place of the right
definition makes a property fail. They show that the properties say something.

### JobQueue

| Code | Model |
|---|---|
| stream entries, `last-delivered-id`, pending entries list, idle time | `stream`, `lastDelivered`, `owner`, `idle` |
| the document under a job's key | `jobState[j]`: status, attempt count, worker name, delivery token; `Missing` after the TTL |
| `enqueue` (MULTI/EXEC) | `Enqueue`; its reply is lost or not, which `Submitted` turns into the route's 503 or 202 |
| `_ensure_consumer_group` | `EnsureGroup` |
| `reclaim_idle` by XAUTOCLAIM | `ReclaimIdle`: scans ten entries per message asked for, from the cursor |
| `_reclaim_idle_legacy` | `LegacyScan` (XPENDING) and `LegacyClaim` (XCLAIM) |
| `read_new` | `ReadNew`, `ReadNothing` (BLOCK elapses), `ReadTimesOut` (BLOCK 0 never does) |
| `mark_running` | `MarkRunningGet`, then `MarkRunning` or `MarkRefused` |
| `generate_text`, its exceptions | `Generate` |
| `complete`, `fail` | `FinalizeGet` or `LeaseStale`, then `Finalize` or `FinalizeRefused` |
| `JobQueueUnavailableError`, back-off | `Abort`, `Wake` |

The unit of atomicity is the Redis command. A job is named by the position of its XADD,
which is also the order of its stream id; `enqueue` adds one entry per job and nothing
else adds any, so key, id and entry need no names of their own. Payloads and results are
left out. Tokens are drawn from those nobody remembers, which is what a uuid4 is.
`marks`, `marker`, `finisher` and `expired` are history that no action reads.

Faults are a budget (`MaxFaults`) of `crash` (a worker process dies), `error` (a command
fails before or after it took effect), `expire` (a job's TTL ends) and `overrun` (an
entry a live worker is busy with becomes old enough to be reclaimed). Idle time of entries
nobody works on passes without budget. Deliberately not assumed: that workers have names
of their own. `_default_consumer_name` makes them distinct, but `JOB_WORKER_NAME`
overrides it and `deployment/cloud/run_week4_job_worker.sh` sets it per host.

### Gateway and CircuitBreaker

Every method of the local breaker holds its lock from start to end, so each is one
function: `Admitted`, `AfterSuccess`, `AfterFailure`, `Advanced` (the change from OPEN to
HALF_OPEN that any reader may cause). `opened_at` and the clock are `ready`. The failure
count stops at the threshold, beyond which the code cannot tell numbers apart.

A request is a thread of FastAPI's pool; it takes a step between two accesses to the
breaker or calls to a backend. `Begin` to `Report` follow `generate_text`, `execute`,
`_run_fallback_or_raise` and the `except` clauses of the route in their order, with the
two reads of the breaker's state for metrics because they can change it. `streak` (failures
recorded since the last success) and `probes` (calls admitted in this half-open period)
are history.

### SharedBreaker

`circuit` is the hash, `probe` the key with the lease, `fallback` the local breaker of each
gateway. `AdmitClosed`, `AcquireProbe` and `AdmitLocally` are `allow_primary_call`;
`SuccessScript` and `FailureScript` are the two Lua scripts; `RecordSuccess` and
`RecordFailure` the methods around them, with the local breaker told when Redis does not
answer. Faults: `down` (a script does not run), `reply` (it runs, the reply is lost),
`crash` (a gateway starts anew). An allow script that changes nothing has no action of its
own: a lost reply then looks like `down`. Time is "the circuit has been open for the
recovery timeout" and the lease, which `LeaseAttempts` calls to the primary fit in:
`LeaseExpires` waits until its owner, if alive, has made more. Calls to the primary take
at most their timeout.

### ContinuousBatching

| Code (`scripts/scheduler_simulation.py`) | Model |
|---|---|
| `generate_requests` | `Generated`: any arrivals that only grow, any lengths |
| `current_time`, `gpu_busy_time`, `gpu_idle_time` | `time`, `busy`, `idle` |
| `active`, `remaining_output_tokens` | `active`, `remaining` |
| `completed` | `Completed`, with `start` and `finish` |
| a round of the loop that admits, with its prefill | `Admit` |
| the jump to the next arrival | `Skip` |
| a decode step for all active requests | `Decode` |

`waiting` is brought up to date after every change of the clock but the decode step's,
and that one is followed by it before anything reads the list; so it is always the
requests that have arrived and were not admitted (`Waiting`). Times are whole numbers:
the code rounds floats to six digits when it reports them, which is left out.

`StaticBatching` adds `simulate_static_batching`, a batch a step (`Available`, `Gap`), and
the order in which `main` runs both policies and summarizes them. Percentiles are kept as
hundredths so that they stay whole.

### Multimodal and BagelWorkload

| Code | Model |
|---|---|
| a coroutine of either route | `handler[i]`; `Receive`, `Submit`, `TimeOut`, `Finish`, and `StartProbe`, `FinishProbe` for health |
| the default executor | `queue`, `thread`, `future` |
| `_call_bagel` | `WriteImage`, `Predict`, `Unlink`: one step per thing that can fail |
| `urlopen` of the health route | `OpenUrl` |
| temporary files | `files` |
| `multimodal_requests_total` | `counted` |
| `main` of the manifest run | `BeginManifest`, `Post`, `Collect`, `Drain`, `JoinSampler`, `WriteRecords`, `Summarize` |
| `main` of the understanding benchmark | `BeginRuns`, `PostRun`, `CollectRun`, `EndRuns`, `JoinForSeconds`, `WriteRuns`, `WritePeaks` |
| `sample_gpu` | `Sample`, `EndSampler` |

The stretch of a coroutine between two awaits is one step, as the event loop runs it. When
`wait_for` gives up, the executor's Future is cancelled if no thread has taken the item, and
otherwise the thread goes on; the cached BAGEL client that cannot be made is one more way for
`Predict` to fail. Refusals of a form differ only in their status; `Refusals` bounds which
of them happen.

### The other programs

* `TextWorkload`. The server is the life of one job per case (`job`), which may never end
  and may expire between two polls. `responses` is the file that is appended to and outlives a
  kill, `results` the list in memory, `evidence` what is written at the end.
* `CodegenEvaluation`. `subprocess.run` with a timeout kills the docker client. The daemon
  creates, starts and runs the container on its own (`Daemon`), whatever became of the client.
  Docker commands fail in any state of the container: `docker run` with an exit status that
  is graded like that of the tests (`ClientFails`), `docker rm -f` without anybody looking
  (`Remove`). `dockerFailed` is history: the cases for which one did. `EvaluatorRaises` is every
  exception that the one handler does not catch. That the evaluator itself is killed is left out.
* `ResumableEvaluation`. `file` is the CSV on disk, `header` and `buffer` what is written and
  not flushed. A kill leaves a prefix of the buffer, the last row of which may be torn.
  `Joined` is the file afterwards: a row written behind a torn one becomes part of it for
  `csv.DictReader`, and counts as an answer if it was torn behind its `ok` column. `AskRaises` and `PromptsFail` are the exceptions that no `except` of the scripts catches.
* `LoadBenchmarks`. `bench` is the script: the capacity run against `/generate` and with jobs,
  the vLLM benchmark, and the context-length, reasoning and code evaluations. `server` is what
  becomes of each request at the server, also after the client gave up on it. Three of the
  scripts call `exc.read()` in the handler of `HTTPError`, where nothing catches what it raises:
  it ends the script with no row written (`ScriptRaises`), in a pool after all other cases
  (`VllmRaises`).
* `VllmBackend`. `exchange` is how far the request got, `upstream` what vLLM does meanwhile,
  `failure` what went wrong and `raised` the class it becomes. A proxy in between answers 502,
  503 or 504 by itself.
* `GatewayPod`. All routes are plain functions, so they share Starlette's pool: `line` is the
  order of arrival, `calls` and `lingering` the threads in `/generate` with and without a
  client, `checking` the thread in `/readyz`, which asks the primary first and then the
  fallback. `Probe`, `LivezStarves`, `ReadyzStarves` and `Restart` are the kubelet with the
  thresholds of the manifest. A request whose client has gone keeps its place in the line and
  gets its thread in its turn, because neither the server nor the limiter of the pool takes a
  plain function's call back: an abandoned probe is `"staleLivez"` or `"staleReadyz"`, and an
  abandoned `/readyz` that is let in checks its backends for nobody (`lingering`). Both probes
  have a `periodSeconds` of 5, so that one kind is sent as often as the other
  (`ReadyzPerLivez`, `Paced`). A restart empties line and pool.

## 3. The runs

Each takes some seconds to three minutes; all pass except where a violation is expected.

| Run | Question | Instance |
|---|---|---|
| `queue_safety` | does any mix of faults lose a job, let a stale worker write, or show clients something untrue? | 2 workers, 2 jobs, batches of 2, 4 tokens, all faults, 3 of them |
| `queue_legacy` | on Redis 6, does XPENDING-then-XCLAIM give a job in execution to somebody else, and does every accepted job finish though the scan always starts at the first entry? | 2 workers, 2 jobs, batches of 1, 2 faults, no overrun |
| `queue_liveness` | does every accepted job finish, and does the queue keep its promise, when workers share a name? | the same on Redis 7, one name, with overruns |
| `queue_block_zero` | and with larger batches? **No** | batches of 2, 1 job, 1 crash |
| `gateway_safety` | are failures counted, probes limited and outages hidden in every interleaving? | 3 requests, threshold 2, 1 retry, fallback |
| `gateway_liveness` | is every request answered, and does the circuit let requests through again? | 2 requests, no fallback |
| `shared_safety` | do the two keys agree, is there one probe, and are late results harmless? | 2 gateways, 3 threads, threshold 2, 2 faults, lease for 2 attempts |
| `shared_liveness` | can anything shut the circuit for good? | 2 gateways, 1 thread each, threshold 1, 3 faults |
| `shared_probe_lease` | is there one probe in the default configuration? **No** | no faults, 1 retry, lease for 1 attempt |
| `programs` | for each program on its own: is what it writes complete and true, and does it end? does a backend's failure tell what became of the request? do probes pile up in a full thread pool, is the pod in service when it can serve and out of it when it cannot? | see below |
| `batching_docstring` | does a static batch start when the GPU is free and a request has arrived? **No** | 3 requests, batches of 2 |
| `bagel_workload` | do files, calls, answers and counters of the BAGEL service fit together whatever times out, and what the scripts archive with them? | 2 requests, 1 health check, 1 thread, 2 posts at a time |

`IInv` and `ServiceInvariant` are the inductive invariants of section 4; the type invariant
is a part of each. The others are inductive too, each with a part named `…Fit` or `…Fits` that says
what else is true of the places a program can be at and that the named properties rest on. What the conjunctions checked by `programs` and `bagel_workload` consist of:

| Invariant | Parts |
|---|---|
| `IInv` (continuous scheduler) | `ClockAccounted`, `ShorterIsNotOvertaken`, `LatencyCoversWork` and what they rest on |
| `SimulationInvariant` | `BatchesAreFull`: order, arrival and length under static batching. `SummariesShareSpan`: both policies' shares are of the time at which the last request finishes |
| `PipelineInvariant` | `ResponsesMatchRecords`: the appended file and the records tell the same of this run. `GradesThisRun`: old answers in the file are not graded. `NothingRunsOn`: the code of an answer runs on after its case only where a docker command itself failed, however the timeout meets the daemon's creating and starting |
| `EvaluationInvariant` | `EvaluatedOnce`: over all kills and resumes a case has the rows of one run. `SummaryCoversDataset` |
| `BenchInvariant` | `OutputCoversItems`, `CountsMatchServer`, `LoadIsAsAsked`, `PercentilesAreRanks` |
| `CallInvariant` | `RepeatsAreAmbiguous`: a retry or fallback repeats work only after a timeout or a proxy's answer. `ResultIsUpstreams` |
| `ProbesDoNotPileUp` | a part of `PodInvariant`, which is inductive and proved: abandoned liveness probes in line are no more than failures are counted, and the restart bounds the readiness probes too |
| `ProgramsEnd` | `EveryoneServed`, `RunEnds`, `EvaluationEnds`, `BenchmarkEnds`, `CallEnds`: again and again the program has ended or is not started; what has ended stays so, except that a run may be started again |
| `ServiceInvariant` | `NoStrayFile`, `OneCallPerRequest`, `AnswerIsTrue` and what they rest on |
| `ArchiveInvariant` | `ArchiveIsComplete`, `PassIsEarned`, `PeakIsOfArchive` |

Bounds. Two workers and two jobs are the least that let a stale worker meet a live one,
and a batch hold a message that waits behind another; three faults let a worker be
overrun, another crash, and a reply be lost in one behaviour. Two tokens can be in use by
workers and two in documents, hence four. Three requests are what it takes for a probe, a
late result from before the circuit opened, and another call that meets both. In the
shared breaker two threads of one gateway share its local breaker and the third is the
other gateway. `MaxVersion` keeps the circuit from opening and closing for ever: once the
version is that high the primary fails no more. Versions up to 6 contain three full
cycles of opening and probing, up to 4 two, so that a permit can be stale by a whole cycle.
Symmetry is used only where every property is an invariant or a condition on steps that
treats the permuted workers, threads and tokens alike. That late results do no harm when
the lease is too short either, and which guarantees of the queue hold under any naming of
the workers, is proved (section 4).

In `programs`: three requests on two slots are the least for one to wait while two are
active; times and lengths are chosen so that arrivals fall before, within and after a prefill
and a step, and outputs of no token occur. Two cases and two runs let one run leave answers
that the next must not be judged by. Three rows, batches of two and three starts let a batch
be torn in the middle, resumed, and resumed again. Three items over a pool of two let a thread
go on to another item while one it gave up on is still at work. `Functional` has both cases,
so that one of them can be graded while the other's container is still there; the proofs are
for any subset. The pod has the thresholds and the ratio of periods of its manifest; a pool of
two threads is full with one call and one check, or two calls; `MaxLine` bounds the calls in
line only: probes need no bound, which is what `ProbesDoNotPileUp` says. In `bagel_workload` one thread makes the
second request and the health check wait behind a call that may never end; `MaxSamples` is 1
because a sample either comes between writing and summarizing or does not.

Deadlock is checked in every run of the services: no part of them may stop. The programs
end, and their runs say so (`CHECK_DEADLOCK FALSE`); that they end where they should is
`ProgramsEnd`.

Fairness. A worker process that is alive keeps taking steps: the loop in `main()` is
endless, every Redis call has a socket timeout (`config.py` keeps it longer than BLOCK)
and every backend call has one, so `generate_text` ends. Idle time, recovery timeouts and
leases are clocks. Nobody must submit a job or send a request; a dead worker need not come
back, because nothing in the deployment restarts it, which is why
`EveryAcceptedJobFinishes` allows for all of them to be dead. The event loop runs every
coroutine that is ready and every timer that is due, and threads run; no fairness is given to
`Predict`, because BAGEL's client has no timeout. The threads of a script run on, and every post
ends by its own timeout; the sampler's nvidia-smi is only fair where the script gives it a
timeout. A job need not finish, a container need not end, and `docker rm`, which has no timeout,
need not come back: `EvaluationEnds` is about evaluations that are not left waiting for it. The
kubelet probes for ever, and every wait for a backend ends by its timeout. Programs are never
obliged to be started or killed (`TextFairness` is about `TextStep`, which has no `StartRun`).
All fairness is weak.

### What the violations show

* `queue_block_zero` (`app/job_worker.py:100`). A worker that reclaimed fewer messages than its
  batch size reads new ones with `block_ms=0`. For XREADGROUP that is not "do not wait"
  but "wait for ever". Nothing new arrives, the socket times out, the exception leaves
  `process_once`, and the reclaimed messages, now this worker's and with an idle time of
  zero, are dropped. A reclaim period later the same happens. On a quiet stream the job of a crashed
  worker is never finished; the queue's class comment says another worker takes it over.
* `shared_probe_lease` (`app/config.py:121`). The default lease is one timeout and ten
  seconds, but the probe's request may time out and be tried again under the same permit.
  The lease ends in the second attempt and another gateway gets a probe.
  `SharedBreakerProofs` shows that `RetryAttempts < LeaseAttempts` is what is missing.
* `batching_docstring` (`scripts/scheduler_simulation.py:112`). The docstring of
  `simulate_static_batching` says that a batch starts when the GPU is free and at least one
  request has arrived; the loop waits for a full batch as long as requests are left to come, as
  its comment says. `BatchesAreFull` is what the loop does, `StartsWhenFree` what the docstring says.

What else was met on the way, and is no run of its own:

* The comment of `ResilienceController` (`app/resilience.py:205-206`) says that a generation request
  must not be replayed after an ambiguous timeout, but `_is_retry_safe` (`app/inference.py:127`)
  includes timeouts, which a test (`tests/test_resilience_policy.py:222`) and the delivery report want.
  `RepeatsAreAmbiguous` says what a repetition may repeat.
* `docs/week4/codegen_functional_evaluation.md:18` says that removing the container after a timeout
  leaves no process behind. The script does not look whether `docker rm -f` did
  (`evaluate_codegen_functional.py:119-124`); when it failed the answer's code runs on beside the
  cases after it. `NothingRunsOn` says that a failing docker command is the only way to that.
* `tests/test_week3_health.py:25` is called `test_livez_does_not_depend_on_backend`. `/livez` needs
  a thread of the pool that calls waiting for a backend fill (`app/main.py:83`): three probes that get none
  restart the pod, and its calls are lost. `StaysInService` rules it out only for a pool that does not stay full.

## 4. What is proved

All with TLAPS, for any numbers of workers, jobs, requests and gateways, any batch size,
threshold, number of retries and budget of faults, any workload of the scheduler, any
requests, probes, threads and manifest of the BAGEL service and its scripts, any number of
cases, rows, items, runs and threads of the other programs, and any pool and thresholds of
the pod. Every invariant that a passing run checks is stated by a theorem of this table, and so is every
condition on steps and every refinement.

| Theorem | States | Assumes, beyond the modules' ASSUMEs |
|---|---|---|
| `TypeCorrect` | `JobQueue!TypeOK` | |
| `JobsAreNeverLost` | `NoJobLost` | |
| `LatestLeaseWins` | `OnlyLatestLeaseFinishes` | |
| `FinishedForGood` | `FinishedJobsStay` | |
| `StatusIsTrue` | `VisibleStatusIsTrue` | |
| `AttemptsAreCounted` | `AttemptCountExact` | distinct consumer names |
| `ExecutionIsExclusive` | `NoDuplicateExecution` | distinct names, no overrun |
| `ImplementsPromise` | `Spec => AtLeastOnceQueue!Spec` under the mapping | |
| `GatewayTypes` | `Gateway!TypeOK` | |
| `FailuresAreCounted` | `ClosedMeansFewFailures` | |
| `OneProbe` (Gateway) | `OneProbePerHalfOpen` | |
| `FallbackShields` | `FallbackShieldsClients` | |
| `SharedTypes` | `SharedBreaker!TypeOK` | |
| `TwoKeysAgree` | `KeysAgree` | |
| `OneProbe` (SharedBreaker) | `OneProbeAtATime` | `RetryAttempts < LeaseAttempts` |
| `IsFenced` | `Spec => FencedBreaker!Spec` under the mapping | |
| `TimeIsAccountedFor` | `ClockAccounted` (continuous) | |
| `FirstComeFirstServed` | `ShorterIsNotOvertaken` (continuous) | |
| `LatencyIsPlausible` | `LatencyCoversWork` | |
| `WorkConserving` | `NeverIdleWhileWaiting` | |
| `QueueInvariant` | `JobQueue!IInv` | distinct consumer names |
| `GatewayInvariant`, `SharedInvariant`, `SchedulerInvariant` | the `IInv` of `Gateway`, `SharedBreaker`, `ContinuousBatching` | |
| `SchedulerTypes` | `ContinuousBatching!TypeOK` | |
| `ServiceHolds` | `ServiceSpec => []ServiceInvariant`: the BAGEL service under any clients | |
| `ProgramsAreClients` | `Spec => ServiceSpec`: the two scripts are such clients | |
| `ServiceSafe`, `ServiceTypes`, `NoFileIsStray`, `CalledOnce`, `AnswersAreTrue` | `ServiceInvariant`, `Multimodal!TypeOK`, `NoStrayFile`, `OneCallPerRequest`, `AnswerIsTrue` while the scripts run | |
| `ArchiveHolds`, `MetricsCover` | `BagelWorkload!ArchiveInvariant`, `MetricsCoverRecords` | |
| `CallHolds` | `CallInvariant` | |
| `PodHolds` | `ProbesDoNotPileUp` | |
| `PipelineHolds` | `PipelineInvariant` | |
| `EvaluationHolds` | `EvaluationInvariant` | |
| `SimulationHolds` | `SimulationInvariant`, and `IInv` of the continuous scheduler while `StaticBatching` drives it | |
| `BenchHolds` | `BenchInvariant` | |
| `ProgramsHold` | the seven invariants that `programs` checks at once, for its specification | |

The arguments:

* **Job queue.** `Delivery` holds the shape of the stream: every entry is either ahead of
  the delivery mark or in the pending list, and a worker past its set-up has seen the
  group exist, without which `EnsureGroup` could set the mark back. `Leases` says that a token in a
  worker's hands is a lease on the message it is at, and that a document with that token
  was marked by nobody since; fresh tokens keep it so, and it is what makes the check in
  `_FINALIZE_LUA` a fence even between workers of one name. `SnapshotTrue` is about the two-command operations: a snapshot
  that a script would still write back is not out of date, because the script requires
  the entry to be this consumer's, or the token to be still there. `InHand` adds that
  a batch in hand is the worker's own and not idle as long as nothing overruns; with it two
  live workers cannot be at one message. `IInv` is their conjunction and is also checked
  by TLC. The refinement maps the holder of a lease to `marker`.
* **Gateway.** `Accounts` ties the breaker's counter to what was recorded and its probe
  flag to what was admitted in this half-open period; lemmas about the functions of
  `CircuitBreaker` carry both through every step. `Underway` says what a thread has done
  by the place it is at.
* **Shared breaker.** `PermitsFit`: a permit whose version is still the circuit's also has
  its state and, unless the lease is over, its token, and no two probes share a version.
  For `OneProbeAtATime` the probe in flight must own its lease (`ProbeIsOwner`), which is
  where the assumption on the lease is used. The refinement maps the calls whose results the
  scripts would accept to those entitled in `FencedBreaker`.

* **Continuous scheduler.** `Order`: of two active requests the one admitted first has had
  at least as many steps, so if it asked for no more it is not behind, and it leaves no
  later. `Progress` bounds the clock below by what each active request has been given,
  which becomes the latency bound when it leaves.

* **BAGEL service.** `ServiceInvariant` adds to the three properties what they need: a busy
  thread is at a line that fits its item (`ThreadsFit`), and an item that is new or being
  read has a pending Future, no answer and no place in the queue, while one that waits is not
  cancelled (`HandlersFit`). The first tells which item a thread may leave a file for, the
  second why an item is queued once and a refused one never. It is proved for `ServiceSpec`,
  in which `Receive` may happen at any time, and carried over to the scripts by
  `ProgramsAreClients`.

* **BAGEL scripts.** `RecordsFit`: a case has one record, of a post that was started, and what is
  recorded as a success was answered with 200. `CountsFit`: the service works for posts only, its
  counter of successes is never behind its answers, and nothing is counted before the first
  snapshot. `ArchiveFits`: what was written is still what the script has in hand, because the
  sampler has ended by then. The first two rest on `ServiceInvariant`, which says that an answer
  is given once. `MetricsCover` compares the number of successful records, of different requests,
  with the counter.
* **Text workload and grading.** `TextFits`: the records are those of this run's cases so far, one
  after the other, and their rows are the last ones of the appended file. So the last row of
  a case, which grading takes, is this run's once the run has ended (`GradesThisRun`). `EvalFits`: every case up
  to the present one was graded by that row. `PipelineInvariant` is inductive with both: a container
  that is at work belongs to the present case until `docker rm`, which leaves it starting or
  running only by failing; one it comes too early for is created after it and never started,
  because the client that would ask for that is dead.
* **Evaluations.** A kill leaves any prefix of the buffer, joined to what was in the file.
  `JoinedRows`, `JoinedOnce` and `JoinedWhole` say what is read afterwards: a torn row takes in the one behind
  it and no other, nothing else is lost, and new cases add no second row of an old one. `EvaluationFits` says that a run
  has the cases without a row still to do, and those only, and that its buffer holds
  different cases of the present batch.
* **Simulation.** `SimulationFits`: the clock of static batching is busy or idle time and stands
  where the last batch ended, and that of continuous batching where some request finished. The
  spans of both summaries follow.
* **Benchmarks.** `BenchCore`, `BenchInvariant` without `LoadIsAsAsked`, is inductive, and `LoadIsAsAsked` follows
  from it. `BenchFits`: an item has one row, exactly when it is over, so rows and items are in
  bijection when the output is written (`RowsByItem`) and counts of rows are counts of items; the
  number in flight is bounded by the width of the pool. For the percentiles, `RankExists` shows that the
  i-th of the sorted values is one of them, `AscendingGrows` that they are sorted, and `RankOfPercent` that
  the rank of a percentage is a place in the list and not below that share of it.
* **A vLLM exchange.** `CallFits` ties the place of failure to what vLLM can have done by then.
* **Pod.** `LineFits` counts from the end of the line: behind any place there are at most
  `ReadyzPerLivez` readiness probes, abandoned or not, for each liveness probe, and as many again
  as were sent since the last one; and behind a probe that the kubelet waits for there is none of
  its kind. A liveness probe is only sent when no other is waited for, and joins the line's end,
  so every abandoned one in the line was counted as a failure since a probe was last answered
  (the line is worked off in order, so an answer comes after all before it have left). The
  restart at the threshold then bounds the liveness probes and, by the count, the
  readiness probes, which restart nothing themselves. `PodInvariant` adds the types and the threads.
* **Side by side.** In `MCPrograms` one program steps and the others rest; `IdleHolds` shows that the
  states they rest in satisfy the same invariants, so that the theorem is about reachable
  states of each and the idle ones hide nothing.

Assumptions on constants are the named ASSUMEs of the modules, which TLC evaluates in every run:
counts and times are natural numbers; there is at least one thread, slot, case, item and row of a
batch, and the simulation has at least one request (both policies divide by their number);
thresholds are positive; a manifest names each request once.

Only model-checked: `EveryAcceptedJobFinishes`, `AdmitsAgain` (both),
`EveryRequestIsAnswered` (both), `HealthIsAnswered`, `ScriptEnds`, `ProgramsEnd`,
`StaysInService` and `LeavesService`: liveness under fairness and `ENABLED` are beyond the
prover's reach. The modules with theorems use neither recursion nor RECURSIVE operators:
induction over data is beyond it too, so what the code computes in a loop over a list is
defined by what it leaves (`Joined`, `Ascending`).

## 5. What the models leave out

* Loss of Redis' data: the worker's `_consumer_group_ready` and the circuit's version are
  then stale (`app/job_worker.py:133`, `app/redis_circuit_breaker.py:31`). The deployment runs
  Redis with an append-only file; in the models its data stays.
* Malformed messages and replies (`JobQueueProtocolError`); `enqueue` writes none.
* How long things take, beyond before and after a threshold. That a batch can outlast
  the reclaim threshold is a fault that a run may allow, not a consequence of its length.
* The metrics, but for the counter a script reads. The shared breaker's readers matter only
  when Redis is away (`Observe`).
* Text: prompts, the thinking budget, the extraction of numbers and code from answers, report
  wording and rounding.
* CSV files of `ResumableEvaluation` that lost their header, because they were made by a run
  that was killed before its first flush: the next run takes the first row for a header,
  finds no case completed and evaluates again. `EvaluatedOnce` and `SummaryCoversDataset` say so.

### Not modelled

* Mock and Transformers backends: a delay with a fixed text, and calls into torch.
* Workload routing: a decision table without state; a model of it would be the table again.
* The INT8 RMSNorm kernel: floating-point arithmetic on a GPU.
* Plots, preparation scripts, stand-ins for an upstream used in drills, deployment files: straight-line
  conversions and configuration. The compose file and the Kubernetes manifests were read for how
  processes are named, probed and restarted.

### Order of work

`JobQueue` came first, as the part where most actors meet and most is promised, then
`CircuitBreaker` and `Gateway`, then `SharedBreaker`, each with its abstract specification
where there is one worth stating; then the simulated schedulers, the BAGEL service with its
scripts, and the programs that make evidence. What would add most next is `Gateway` over
`SharedBreaker` (what a client is answered when the breaker is the shared one) and Redis
losing its data.
