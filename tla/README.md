# TLA+ verification of the AIBOM webhook service

The service watches training workloads in a Kubernetes cluster and makes an
"AI bill of materials" (AIBOM) for each of them. This directory holds TLA+
models of the parts of the service in which order, failure and concurrency
matter, TLC configurations that check them on small instances, and proofs that
TLAPS checks for every instance.

## 1. The system

### Components

| Component | Source | State it keeps | Operations |
|---|---|---|---|
| Admission webhook | `internal/webhook/handler.go`, `mutator.go`, `jobguard.go`, `configmapguard.go` | none of its own; it rewrites the admitted object | instruments a pod (env, volumes, init container, sidecar, finalizer), strips reserved labels from Jobs, guards the public-key ConfigMap; fails open |
| Workload identity | `internal/webhook/identity.go` | ServiceAccount, Role, RoleBinding, token Secret, data ConfigMap per workload | create-or-get each in turn while a pod is admitted |
| Job watcher | `internal/watcher/watcher.go` | finalizer, annotations and retry count on the workload's Job; postprocess Job; inputs ConfigMap | `onJobEvent`, `createPostprocessJob`, `collectAIBOM` |
| Pod watcher | `internal/watcher/watcher.go` | the same on bare pods | `onPodEvent` |
| Finalizer clean-up | `internal/watcher/cleanup.go` | none | `StripAllFinalizers` when the chart is removed |
| Names | `internal/aibomdata/aibomdata.go`, `k8s_api.py` | none | truncation and suffixes, duplicated in Go and Python |
| Certificate reloader | `cmd/webhook/certs.go` | cached key pair, modification times | `GetCertificate` |
| Runtime detector | `scripts/aibom-scripts/runtime_detector.py` | detections in memory, two locks, a debounce timer, a file shared by all processes of the pod | a finder on `sys.meta_path` installs hooks as frameworks are imported, hooks record, `_flush` merges into the file, at-exit and SIGTERM handlers, fork handler |
| Dataset sidecar | `scripts/aibom-scripts/dataset_sidecar.py` | modification time of what it last published | `_run_once`, `_publish_final` |
| Kubernetes client of the scripts | `scripts/aibom-scripts/k8s_api.py` | none | `patch_configmap` (patch, create, patch again) |
| Discovery init container | `scripts/aibom-scripts/generate_snapshot.py` | none | stages with deadlines: hardware facts, ConfigMap name, signature, model storage, one merge patch |
| Postprocess Job | `postprocess/postprocess.py` | none across attempts; AIBOM and series objects in the cluster | loads the inputs, detects the checkout, collects statistics (with retries) and series, compiles, stores the series, signs, creates the AIBOM, sets the owner |
| Entry point, configuration | `cmd/webhook/main.go`, `internal/config` | none | start-up |

### How they interact

A pod is admitted: the webhook instruments it and makes sure that the
workload's identity exists. In the pod the discovery container and the sidecar
write entries into the workload's *data ConfigMap* with that identity; the
sidecar's input is the file that the runtime detector writes from inside the
training processes. The Job watcher puts a *finalizer* on a running Job that
qualifies. When the Job finishes or is deleted, the watcher copies the pods'
entries into an *inputs ConfigMap*, creates the *postprocess Job* that mounts
it, marks the workload's Job with an annotation and takes the finalizer off.
The postprocess Job creates the AIBOM. When it has ended, the watcher marks it
collected, deletes the workload's data and identity, and then the postprocess
Job and its inputs (if it succeeded) or tells the owner with an event (if it
failed).

All of these objects are named after the workload. A workload that is run again
under the same name shares every one of them with its previous run; only the
Job's UID tells the two apart.

### What is hard

* Names repeat: any call that names an object may reach the next run's object.
* The handler reads snapshots and a cache that lag behind the API server.
* Every call may fail, and most errors are logged and passed over.
* The watcher may die between any two calls.
* A finalizer that is never removed blocks the deletion of the user's Job.
* In the pod, threads, a signal handler, forked children and processes that are
  killed share two locks, one `flock` and one file.

`PROJECT.json` lists these hazards at the lines where they bite, with the
properties that cover them.

### What makes each component correct

* Job watcher: a postprocess Job only ever sees its own run's inputs; the
  finalizer is kept until the postprocess Job exists and always comes off in
  the end; a run that got a postprocess Job ends in an AIBOM or a warning.
* Runtime detector: no process drops a dataset or a key that another wrote (of
  a key's values the last writer's stays); the git keys in the file are one
  observation; exit and termination always end; no framework is
  used without its hook, and no import waits forever for one.
* Dataset sidecar: what is on disk when the pod stops is what is published.
* Workload identity: a pod that was admitted can write until its run is over.
* Discovery init container: its pod starts whatever fails; a signature is that of
  the payload beside it, also when it runs again.
* Postprocess Job: the AIBOM describes one checkout and the worst that happened;
  what it refers to exists; it ends, succeeds only with an AIBOM, and leaves
  something over only where something failed.
* Names: distinct workloads have distinct names, in Go and in Python alike.
* Pod watcher, clean-up: as the Job watcher; no finalizer survives the chart.

## 2. Plan

1. `Watcher`, `MCWatcher`, `WatcherProofs`: the Job watcher. Done.
2. The data path in the pod: `OutputFile` (what the file promises),
   `RuntimeDetector` (implements it), `DatasetSidecar` (relies on it), with
   their MC modules and proofs. Done.
3. The path from discovery to the AIBOM: `Discovery`, `Provenance`, `Execution`,
   `SeriesFit`, composed in `Postprocess`, with `MCPostprocess`,
   `DiscoveryProofs`, `PostprocessProofs` (requests, failures and results),
   `TelemetryProofs` (what is collected and reported) and `ReportProofs` (the
   lemmas about the algorithms). Done.
4. The detector's way into a process: `ImportHooks`, composed with
   `RuntimeDetector` in `DetectorHooks`, with `MCDetectorHooks` and
   `DetectorHooksProofs`. Done.
5. `WorkloadIdentity`: the five objects, created by admissions and deleted by
   the watcher, one call at a time.
6. `PodWatcher` and `Finalizers`: the second goroutine and the clean-up hook.
7. Algorithms: names, `mergeDatasets`, which pods the webhook instruments, each
   against a reference definition.
8. `CertReloader`.
9. More theorems: the safety invariants of the modules of 5 and 6.

## 3. The modules and the code

`PROJECT.json` ("map") names the lines of every definition.

### Watcher: the Job watcher

One workload name is modelled, and the runs under it are numbered; a run's
number is its Job's UID. Every object that the code names after the workload is
one variable which the runs share: `job`, `identity`, `data` (the data
ConfigMap: the set of runs with entries), `pp` (the postprocess Job, with the
UID it was created for), `inputs` (the inputs ConfigMap: the run it was written
for, whose data it holds, and whether its owner still exists), `aiboms`.

The informer is `watch` (changes on their way), `cache` and `queue` (events on
their way to the handler). `Deliver` moves a change from `watch` into the cache
and the queue, `Resync` queues every cached object again, `Crash` loses all of
it and `Restart` lists what exists. Patches that change nothing make no event.

The handler is one record `h`: a program counter and the local variables of
`onJobEvent`, `createPostprocessJob` and `collectAIBOM`, of which at most one is
active, since a shared informer calls its handler from one goroutine. Each call
to the API server is one action named after the step of the code
(`AddFinalizer`, `ExistingPostprocessJob`, `WriteInputs`, `CreatePP`,
`Annotate`, `MarkCollected`, ...). `Outcome(call, ok)` lets a call fail;
what the code does with the error (ignore, return, retry later) is in the
action. Patches carry no UID in the code, so they hit whatever `job` is then.

Users create and delete Jobs, Jobs finish, pods start and write, a namespace
opts out and in, postprocess Jobs run and expire, the garbage collector
collects: actions without fairness, except for the postprocess Job's end and
expiry.

Abstracted: JobSets (a Job's siblings share an AIBOM), what a pod's data is and
whether its signature verifies, the contents of the AIBOM except whose data it
holds.

### OutputFile, RuntimeDetector: the shared file

`OutputFile` is the promise: a listing to which a write may only add.
`RuntimeDetector` implements it with `Listing(file)`: the datasets, and which
keys from argv there are.

`RuntimeDetector` has for every process its life, its module state
(`mem`: `_detected_datasets`; `info`: `_runtime_info`; `captured`, `armed`), the
holders of `_lock` and `_flush_timer_lock`, and for each of its threads a
program counter and the local variables of `_flush`. `flock` is the set of
processes with a locked open lock file: a lock survives in a forked child, as
it does in Linux. `file` is the output file.

The main thread records (`Record`, `RecordEntry`, `Notify`, `Arm`), forks and exits;
timer threads are started by `Fire`; both flush: `Args`, `Check`, `GitNone` or
`GitObserve`, `GitLock`, `GitUpdate`, then `Copy`, `Flock` (or
`FlockTimeout`), `Read`, `Replace`, `Close`, `Done`. `Sigterm` moves the main
thread to the start of a flush wherever it is, and what it held stays held.
Acquisitions with a timeout (`CanRead` in a signal handler, `Notify`,
`FlockTimeout`) go on without the lock; the others wait.

A timeout is untimed: `FlockTimeout` is possible when a holder does nothing
that would end its hold, or when the constant `SlowHolder` says that a holder
may be slower than the timeout.

`runtime_info` maps each key to a value: of a git key the tree it was observed
in, of a key from argv what `Argv` gives the process, and `{}` if the key is not
there. `_merge_output` is a union of datasets; of `runtime_info` the last
writer wins per key (`Updated`, `dict.update`), so that one process's epochs may
replace another's, except that a writer with any git key replaces all of them.

Abstracted: how each framework hook recognises a dataset; a dataset entry is
its identity (`_dataset_identity`), so what a repeated entry adds to the
stored one is not seen, and one dataset that two processes detect counts as two.
The keys that hooks set are merged as those from argv are, and have no action of
their own. HEAD does not move while the processes run. An existing file can be
read (`:679-684` would take an error for an empty file; the file is only ever
replaced as a whole), and its replacement does not fail (`:698` would end the
flush).

### ImportHooks, DetectorHooks: from an import to a hook

`ImportHooks` has `sys.meta_path`, `sys.modules`, the finder's `_pending` and,
for each thread, a stack of imports: what a module or a hook imports is a frame
on top of its own. CPython's part of an import is external, and modelled as in
its `importlib._bootstrap`: `Enter` takes the module's lock, `find_spec` asks one
entry of `sys.meta_path` by its index, `Load` looks up `exec_module`, `Bind`
ends the load. The detector's part is the entry `"detector"` of the list, which
wraps the loader of a pending framework, `Executed` and `ExecRaises` (the
wrapper, its `finally` included), `_claim`, `Pop` and `Hook` (`fire`). A loader
is new for each spec, and a wrapper on it belongs to the frame (`chain`); the
modules of an `Archive` share one loader, whose wrappers are `shared`: taking the
attribute off takes all of them off. `Probe` is `importlib.util.find_spec`, which
wraps and loads nothing. A module, a hook or a model load may raise; the code
around a failed import catches the exception, passes it on or tries again.

`_patched_from_pretrained`, `LoadFails` and `LoadEnds` are the transformers
hook's claim on the process's first model, with nested loads.

`DetectorHooks` puts both modules into one process: data is recorded through
hooks. Its bound `Settled` keeps the two halves from multiplying: data is used
when all imports are over and nothing has raised, in which state the halves
share no more than `_lock`, which no import waits for.

Abstracted: modules that import each other in a circle, finders that ask the
detector's finder back (`_resolving`), loaders that cannot be wrapped, what an
entry of a hook contains.

### DatasetSidecar: publication

For each pod: the file (an instance of `OutputFile` whose writes also give it a
new modification time), whether the main containers have exited, whether the
sidecar got SIGTERM, and `main`'s, `_publish_final`'s and `_run_once`'s
variables. The data ConfigMap has one entry per pod. `Stat` and `Read` are
separate looks at the file; `Patch`, `Create` and `PatchAgain` are the requests
of `patch_configmap`. A request may fail before or after it took effect.
`stored` is history: the payload of the last pass that succeeded.

Abstracted: the signature (a function of the payload). The file is never
half-written, which is what `RuntimeDetector`'s `Replace` (rename) gives.

### Discovery: the init containers

For each pod `snap` is the script's place and variables, and `data` its keys in
the data ConfigMap. A payload is the number of the execution that made it and a
signature the number it was made of, so a signature that does not belong is
visible. Every part of the script is an action: `Snapshot` (the commands, any of
which may leave the text "Not available" behind), `ResolveName`, `Sign`,
`resolve_inference_service_storage`, `read_model_source_files`, `SignStorage`,
`Write`. `Stage` is `_run_stage`: a result, or none after an exception or the
deadline, and the script goes on. The kubelet may run the container again
(`Again`), the InferenceService may be deleted and the key may appear at any time.

### Provenance, Execution, SeriesFit: the algorithms

Operators and no state, written as the code is: `Provenance` follows `cd`,
`git clone` and `git checkout` through a script, reads the labels of images, and
ranks and merges the four sources; `Execution` reduces the containers' ends to
the status of a pod and of the workload, and computes the windows; `SeriesFit`
makes the series document fit. Strings are tokens: `Abbrev` says which commits
abbreviate which, `NormalRepo` which spellings name one repository, a path is a
sequence of names. A point of a series is its place on the grid, since what is
done with the document depends on how many points there are and where. An exit
code is 0 if and only if the reason is "Completed".

`Provenance` ends with what the script analysis is compared with: a shell that
follows directories by their paths (`Shell`, `ShellCheckout`).

### Postprocess: the Job

`main` as one process: `pc`, `run` (what it detected and collected), `aibom`,
`ref` and `sig` (the draft). `Detect`, then per pod `BeginPod` or `SkipPod`,
`Query` for each metric, `EndRound` (the retry), `EndLoop` (statistics of use,
then of serving), `BeginSeries`, `QuerySeries`, `Fit`, `Compile`, and the
requests `Publish`, `sign_aibom`, `PublishKey`, `CreateAibom`, `SetOwner`. The
cluster is `series`, `owner`, `aiboms` and `anchor`, one object per attempt,
since their names are random or generated. A request takes effect and is
answered, or fails before or after it took effect. `Exit` is the end of a
process: the Job starts the next one (`StartAttempt`) until one succeeds or too
many have failed, and `Crash` ends it anywhere. `Ingest` is Prometheus, which
has a scrape some time after it happened, and later ones not before earlier
ones. Time advances in scrape intervals when the code looks at the clock.

Queries look back from the moments of their grid (`Computed`). For the
statistics (`Points`) the moments are all those of the window, a gauge is its
latest scrape and a counter's rate needs two scrapes within `RateWindow`. For
the series (`Line`) the moments are the step apart; a gauge looks back over the
step (`{win}`), so that its points tile the run, but a rate looks back over
`[5m]` whatever the step is (`Width`). A long step thus leaves scrapes of
counters between the windows.
`discoveries` joins the two halves: the watcher passes on the entries that
verify.

Abstracted: the statistics have a moment for each scrape interval (the code's
step is 15 s, or a thousandth of the window, from which it sees no more);
Prometheus looks as far back for a gauge as for a rate (its default); a rate that
is not a number (a histogram with no new requests) counts as a rate; what the
statistics compute from their points, the recognition of
models and datasets, the registry's protocol (labels are read or not), all other
fields of the AIBOM. The watcher's reads of the ConfigMap and of the key do not
fail here (they are calls of `Watcher`). Every pod has a UID and a start time,
which its discovery entry always contains, so `collect_telemetry` skips none for
want of them (`:2267-2269`, `:2280-2282`), and no exception ends a whole loop
(`:3513-3530`); no property depends on these.

## 4. What is checked

| Run | Instance | Checks |
|---|---|---|
| `rerun` | two runs, the second qualified by an annotation; one failure of any call except the list of postprocess Jobs and the write of the inputs | `RunningHasInputs`, `RunningInputsBelong`, `InputsInv`, `RunningInputsFrozen` |
| `restart` | one run, one failure, one crash | `TypeOK`, `HeldUntilStarted`, `FinishedIsStarted`, `StartedIsResolved` |
| `rerun_liveness` | two runs, the second one's postprocess Job always refused, the namespace opts out once | `FinalizerReleased`, `OptOutReleases` |
| `shared_file` | two processes in two trees, one timer each, with different epochs in their argv and a learning rate in one; one is in a detached checkout, the other may get SIGTERM or be killed at any point | `FileOnlyGrows`, `FlockInv`, `GitOneObservation`, `ExitedIsFlushed` |
| `durable` | one process; two threads import two frameworks and a helper, three model loads, two of these raise; then two datasets, two timers, SIGTERM at any point | `BoundIsHooked`, `ImportsEnd`, `FirstModelKept`, `RecordedIsWritten`, `ExitCompletes` |
| `exit_forked` | a process and the child it forks, slow holders of the flock | `ExitCompletes` |
| `sidecar_publishes` | two pods, three writes, one failure, one deletion of the ConfigMap | `FinalIsPublished`, `PublishInv`, `SiblingsKept`, `ListedIsPublished` |
| `postprocess` | two pods, two attempts, two executions of an init container, families of inputs (below) | `TypeOK`, `EntriesVerify`, `PodsStart`, `CloneFollowsScript`, `OneCheckout`, `StatusIsWorst`, `WindowsWithinRun`, `RetriedUntilFound`, `SeriesSeesStats`, `FitSound`, `RefStored`, `LeftoversCostFaults`, `JobEnds`, `JobTellsTruth` |

Every property has a mutant of the code that breaks it (`PROJECT.json`,
"mutants").

### Where the code does something else than it says

Four runs state what a comment says, and TLC finds a behaviour of the code
that contradicts it:

* `stale_event`: an event of a first run that is handled after a rerun with the
  same name exists marks the *rerun's* Job as postprocessed. The rerun gets no
  AIBOM. (The patches name the Job and not its UID.)
* `signal_lock`: SIGTERM while the main thread holds `_lock`, in a git
  checkout: `_capture_git_provenance` waits for `_lock` in the signal handler,
  although `_flush` takes care not to. The process hangs until it is killed.
* `fork_flock`: a child forked while the timer thread is inside
  `_output_lock` keeps the flock; every later flush in the pod times out, and
  the parent exits with detections that are not in the file.
* `undiscovered_pod`: the status of the workload is rolled up over the pods that
  have a discovery entry. A pod that was killed for its memory, and whose entry
  could not be written or does not verify, is in no status, although
  `containers.json` says how it ended.

The same models show, with other constants, behaviours for which no run is
kept; the hazards of `PROJECT.json` describe them: a failed list of postprocess
Jobs lets a rerun overwrite a running postprocess Job's inputs; a failed write
of the inputs leaves a postprocess Job that never starts and reruns that wait
for it forever; retries do not wait for the resync; the collection of one run
deletes the identity of a rerun that started in the meantime; a child forked
into another working tree mixes two trees' git keys; SIGTERM during the at-exit
flush loses that flush; a discovery command that timed out makes every attempt
of the postprocess Job fail; an AIBOM whose create was answered with an error
may exist, and its series object is then called orphaned; after the grid of a
series document was made coarser, only the longest aggregate is sure to have
`SERIES_MIN_POINTS` points.

### Bounds

* Two runs are enough for one to meet the leavings of another; a third would
  meet the second's in the same way, since no object remembers more than one
  run. `maxPostprocessRetries` is 2 (5 in the code): an attempt that may be
  repeated and a last one.
* `MaxPending` bounds the events under way before *users* act again; the
  watcher's own patches are never held back. With 1 a user's change can still
  meet the events of the watcher's patches.
* One failure and one crash: the code keeps no state by which a second one
  could differ, except the retry count, which `Barred` (a create that is always
  refused) exhausts.
* `Writing` (runs whose pods store data) is empty where no property is about
  data.
* Two processes, with a timer thread each, contain every pair of actors:
  main/timer, main/main, timer/timer across processes, parent/child.
  `durable` has two timer threads, so that one can fire while another flushes.
  In `shared_file` the two trees have different sets of git keys: the first has
  no branch, and the second no dirty flag if the signal handler looked.
  (`git status` fails nowhere there, `StatusFails`; a third partial set adds
  nothing.) One argv key is given by both processes, one by the first only.
* `durable`'s two importing threads meet on both frameworks: one is imported
  from a helper module, from the other one's hook and by the second thread.
  With the second framework imported the finder leaves `sys.meta_path`. The
  archive holds one framework: with two, `BoundIsHooked` fails, as the hazard at
  `runtime_detector.py:1346` says. Two faults, so that a load can fail inside
  one that fails.
* Two pods contain the create race; `FINAL_PUBLISH_ATTEMPTS` is 2 (4 in the
  code), a first and a last attempt. With three writes one file changes while
  its sidecar publishes.

* `postprocess` chooses its input from families, each of which varies one part
  and keeps the rest, since the parts do not interact: every script of a clone
  and up to three commands; combinations of what the four sources say; images
  with different labels, one unread; how three containers of two pods ended;
  late telemetry of pods that overlap, follow each other or never end; long runs,
  whose step is two or three scrape intervals; failures and crashes around the writes (three of them, so that a second attempt meets
  one too); documents below, at and above the size limit, with gaps; discovery
  that fails or runs again. `Horizon` is 11 scrape intervals: a run of 5 leaves a
  grid of which every factor up to 3 can be tried, and one of 11 a step of 3.
  `RateWindow` is 3 (10 in the code): two scrapes side by side, two with a gap
  and two that no window has; a step below it, in which the series must have the
  statistics' rates, and a step as long as it, in which it need not. `TELEMETRY_RETRY_ATTEMPTS` is
  2 (3 in the code), `BackoffLimit` 1 (3): a first and a last one.

`CHECK_DEADLOCK FALSE` is set everywhere: the systems may come to rest, when
all runs are over, all processes have exited or all sidecars have ended. Waiting
that should not last is checked as liveness instead.

### Fairness

* `Watcher`: weak fairness of the handler, the informers, the restart (a
  Deployment), the end of a postprocess Job whose pod can start (its
  `backoffLimit`), and the TTL controller. None for users, pods, Jobs or the
  garbage collector.
* `RuntimeDetector`: weak fairness of each thread once it has begun something,
  and of a pending timer. None for recording, forking, exiting or signals.
  In `DetectorHooks` also of an import and of a model load that have begun; an
  import statement need not be reached.
* `DatasetSidecar`: weak fairness of each sidecar's steps; the failures are
  bounded, the writers need not write.
* `Postprocess`: weak fairness of each init container, whose stages have
  deadlines (`SIGALRM`), and of the process's requests, which have timeouts.
  What the process computes between requests ends: `[]<>(pc # c)` for the stages
  that only compute, or only ask the queries of a finite list. None for crashes,
  users, Prometheus or the garbage collector.

## 5. What is proved

TLAPS checks these for every value of the constants that satisfies the
`ASSUME`s of the modules. Most of them only type the constants; those that say
more are `AbbrevAssumption` (what abbreviates the same commit are prefixes of
it), `HostAssumption` (the imports are those of one process), the bounds of
`SeriesAssumption`, and `InputOK`: the containers of a pod agree on their Job, a
scrape is later than its pod's start, `git clone` has a repository, and the
commit that the detector read in `.git` is a full one, which abbreviates
nothing. TLC evaluates all of them on the runs. A theorem that needs more names
it as its hypothesis.

### The Job watcher (`WatcherProofs`)

* `TypeCorrect`: `Spec => []TypeOK`.
* `InputsBelong`: if the list of postprocess Jobs and the write of the inputs do
  not fail, a running postprocess Job never mounts another run's inputs, and no
  step rewrites those it mounts. `RunningInputsBelong` is not inductive: the
  handler could create a Job over foreign inputs. `InputsInv` adds that, from
  the check of `existingPostprocessJob` to the create, no postprocess Job runs,
  and that after the write the inputs are the handler's own run's or none. The
  two assumptions are needed: TLC refutes the property without the first.
* `HasInputs`: while no call has failed and the watcher has not crashed, a
  running postprocess Job's inputs exist and are its run's. `CleanInv` says why
  the deletes by name cannot hit them: a postprocess Job that has finished is
  always on its way to the handler (in `watch`, in `queue`, or being collected),
  so nothing but the handler removes it, and the handler starts nothing new
  before it has removed the inputs too. With `DebugKeep` the Job outlives its
  collection, and the garbage collector may remove inputs that a rerun has
  rewritten; so it may after a crash. Both are hypotheses for that reason.
* `HeldBack`: `Spec => HeldUntilStarted` for a name that has one run, whatever
  call but the list of the pods fails and wherever the watcher crashes. Each
  hypothesis is needed: with a second run, an event of the first may take the
  finalizer off (`stale_event` shows such an event); a namespace that opts out
  and in again does so between the handler's decision and its call; and a failed
  list counts as "does not qualify". The handler decides on a snapshot, so the
  proof is about the copies of the Job in the informer. `SnapInv`: what one says
  of the run stays true. `ExcuseInv`: on the way to the removal the handler has
  one of the three reasons, for good. `CountsInv`: every copy's retry count is
  the Job's or one less, and they come in their order, so that the count written
  back from a copy is never lower than the Job's.

### The runtime detector (`RuntimeDetectorProofs`, `DetectorHooksProofs`)

* `OneWriter`: `Spec => []FlockInv`: a thread inside `_output_lock` is the only
  one, in a process that has the flock, and what it read is still in the file. A
  lock held by a child or left by an interrupted flush excludes others but lets
  nobody in; that is why the invariant ties being inside to the flock in one
  direction only.
* `FileGrows`: `Spec => FileOnlyGrows`, that is, `RuntimeDetector` implements
  `OutputFile` under `listed <- Listing(file)`: whatever the processes' argv, no
  dataset and no argv key is lost. It says nothing of a key's value, which is the
  last writer's. From `OneWriter` and the lemma that `_merge_output` lists what
  either of its arguments lists.
* `OneObservation`: the git keys in the file are one observation, if no process
  is forked into another tree than its parent's (`ForksShareTree`; without it a
  child keeps keys of the parent's tree that its own tree does not have).
  `GitInv` says that what a process has in memory, what each of its threads
  carries and what it has copied are of its own tree; the merge replaces all git
  keys or none.
* `ExitFlushed`: an exited process's datasets are in the file, and so are its argv
  keys, with its own values or with those of a process that wrote later, if nothing
  forks and no holder of the flock is slower than the timeouts (`WithoutForks`;
  `fork_flock` refutes it with a fork). `ExitInv` follows the at-exit flush: who
  has the flock is inside or has been killed, so that the flush is not given
  up, and what it copied is everything recorded before.
* `AllHooked`: no framework is bound before its hook ran, for any threads,
  module graphs, scripts and failures, if at most one framework comes from a
  shared loader (`OneShared`; the hazard at `runtime_detector.py:1346`).
  `HooksInv`: a framework is pending until its hook runs, and while one is
  pending the finder is asked first; and for each frame of each thread's stack
  whose framework has no hook yet, the finder is still to be asked, or the
  loader is wrapped, until the hook has run.
* `FirstModel`: the model on record is never replaced. By `ModelInv` only the
  outermost of the nested loads can have the claim, and only while no model is
  on record.

### The dataset sidecar (`DatasetSidecarProofs`)

* `Published`: `Spec => [](FinalIsPublished /\ PublishInv)`. A recorded time
  that is still the file's means that the file is published; it holds because a
  pass records the time it saw *before* it read the file, so that a write in
  between leaves a time that is out of date.
* `Siblings`: no request of a sidecar touches another pod's entry. The one
  request that replaces the whole ConfigMap, the create, takes effect only when
  there is none, and one that does not exist has no entries (`AbsentHasNone`).

### Discovery (`DiscoveryProofs`)

* `SignaturesMatch`: `Spec => []EntriesVerify`. A merge patch leaves a key alone
  that it does not name, so an execution that did not sign would leave an old
  signature beside its payload. `SignedInv` says why it does not happen: the key
  does not go away, so a process that finds a signature in the ConfigMap has a
  key itself and signs.

### The postprocess Job (`PostprocessProofs`, `TelemetryProofs`, `ReportProofs`)

* `ReferencesHold`: `Spec => []RefStored`, for any inputs and any failures. The
  invariant `RefInv` follows a reference from the store to the AIBOM: the
  objects of attempts to come are not written (`Unwritten`), a draft that has a
  reference belongs to this attempt, whose object is stored with that digest
  (`DraftStored`), and only an AIBOM that is deleted gives its series to the
  collector, because an object's owner is the AIBOM that refers to it
  (`AibomStored`).
* `JobTruth` and `LeftoversPaid`: the Job succeeds only with an AIBOM, and fails
  only after as many failures as it had processes (or with an input that cannot
  be compiled); and there are never more AIBOMs, orphaned series and unpublished
  keys than there were failures. Both count: `CountInv` says that every process
  that ended met a failure, and `LeftInv` adds up what is left over against what
  was paid for, with one more that is allowed to the process which is about to
  succeed or has. Their hypothesis `NoneIsNoObject` says that the value for "no
  AIBOM" is none of the records that stand for one.
* `Retried`, `Status`, `Covered`, `SeriesHasStats`, `FitIsSound`,
  `PostprocessTypeOK`: the properties of what is collected and reported. `Place`
  and `TeleInv` say what each pod's collection has asked for so far, `Reported`
  that the AIBOM is what is compiled from it, `GridInv` which scrapes the lines
  of the series have, and `FitInv` that the stored document is the one that was
  fitted. `Covered` needs the nodes' clocks to agree so far that no container
  ends before its pod starts (`ClocksAgree`): otherwise a window ends before it
  begins. `SeriesHasStats` claims for gauges that every value is in
  the series, whatever the step; for counters only that two scrapes are when
  their distance and the step together are at most `RateWindow`. With a longer
  step (runs of more than about 15 hours, with 200 points and a scrape every
  30 s) the claim would be false, and TLC refutes it. It is arithmetic: the
  windows of the statistics lie in the series' window, and every scrape of one
  lies behind a place of the grid, less than a step before it. That
  the longest line of `FitIsSound` keeps `SERIES_MIN_POINTS` points is a
  pigeonhole argument: a bucket holds no more points than the factor.
* `OneSource`: `Spec => []OneCheckout`. The sources are compared two at a time,
  and agreeing is not transitive: two commits of which a third is an
  abbreviation need not agree with each other. It holds because the detector's
  commit is full, so that what agrees with it agrees among itself
  (`AbbrevAssumption`), and because a clone always names its repository, so that
  an image is looked at only when what came before left commit or repository
  open. `Ranked` keeps what was detected until it is reported.
* `NamesSuffice`: `Spec => []CloneFollowsScript`: for plain scripts of any
  length, matching directories by their last names finds the checkout that a
  shell is in. `Follows` relates what the analysis knows after each command to
  what the shell knows, command by command: the same clones in the same order,
  and a directory whose last name is a clone's if and only if it is that clone's
  directory.

Recursive functions over sequences (`Ran`, `normpath`, `Among`, ...) are proved
about by least counterexample: a set of naturals has a least element, which is
a theorem of `ReportProofs` about sets and needs no induction over an operator.

## 6. What is only model-checked, and what is not modelled

Liveness under fairness is left to TLC: `FinishedIsStarted`,
`StartedIsResolved`, `FinalizerReleased`, `OptOutReleases`, `RecordedIsWritten`,
`ExitCompletes`, `ImportsEnd`, `ListedIsPublished`, `PodsStart`, `JobEnds`. Every
invariant and every other action property of the runs has a theorem, under the
hypotheses that section 5 names.

Some branches of modelled code are left out, where a read or a write of a local
file fails: `sign_payload` with a mounted key that cannot be read
(`generate_snapshot.py:309`; a second execution would then leave the first one's
signature beside its own payload, and the watcher would refuse the entry, so
`EntriesVerify` rests on this), the reads and the write of `_flush`
(`runtime_detector.py:679-684`, `:698`), the sidecar's reads other than of a
missing file (`dataset_sidecar.py`, `_read_output_file`), and its branch for a
missing environment (`:144-146`), which the webhook always sets; and the loaders
that `_wrap_loader` cannot wrap (`runtime_detector.py:1341-1343`, `:1363-1364`).
The excuses of `StartedIsResolved` (a crash, or an event that fails, after the
postprocess Job is marked collected) and the one crash-free run of
`OptOutReleases` are noted with their hazards in `PROJECT.json`.

Not modelled: the admission handler and the guards, the pod watcher, the
finalizer clean-up, the objects of the workload identity one by one, the names,
the certificate reloader (see the plan); in the postprocess Job, the parsing of
commands into tokens, the recognition of models, datasets and quantization, the
statistics' arithmetic and the fields of the AIBOM that only copy what was
detected (pure functions of text, on which nothing that is done next depends);
the entry point and the charts (I/O and configuration
with no protocol of their own); clocks (a timeout, a TTL or a debounce is a step
that may happen).
