------------------------------ MODULE Watcher ------------------------------
(***************************************************************************)
(* The Job watcher (internal/watcher/watcher.go): one goroutine handles    *)
(* the Job informer's events in order, each call it makes to the API       *)
(* server is one step, and the cluster moves between any two steps.        *)
(*                                                                         *)
(* One workload name is modelled.  Its successive runs are the numbers     *)
(* 1 .. MaxRuns, a run's number being its Job's UID; 0 is "no object".     *)
(* Everything the code names after the workload (its Job, its data         *)
(* ConfigMap, its identity, its postprocess Job and the inputs ConfigMap)  *)
(* is one variable that the runs share, as they share it in the cluster.   *)
(***************************************************************************)
EXTENDS Integers, Sequences

CONSTANTS
  MaxRuns,               \* bound: Jobs ever created under the name
  Gpu,                   \* runs whose pods request nvidia.com/gpu
  Annotated,             \* runs whose Job carries an aibom.io/ annotation
  Writing,               \* runs whose pods store data
  maxPostprocessRetries,
  DebugKeep,             \* Config.DebugKeepPostprocessJobs
  Faults,                \* API calls that may fail now and then
  Barred,                \* runs whose postprocess Job is always refused
  MaxFaults,             \* bound: transient failures
  MaxCrashes,            \* bound: watcher crashes
  MaxToggles,            \* bound: changes of the namespace's enabled label
  MaxPending             \* bound: undelivered events before the users wait

Runs == 1 .. MaxRuns

Calls == {"list_pods", "add_fin", "remove_fin", "retries", "list_pp",
          "del_pp", "del_inputs", "read_data", "write_inputs", "create_pp",
          "own", "annotate", "mark", "del_data", "del_ident", "event", "run",
          "signing_key"}

ASSUME ConstantsAssumption ==
  /\ MaxRuns \in Nat \ {0}
  /\ Gpu \subseteq Runs
  /\ Annotated \subseteq Runs
  /\ Writing \subseteq Runs
  /\ maxPostprocessRetries \in Nat \ {0}
  /\ DebugKeep \in BOOLEAN
  /\ Faults \subseteq Calls
  /\ Barred \subseteq Runs
  /\ MaxFaults \in Nat
  /\ MaxCrashes \in Nat
  /\ MaxToggles \in Nat
  /\ MaxPending \in Nat \ {0}

VARIABLES
  \* Objects in the API server
  job,        \* the Job that holds the workload's name
  last,       \* UIDs handed out so far
  pods,       \* runs with a pod the instrumented-pods selector lists
  identity,   \* the workload's ServiceAccount, RBAC and token exist
  data,       \* runs with entries in the workload's data ConfigMap
  pp,         \* the postprocess Job that holds the derived name
  inputs,     \* the inputs ConfigMap it mounts
  aiboms,     \* AIBOM objects
  signingKey, \* the namespace's Ed25519 signing key exists
  nsLabel,    \* the namespace carries aibom.io/enabled=true
  \* The watcher process
  up,         \* it runs
  nsCache,    \* what its Namespace lister answers
  watch,      \* Job changes the informer has not read yet
  cache,      \* the Job informer's cache
  queue,      \* events its cache has seen and the handler has not
  h,          \* the handler: its program counter and local variables
  \* Budgets and history
  faults, crashes, toggles,
  started,    \* runs a postprocess Job was created for
  warned      \* runs whose owner got the AIBOMPostprocessFailed event

workload == <<job, last, pods>>
shared   == <<identity, data>>
post     == <<pp, inputs, aiboms, signingKey>>
ns       == <<nsLabel, nsCache, toggles>>
informer == <<cache, queue>>
process  == <<up, crashes>>
history  == <<started, warned>>
vars == <<workload, shared, post, ns, watch, informer, process, h, faults,
          history>>

-----------------------------------------------------------------------------
(* Types *)

JobObj == [uid: 0 .. MaxRuns, finished: BOOLEAN, deleting: BOOLEAN,
           fin: BOOLEAN,        \* finalizerName is present
           ann: BOOLEAN,        \* AnnotationPostprocess is set
           retries: Nat]        \* AnnotationPostprocessRetries
NoJob == [uid |-> 0, finished |-> FALSE, deleting |-> FALSE, fin |-> FALSE,
          ann |-> FALSE, retries |-> 0]

PPObj == [uid: 0 .. MaxRuns,    \* AnnotationPostprocessTriggerUID
          result: {"", "Complete", "Failed"}, collected: BOOLEAN]
NoPP == [uid |-> 0, result |-> "", collected |-> FALSE]

InputsObj == [by: 0 .. MaxRuns,  \* the run it was last written for
              data: SUBSET Runs, \* whose data it holds
              owner: {"none", "live", "dead"}]
NoInputs == [by |-> 0, data |-> {}, owner |-> "none"]

Event == [kind: {"job", "pp"}, job: JobObj, pp: PPObj, gone: BOOLEAN]

PCs == {"idle", "qualifyA", "addFinalizer", "qualifyB", "listPods",
        "existing", "delStalePP", "delStaleInputs", "build", "writeInputs",
        "signingKey", "create", "own", "annotate", "setRetries", "deleteIdentity",
        "removeFinalizer", "mark", "delData", "delIdentity", "failedEvent",
        "delPP", "delInputs"}

Handler == [pc: PCs, job: JobObj, pp: PPObj, pods: SUBSET Runs,
            data: SUBSET Runs]
Idle == [pc |-> "idle", job |-> NoJob, pp |-> NoPP, pods |-> {}, data |-> {}]

\* The variables have their types.
TypeOK ==
  /\ job \in JobObj /\ last \in 0 .. MaxRuns /\ pods \in SUBSET Runs
  /\ identity \in BOOLEAN /\ data \in SUBSET Runs
  /\ pp \in PPObj /\ inputs \in InputsObj
  /\ aiboms \in SUBSET [run: Runs, data: SUBSET Runs, signed: BOOLEAN]
  /\ signingKey \in BOOLEAN
  /\ nsLabel \in BOOLEAN /\ nsCache \in {"unknown", "enabled", "disabled"}
  /\ up \in BOOLEAN /\ watch \in Seq(Event) /\ queue \in Seq(Event)
  /\ cache \in [job: JobObj, pp: PPObj] /\ h \in Handler
  /\ faults \in Nat /\ crashes \in Nat /\ toggles \in Nat
  /\ started \in SUBSET (0 .. MaxRuns) /\ warned \in SUBSET (0 .. MaxRuns)

-----------------------------------------------------------------------------
(* The API server, as the watcher's calls see it *)

JobEvent(o, gone) == [kind |-> "job", job |-> o, pp |-> NoPP, gone |-> gone]
PPEvent(o, gone)  == [kind |-> "pp", job |-> NoJob, pp |-> o, gone |-> gone]

\* A patch that changes nothing produces no watch event.
SetJob(o) ==
  /\ job' = o
  /\ watch' = IF ~up \/ o = job THEN watch
              ELSE Append(watch, IF o.uid = 0
                                 THEN JobEvent([job EXCEPT !.fin = FALSE], TRUE)
                                 ELSE JobEvent(o, FALSE))

SetPP(o) ==
  /\ pp' = o
  /\ watch' = IF ~up \/ o = pp THEN watch
              ELSE Append(watch, IF o.uid = 0 THEN PPEvent(pp, TRUE)
                                 ELSE PPEvent(o, FALSE))

\* Deleting the postprocess Job leaves its owned inputs to the garbage
\* collector.
RemovePP ==
  /\ SetPP(NoPP)
  /\ inputs' = [inputs EXCEPT !.owner = IF @ = "live" THEN "dead" ELSE @]

Refused(call) == call = "create_pp" /\ h.job.uid \in Barred

\* A call succeeds or fails: always if it is refused (bad image, exhausted
\* quota), else within the budget of transient failures.
Outcome(call, ok) ==
  /\ ok => ~Refused(call)
  /\ ~ok => Refused(call) \/ (call \in Faults /\ faults < MaxFaults)
  /\ faults' = IF ok \/ Refused(call) THEN faults ELSE faults + 1

Goto(pc) == h' = [h EXCEPT !.pc = pc]
Return   == h' = Idle

-----------------------------------------------------------------------------
(* The informer *)

\* The reflector reads the next change, updates the cache and queues it.
Deliver ==
  /\ up /\ watch # <<>>
  /\ LET e == Head(watch) IN
       cache' = IF e.kind = "job"
                THEN [cache EXCEPT !.job = IF e.gone THEN NoJob ELSE e.job]
                ELSE [cache EXCEPT !.pp = IF e.gone THEN NoPP ELSE e.pp]
  /\ watch' = Tail(watch)
  /\ queue' = Append(queue, Head(watch))
  /\ UNCHANGED <<workload, shared, post, ns, process, h, faults, history>>

\* Update events for the objects j and p that exist, in either order.
Listings(j, p) ==
  LET a == IF j.uid = 0 THEN <<>> ELSE <<JobEvent(j, FALSE)>>
      b == IF p.uid = 0 THEN <<>> ELSE <<PPEvent(p, FALSE)>>
  IN  {a \o b, b \o a}

\* The resync timer (resyncPeriod) redelivers every cached object.
Resync ==
  /\ up /\ Len(watch) + Len(queue) < MaxPending
  /\ cache.job.uid # 0 \/ cache.pp.uid # 0
  /\ \E events \in Listings(cache.job, cache.pp) : queue' = queue \o events
  /\ UNCHANGED <<workload, shared, post, ns, watch, cache, process, h, faults,
                 history>>

\* The Namespace informer catches up with the namespace's label.
SyncNamespace ==
  /\ up
  /\ nsCache # (IF nsLabel THEN "enabled" ELSE "disabled")
  /\ nsCache' = IF nsLabel THEN "enabled" ELSE "disabled"
  /\ UNCHANGED <<workload, shared, post, nsLabel, toggles, watch, informer,
                 process, h, faults, history>>

Crash ==
  /\ up /\ crashes < MaxCrashes
  /\ up' = FALSE /\ crashes' = crashes + 1 /\ h' = Idle
  /\ watch' = <<>> /\ queue' = <<>> /\ nsCache' = "unknown"
  /\ cache' = [job |-> NoJob, pp |-> NoPP]
  /\ UNCHANGED <<workload, shared, post, nsLabel, toggles, faults, history>>

\* Start: the informers list what exists; the handler runs before the
\* Namespace informer has synced.
Restart ==
  /\ ~up /\ up' = TRUE
  /\ cache' = [job |-> job, pp |-> pp]
  /\ queue' \in Listings(job, pp)
  /\ UNCHANGED <<workload, shared, post, ns, watch, crashes, h, faults,
                 history>>

-----------------------------------------------------------------------------
(* onJobEvent *)

\* Both ask the Namespace lister; a failed lookup is neither.
isNamespaceOptedOut == nsCache = "disabled"
isNamespaceEnabled  == nsCache = "enabled"

ready(j) == j.finished \/ j.deleting

\* Mutant: an opted-out namespace's Jobs are skipped with their finalizer.
onJobEvent_SkipOptedOut(j) ==
  CASE ~isNamespaceEnabled -> "idle"
    [] isNamespaceEnabled /\ ~ready(j) -> IF j.fin THEN "idle" ELSE "qualifyA"
    [] isNamespaceEnabled /\ ready(j) ->
         IF j.ann THEN IF j.fin THEN "removeFinalizer" ELSE "idle"
         ELSE IF j.fin \/ j.finished THEN "qualifyB" ELSE "idle"

\* The first call the handler makes for the Job snapshot j, "idle" for none.
onJobEvent(j) ==
  CASE isNamespaceOptedOut -> IF j.fin THEN "removeFinalizer" ELSE "idle"
    [] ~isNamespaceOptedOut /\ ~isNamespaceEnabled -> "idle"
    [] isNamespaceEnabled /\ ~ready(j) -> IF j.fin THEN "idle" ELSE "qualifyA"
    [] isNamespaceEnabled /\ ready(j) ->
         IF j.ann THEN IF j.fin THEN "removeFinalizer" ELSE "idle"
         ELSE IF j.fin \/ j.finished THEN "qualifyB" ELSE "idle"

\* A postprocess Job is collected once, when it has finished.
onPostprocessJobEvent(p) ==
  IF p.result # "" /\ ~p.collected THEN "mark" ELSE "idle"

\* The handler takes the next event.  DeleteFunc gets the last known object.
HandleEvent ==
  /\ up /\ h.pc = "idle" /\ queue # <<>>
  /\ LET e  == Head(queue)
         pc == IF e.kind = "job" THEN onJobEvent(e.job)
               ELSE onPostprocessJobEvent(e.pp)
     IN  h' = IF pc = "idle" THEN Idle
              ELSE [Idle EXCEPT !.pc = pc, !.job = e.job, !.pp = e.pp]
  /\ queue' = Tail(queue)
  /\ UNCHANGED <<workload, shared, post, ns, watch, cache, process, faults,
                 history>>

podsRequestGPU(ps) == ps \cap Gpu # {}
getInstrumentedPods == pods
collectAIBOMAnnotations(j) == j.uid \in Annotated

\* Pods are listed by the Job's name, so an earlier run's pods count too.
shouldPostprocess(j) ==
  /\ getInstrumentedPods # {}
  /\ podsRequestGPU(getInstrumentedPods) \/ collectAIBOMAnnotations(j)

\* Path A: a running Job that qualifies gets the finalizer.
QualifyRunning ==
  /\ h.pc = "qualifyA"
  /\ \E ok \in BOOLEAN :
       /\ Outcome("list_pods", ok)
       /\ IF ok /\ shouldPostprocess(h.job) THEN Goto("addFinalizer")
          ELSE Return
  /\ UNCHANGED <<workload, shared, post, ns, watch, informer, process, history>>

\* The patch names the Job, not its UID.  The API server refuses a new
\* finalizer on an object that is being deleted.
AddFinalizer ==
  /\ h.pc = "addFinalizer"
  /\ \E ok \in BOOLEAN :
       /\ Outcome("add_fin", ok)
       /\ SetJob(IF ok /\ job.uid # 0 /\ ~job.deleting
                 THEN [job EXCEPT !.fin = TRUE] ELSE job)
  /\ Return
  /\ UNCHANGED <<last, pods, shared, post, ns, informer, process, history>>

\* Path B: a failed list counts as "does not qualify".
QualifyFinished ==
  /\ h.pc = "qualifyB"
  /\ \E ok \in BOOLEAN :
       /\ Outcome("list_pods", ok)
       /\ Goto(IF ok /\ shouldPostprocess(h.job) THEN "listPods"
               ELSE "deleteIdentity")
  /\ UNCHANGED <<workload, shared, post, ns, watch, informer, process, history>>

\* deleteWorkloadIdentity when there is nothing (more) to postprocess.
DeleteIdentity ==
  /\ h.pc = "deleteIdentity"
  /\ \E ok \in BOOLEAN :
       /\ Outcome("del_ident", ok)
       /\ identity' = (identity /\ ~ok)
  /\ IF h.job.fin THEN Goto("removeFinalizer") ELSE Return
  /\ UNCHANGED <<workload, data, post, ns, watch, informer, process, history>>

\* Removing the last finalizer of a Job that is being deleted removes it.
RemoveFinalizer ==
  /\ h.pc = "removeFinalizer"
  /\ \E ok \in BOOLEAN :
       /\ Outcome("remove_fin", ok)
       /\ SetJob(CASE ~ok \/ job.uid = 0 -> job
                   [] ok /\ job.uid # 0 /\ job.deleting -> NoJob
                   [] ok /\ job.uid # 0 /\ ~job.deleting ->
                        [job EXCEPT !.fin = FALSE])
  /\ Return
  /\ UNCHANGED <<last, pods, shared, post, ns, informer, process, history>>

\* Mutant: the first error already gives up.
AfterCreateError_NoRetry == "deleteIdentity"

\* What follows an error of createPostprocessJob: count it, or give up.
AfterCreateError == IF h.job.retries + 1 >= maxPostprocessRetries
                    THEN "deleteIdentity" ELSE "setRetries"

\* Mutant: the count is written back without the increment.
SetRetries_NoIncrement ==
  /\ h.pc = "setRetries"
  /\ \E ok \in BOOLEAN :
       /\ Outcome("retries", ok)
       /\ SetJob(IF ok /\ job.uid # 0
                 THEN [job EXCEPT !.retries = h.job.retries] ELSE job)
  /\ Return
  /\ UNCHANGED <<last, pods, shared, post, ns, informer, process, history>>

\* Mutant: the count runs down.
SetRetries_Down ==
  /\ h.pc = "setRetries"
  /\ \E ok \in BOOLEAN :
       /\ Outcome("retries", ok)
       /\ SetJob(IF ok /\ job.uid # 0
                 THEN [job EXCEPT !.retries = h.job.retries - 1] ELSE job)
  /\ Return
  /\ UNCHANGED <<last, pods, shared, post, ns, informer, process, history>>

SetRetries ==
  /\ h.pc = "setRetries"
  /\ \E ok \in BOOLEAN :
       /\ Outcome("retries", ok)
       /\ SetJob(IF ok /\ job.uid # 0
                 THEN [job EXCEPT !.retries = h.job.retries + 1] ELSE job)
  /\ Return
  /\ UNCHANGED <<last, pods, shared, post, ns, informer, process, history>>

-----------------------------------------------------------------------------
(* createPostprocessJob *)

\* The pods whose data goes into the AIBOM; a failed list means none.
ListPods ==
  /\ h.pc = "listPods"
  /\ \E ok \in BOOLEAN :
       /\ Outcome("list_pods", ok)
       /\ h' = [h EXCEPT !.pc = "existing",
                         !.pods = IF ok THEN getInstrumentedPods ELSE {}]
  /\ UNCHANGED <<workload, shared, post, ns, watch, informer, process, history>>

\* Mutant: only this run's own postprocess Job is looked for.
ExistingPostprocessJob_OwnOnly ==
  /\ h.pc = "existing"
  /\ \E ok \in BOOLEAN :
       /\ Outcome("list_pp", ok)
       /\ CASE ~ok \/ pp.uid # h.job.uid -> Goto("build")
            [] ok /\ pp.uid = h.job.uid /\ pp.result = "Failed" ->
                 Goto("delStalePP")
            [] ok /\ pp.uid = h.job.uid /\ pp.result # "Failed" ->
                 Goto("annotate")
  /\ UNCHANGED <<workload, shared, post, ns, watch, informer, process, history>>

\* existingPostprocessJob: a failed Job is replaced, another run's makes this
\* run wait (errPostprocessBusy), this run's own is reused.  A failed list
\* counts as "there is none".
ExistingPostprocessJob ==
  /\ h.pc = "existing"
  /\ \E ok \in BOOLEAN :
       /\ Outcome("list_pp", ok)
       /\ CASE ~ok \/ pp.uid = 0 -> Goto("build")
            [] ok /\ pp.uid # 0 /\ pp.result = "Failed" -> Goto("delStalePP")
            [] ok /\ pp.uid # 0 /\ pp.result # "Failed" ->
                 IF pp.uid = h.job.uid THEN Goto("annotate") ELSE Return
  /\ UNCHANGED <<workload, shared, post, ns, watch, informer, process, history>>

DeleteStalePP ==
  /\ h.pc = "delStalePP"
  /\ \E ok \in BOOLEAN :
       /\ Outcome("del_pp", ok)
       /\ IF ok THEN RemovePP ELSE UNCHANGED <<pp, watch, inputs>>
  /\ Goto("delStaleInputs")
  /\ UNCHANGED <<workload, shared, aiboms, signingKey, ns, informer, process, history>>

DeleteStaleInputs ==
  /\ h.pc = "delStaleInputs"
  /\ \E ok \in BOOLEAN :
       /\ Outcome("del_inputs", ok)
       /\ inputs' = IF ok THEN NoInputs ELSE inputs
  /\ Goto("build")
  /\ UNCHANGED <<workload, shared, pp, aiboms, signingKey, ns, watch, informer, process,
                 history>>

\* buildPostprocessInputs reads the data ConfigMap; if it cannot, the AIBOM
\* is built without the pods' data.
BuildInputs ==
  /\ h.pc = "build"
  /\ \E ok \in BOOLEAN :
       /\ Outcome("read_data", ok)
       /\ h' = [h EXCEPT !.pc = "writeInputs",
                         !.data = IF ok THEN h.pods \cap data ELSE {}]
  /\ UNCHANGED <<workload, shared, post, ns, watch, informer, process, history>>

\* createDataConfigMap creates or updates the inputs; its error is logged.
WriteInputs ==
  /\ h.pc = "writeInputs"
  /\ \E ok \in BOOLEAN :
       /\ Outcome("write_inputs", ok)
       /\ inputs' = IF ok THEN [inputs EXCEPT !.by = h.job.uid, !.data = h.data]
                    ELSE inputs
  /\ Goto("signingKey")
  /\ UNCHANGED <<workload, shared, pp, aiboms, signingKey, ns, watch, informer,
                 process, history>>

\* ensureCompiledSigningKey creates the key once; without it the AIBOM is
\* created unsigned.
EnsureSigningKey ==
  /\ h.pc = "signingKey"
  /\ \E ok \in BOOLEAN :
       /\ Outcome("signing_key", ok)
       /\ signingKey' = (signingKey \/ ok)
  /\ Goto("create")
  /\ UNCHANGED <<workload, shared, pp, inputs, aiboms, ns, watch, informer,
                 process, history>>

\* Mutant: every error of the create counts as success.
CreatePP_IgnoreError ==
  /\ h.pc = "create"
  /\ \E ok \in BOOLEAN, done \in BOOLEAN :
       /\ ok => done
       /\ done => ~Refused("create_pp")
       /\ Outcome("create_pp", ok)
       /\ IF done /\ pp.uid = 0
          THEN /\ SetPP([uid |-> h.job.uid, result |-> "", collected |-> FALSE])
               /\ started' = started \cup {h.job.uid}
          ELSE UNCHANGED <<pp, watch, started>>
       /\ Goto("annotate")
  /\ UNCHANGED <<workload, shared, inputs, aiboms, signingKey, ns, informer,
                 process, warned>>

\* The create may take effect although its answer is lost.  AlreadyExists is
\* a success, after which the inputs are not given an owner.
CreatePP ==
  /\ h.pc = "create"
  /\ \E ok \in BOOLEAN, done \in BOOLEAN :
       /\ ok => done
       /\ done => ~Refused("create_pp")
       /\ Outcome("create_pp", ok)
       /\ IF done /\ pp.uid = 0
          THEN /\ SetPP([uid |-> h.job.uid, result |-> "", collected |-> FALSE])
               /\ started' = started \cup {h.job.uid}
          ELSE UNCHANGED <<pp, watch, started>>
       /\ Goto(CASE ~ok -> AfterCreateError
                 [] ok /\ pp.uid = 0 -> "own"
                 [] ok /\ pp.uid # 0 -> "annotate")
  /\ UNCHANGED <<workload, shared, inputs, aiboms, signingKey, ns, informer, process,
                 warned>>

\* ownDataConfigMap: the inputs are removed with the postprocess Job.
OwnInputs ==
  /\ h.pc = "own"
  /\ \E ok \in BOOLEAN :
       /\ Outcome("own", ok)
       /\ inputs' = IF ok /\ inputs.by # 0
                    THEN [inputs EXCEPT !.owner = IF pp.uid = 0 THEN "dead"
                                                  ELSE "live"]
                    ELSE inputs
  /\ Goto("annotate")
  /\ UNCHANGED <<workload, shared, pp, aiboms, signingKey, ns, watch, informer, process,
                 history>>

\* The patch names the Job, not its UID; a missing Job is an error.
Annotate ==
  /\ h.pc = "annotate"
  /\ \E ok \in BOOLEAN, done \in BOOLEAN :
       /\ ok => done
       /\ Outcome("annotate", ok)
       /\ SetJob(IF done /\ job.uid # 0 THEN [job EXCEPT !.ann = TRUE] ELSE job)
       /\ CASE ~ok \/ job.uid = 0 -> Goto(AfterCreateError)
            [] ok /\ job.uid # 0 ->
                 IF h.job.fin THEN Goto("removeFinalizer") ELSE Return
  /\ UNCHANGED <<last, pods, shared, post, ns, informer, process, history>>

-----------------------------------------------------------------------------
(* collectAIBOM *)

\* triggerReplaced compares UIDs with the Job the informer cache holds.
triggerReplaced(p) == cache.job.uid \notin {0, p.uid}

\* Every patch and delete below names the postprocess Job, not its UID.
MarkCollected ==
  /\ h.pc = "mark"
  /\ \E ok \in BOOLEAN :
       /\ Outcome("mark", ok)
       /\ SetPP(IF ok /\ pp.uid # 0 THEN [pp EXCEPT !.collected = TRUE] ELSE pp)
  /\ CASE DebugKeep -> Return
       [] ~DebugKeep /\ ~triggerReplaced(h.pp) -> Goto("delData")
       [] ~DebugKeep /\ triggerReplaced(h.pp) ->
            Goto(IF h.pp.result = "Failed" THEN "failedEvent" ELSE "delPP")
  /\ UNCHANGED <<workload, shared, inputs, aiboms, signingKey, ns, informer, process,
                 history>>

DeleteWorkloadData ==
  /\ h.pc = "delData"
  /\ \E ok \in BOOLEAN :
       /\ Outcome("del_data", ok)
       /\ data' = IF ok THEN {} ELSE data
  /\ Goto("delIdentity")
  /\ UNCHANGED <<workload, identity, post, ns, watch, informer, process,
                 history>>

\* Mutant: a failed postprocess Job is deleted like a succeeded one.
CollectIdentity_DropFailed ==
  /\ h.pc = "delIdentity"
  /\ \E ok \in BOOLEAN :
       /\ Outcome("del_ident", ok)
       /\ identity' = (identity /\ ~ok)
  /\ Goto("delPP")
  /\ UNCHANGED <<workload, data, post, ns, watch, informer, process, history>>

CollectIdentity ==
  /\ h.pc = "delIdentity"
  /\ \E ok \in BOOLEAN :
       /\ Outcome("del_ident", ok)
       /\ identity' = (identity /\ ~ok)
  /\ Goto(IF h.pp.result = "Failed" THEN "failedEvent" ELSE "delPP")
  /\ UNCHANGED <<workload, data, post, ns, watch, informer, process, history>>

\* A failed postprocess Job and its inputs are kept, and its owner is told.
FailedEvent ==
  /\ h.pc = "failedEvent"
  /\ \E ok \in BOOLEAN :
       /\ Outcome("event", ok)
       /\ warned' = IF ok THEN warned \cup {h.pp.uid} ELSE warned
  /\ Return
  /\ UNCHANGED <<workload, shared, post, ns, watch, informer, process, started>>

DeletePP ==
  /\ h.pc = "delPP"
  /\ \E ok \in BOOLEAN :
       /\ Outcome("del_pp", ok)
       /\ IF ok THEN RemovePP ELSE UNCHANGED <<pp, watch, inputs>>
  /\ Goto("delInputs")
  /\ UNCHANGED <<workload, shared, aiboms, signingKey, ns, informer, process, history>>

DeleteInputs ==
  /\ h.pc = "delInputs"
  /\ \E ok \in BOOLEAN :
       /\ Outcome("del_inputs", ok)
       /\ inputs' = IF ok THEN NoInputs ELSE inputs
  /\ Return
  /\ UNCHANGED <<workload, shared, pp, aiboms, signingKey, ns, watch, informer, process,
                 history>>

-----------------------------------------------------------------------------
(* Users, pods and the cluster's own controllers *)

Room == Len(watch) + Len(queue) < MaxPending

CreateJob ==
  /\ Room /\ job.uid = 0 /\ last < MaxRuns
  /\ last' = last + 1
  /\ SetJob([NoJob EXCEPT !.uid = last + 1])
  /\ UNCHANGED <<pods, shared, post, ns, informer, process, h, faults, history>>

\* The Job controller creates a pod; the webhook instruments it and makes
\* sure that the workload's identity exists.
StartPod ==
  /\ job.uid # 0 /\ job.uid \notin pods /\ ~job.finished /\ ~job.deleting
  /\ nsLabel
  /\ pods' = pods \cup {job.uid}
  /\ identity' = TRUE
  /\ UNCHANGED <<job, last, data, post, ns, watch, informer, process, h, faults,
                 history>>

\* A pod stores its data with the workload's identity.
PodWrites(u) ==
  /\ u \in Writing \cap pods /\ identity /\ u \notin data
  /\ ~(job.uid = u /\ job.finished)
  /\ data' = data \cup {u}
  /\ UNCHANGED <<workload, identity, post, ns, watch, informer, process, h,
                 faults, history>>

FinishJob ==
  /\ Room /\ job.uid # 0 /\ ~job.finished
  /\ SetJob([job EXCEPT !.finished = TRUE])
  /\ UNCHANGED <<last, pods, shared, post, ns, informer, process, h, faults,
                 history>>

DeleteJob ==
  /\ Room /\ job.uid # 0 /\ ~job.deleting
  /\ SetJob(IF job.fin THEN [job EXCEPT !.deleting = TRUE] ELSE NoJob)
  /\ UNCHANGED <<last, pods, shared, post, ns, informer, process, h, faults,
                 history>>

\* The garbage collector removes a run's pods once its Job is gone.
RemovePods(u) ==
  /\ u \in pods /\ job.uid # u
  /\ pods' = pods \ {u}
  /\ UNCHANGED <<job, last, shared, post, ns, watch, informer, process, h,
                 faults, history>>

ToggleNamespace ==
  /\ toggles < MaxToggles
  /\ nsLabel' = ~nsLabel /\ toggles' = toggles + 1
  /\ UNCHANGED <<workload, shared, post, nsCache, watch, informer, process, h,
                 faults, history>>

\* The postprocess pod waits for its inputs volume, then creates the AIBOM.
\* It fails for good once the Job's backoffLimit is used up.
RunPP ==
  /\ pp.uid # 0 /\ pp.result = "" /\ inputs.by # 0
  /\ \E ok \in BOOLEAN :
       /\ Outcome("run", ok)
       /\ SetPP([pp EXCEPT !.result = IF ok THEN "Complete" ELSE "Failed"])
       /\ aiboms' = IF ok
                    THEN aiboms \cup {[run |-> pp.uid, data |-> inputs.data,
                                       signed |-> signingKey]}
                    ELSE aiboms
  /\ UNCHANGED <<workload, shared, inputs, signingKey, ns, informer, process, h,
                 history>>

\* failedPostprocessTTLSeconds (a day) after it finished the TTL controller
\* removes the postprocess Job; no event waits that long.
ExpirePP ==
  /\ pp.result # ""
  /\ up /\ watch = <<>> /\ queue = <<>> /\ h.pc = "idle"
  /\ RemovePP
  /\ UNCHANGED <<workload, shared, aiboms, signingKey, ns, informer, process, h, faults,
                 history>>

\* The garbage collector removes the inputs of a removed postprocess Job.
CollectGarbage ==
  /\ inputs.owner = "dead"
  /\ inputs' = NoInputs
  /\ UNCHANGED <<workload, shared, pp, aiboms, signingKey, ns, watch, informer, process, h,
                 faults, history>>

-----------------------------------------------------------------------------
Init ==
  /\ job = NoJob /\ last = 0 /\ pods = {}
  /\ identity = FALSE /\ data = {}
  /\ pp = NoPP /\ inputs = NoInputs /\ aiboms = {}
  /\ signingKey = FALSE
  /\ nsLabel = TRUE /\ nsCache = "enabled" /\ toggles = 0
  /\ watch = <<>> /\ queue = <<>> /\ cache = [job |-> NoJob, pp |-> NoPP]
  /\ up = TRUE /\ crashes = 0 /\ h = Idle /\ faults = 0
  /\ started = {} /\ warned = {}

HandlerStep ==
  \/ HandleEvent \/ QualifyRunning \/ AddFinalizer
  \/ QualifyFinished \/ DeleteIdentity \/ RemoveFinalizer \/ SetRetries
  \/ ListPods \/ ExistingPostprocessJob \/ DeleteStalePP \/ DeleteStaleInputs
  \/ BuildInputs \/ WriteInputs \/ EnsureSigningKey \/ CreatePP \/ OwnInputs
  \/ Annotate
  \/ MarkCollected \/ DeleteWorkloadData \/ CollectIdentity \/ FailedEvent
  \/ DeletePP \/ DeleteInputs

InformerStep == Deliver \/ Resync \/ SyncNamespace \/ Crash \/ Restart

ClusterStep ==
  \/ CreateJob \/ StartPod \/ FinishJob \/ DeleteJob \/ ToggleNamespace
  \/ \E u \in Runs : PodWrites(u) \/ RemovePods(u)
  \/ RunPP \/ ExpirePP \/ CollectGarbage

Next == HandlerStep \/ InformerStep \/ ClusterStep

Spec == Init /\ [][Next]_vars

\* The watcher's goroutines run, its Deployment restarts it, a postprocess Job
\* whose pod can start ends (backoffLimit), and the TTL controller runs.  Users
\* need not do anything.
Fairness ==
  /\ WF_vars(HandlerStep) /\ WF_vars(Deliver) /\ WF_vars(Resync)
  /\ WF_vars(SyncNamespace) /\ WF_vars(Restart) /\ WF_vars(RunPP)
  /\ WF_vars(ExpirePP)

FairSpec == Spec /\ Fairness

-----------------------------------------------------------------------------
(* Properties *)

Running == pp.uid # 0 /\ pp.result = ""

\* As long as no call has failed, the inputs ConfigMap that a running
\* postprocess Job mounts exists and was written for the run the Job was
\* created for: the names repeat from run to run, so a rerun must not have
\* replaced or removed it (createPostprocessJobCore checks
\* existingPostprocessJob first).
RunningHasInputs == faults = 0 /\ Running => inputs.by = pp.uid

\* The same when calls may fail: the ConfigMap may be missing, but it is never
\* another run's.
RunningInputsBelong == Running /\ inputs.by # 0 => inputs.by = pp.uid

\* No step rewrites the inputs that a running postprocess Job has mounted
\* ("writing them would overwrite the inputs ConfigMap a running postprocess
\* Job for an earlier run mounts", createPostprocessJobCore).
RunningInputsFrozen ==
  [][Running /\ pp' = pp /\ inputs.by # 0 /\ inputs'.by # 0
       => inputs'.by = inputs.by /\ inputs'.data = inputs.data]_vars

\* From the moment the handler found no postprocess Job it has to wait for
\* until it creates its own, none is running, and from the write of the inputs
\* on they are this run's: with RunningInputsBelong, the inductive invariant
\* behind it (createPostprocessJobCore makes the calls one after the other and
\* nothing but the handler creates a postprocess Job).
Replacing == {"delStalePP", "delStaleInputs", "build", "writeInputs",
              "signingKey", "create"}
InputsInv ==
  /\ RunningInputsBelong
  /\ h.pc \in Replacing => ~Running
  /\ h.pc \in {"signingKey", "create"} => inputs.by \in {0, h.job.uid}

\* The finalizer leaves a Job whose instrumented GPU pods still exist only when
\* a postprocess Job was created for that run, the creation retries are used
\* up, or the namespace opted out (onJobEvent), even if calls fail and the
\* watcher crashes between them.
HeldUntilStarted ==
  [][job.uid # 0 /\ job.fin /\ ~job'.fin /\ pods \cap Gpu # {}
       => \/ job.uid \in started
          \/ nsCache = "disabled"
          \/ job.retries + 1 >= maxPostprocessRetries]_vars

Deleting(u) == job.uid = u /\ job.deleting

\* A Job that is being deleted is eventually released, whatever its runs'
\* postprocess Jobs do: the finalizer never keeps it Terminating forever
\* (maxPostprocessRetries, errPostprocessBusy).
FinalizerReleased == \A u \in Runs : Deleting(u) ~> ~Deleting(u)

\* The finalizer is eventually taken off the Jobs of a namespace that opted
\* out, unless it opts in again (onJobEvent, #104).
OptOutReleases == (~nsLabel /\ job.fin) ~> (nsLabel \/ ~job.fin)

Due(u) == /\ job.uid = u /\ job.finished /\ job.fin
          /\ nsLabel /\ u \in pods \cap Gpu

\* A finished Job that holds the finalizer gets a postprocess Job although a
\* call fails or the watcher crashes on the way, unless the namespace opts out
\* (onJobEvent's retries and the resync).
FinishedIsStarted == \A u \in Runs : Due(u) ~> (u \in started \/ ~nsLabel)

\* A run that got a postprocess Job ends with an AIBOM, or its owner is told
\* that there is none, although a call fails; a crash may lose the warning
\* (collectAIBOM, postprocessFailedEvent).
StartedIsResolved ==
  \A u \in Runs :
    u \in started ~> (u \in warned \/ crashes > 0 \/ \E a \in aiboms : a.run = u)

-----------------------------------------------------------------------------
(* What a comment of the repository says, and the code does not do *)

\* A Job marked with AnnotationPostprocess had a postprocess Job created for
\* it: the UID tells a run from a same-named rerun
\* (AnnotationPostprocessTriggerUID's comment).
AnnotatedWasStarted == job.ann => job.uid \in started

=============================================================================
