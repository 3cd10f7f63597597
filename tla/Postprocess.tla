----------------------------- MODULE Postprocess -----------------------------
(***************************************************************************)
(* The postprocess Job of one workload (postprocess/postprocess.py, main): *)
(* from the entries that the discovery containers left, through telemetry  *)
(* and compilation, to the AIBOM and its series object.  The Job starts    *)
(* the process anew when it fails.                                         *)
(***************************************************************************)
EXTENDS Discovery, Provenance, Execution, SeriesFit

CONSTANTS
  Inputs,                   \* what the watcher and the API server may provide
  Usage, Serving,           \* the metrics of collect_telemetry, _vllm_telemetry
  Gauges,                   \* the metrics whose values are taken as they are
                            \* scraped; the others are rates of counters
  RateWindow,               \* RATE_WINDOW_MS, in scrape intervals; Prometheus
                            \* looks as far back for a gauge
  TELEMETRY_RETRY_ATTEMPTS,
  SERIES_MAX_SERIES_PER_METRIC,
  BackoffLimit,             \* of the postprocess Job
  Horizon                   \* bound: the last moment, in scrape intervals

\* The pods of the data ConfigMap and the entries of containers.json, in their
\* order; the condition of a pod's Job is in each of its entries (jobResults in
\* buildPostprocessInputs); a pod is scraped from its start on; and the commit
\* the runtime detector read is a full one (_is_sha).
InputOK(i) ==
  /\ i.key \in {"mounted", "missing"} /\ i.faults \in Nat /\ i.now \in 0 .. Horizon
  /\ i.pods \in Seq(Pods) /\ i.containers \in Seq(ToSet(i.containers))
  /\ \A c \in ToSet(i.containers) :
       /\ c.finished \in Nat \cup {None}
       /\ \A d \in ToSet(i.containers) : d.pod = c.pod => d.job = c.job
       /\ ScriptOK(c.script)
  /\ DOMAIN i.annotated = DOMAIN Nothing /\ DOMAIN i.runtime = DOMAIN Nothing
  /\ \A p \in Abbrev : p[1] # i.runtime.commit
  /\ i.start \in [Pods -> Nat]
  /\ i.scrapes \in [Pods -> [Usage \cup Serving -> SUBSET (1 .. Horizon)]]
  /\ \A p \in Pods, m \in Usage \cup Serving : \A t \in i.scrapes[p][m] : i.start[p] < t

ASSUME PostprocessAssumption ==
  /\ TELEMETRY_RETRY_ATTEMPTS \in Nat \ {0} /\ BackoffLimit \in Nat
  /\ Usage \cap Serving = {} /\ Horizon \in Nat /\ RateWindow \in Nat \ {0}
  /\ \A i \in Inputs : InputOK(i)

VARIABLES
  input,      \* the pods, containers.json, annotations, ...: one of Inputs
  job,        \* the Job: state, attempts, and the pods in discovery.json
  pc,         \* the running process: its program counter,
  run,        \* what it detected and collected,
  aibom, ref, sig,   \* the AIBOM, its reference to the series, its signature
  ingested,   \* the scrapes of each pod and metric that Prometheus has
  clock,
  series,     \* the document of each attempt's AIBOMTelemetry object,
  owner,      \* and the attempt whose AIBOM owns it, 0 if none does
  aiboms,     \* the AIBOM of each attempt
  anchor      \* "published" or "absent": the public key's ConfigMap

world == <<input, ingested>>
draft == <<aibom, ref, sig>>
store == <<series, owner, aiboms, anchor>>
rest  == <<discoveryVars, world, job, draft, store>>
vars  == <<discoveryVars, faults, world, job, pc, run, draft, clock, store>>

Attempts == 1 .. BackoffLimit + 1
Loops == {"usage", "serving"}
Metrics(loop) == IF loop = "usage" THEN Usage ELSE Serving

\* Telemetry of a pod that was skipped; one metric of a pod not yet collected.
NoTelemetry == [l \in Loops |-> [p \in Pods |-> None]]
NoRun == [prov |-> Nothing, loop |-> "usage", i |-> 1, round |-> 1,
          todo |-> {}, tele |-> NoTelemetry, window |-> None, raw |-> NoDoc,
          doc |-> NoDoc]

-----------------------------------------------------------------------------
(* The Job *)

\* The watcher builds the inputs from the entries that verify, in pod order.
discoveries == Among(input.pods, {p \in Pods : Verified(p)})

WorkloadEnds ==
  /\ job.state = "waiting" /\ \A p \in Pods : snap[p].pc = "done"
  /\ job' = [job EXCEPT !.state = "active", !.pods = discoveries]
  /\ UNCHANGED <<discoveryVars, faults, world, pc, run, draft, clock, store>>

StartAttempt ==
  /\ job.state = "active" /\ pc = "idle"
  /\ job' = [job EXCEPT !.attempts = @ + 1]
  /\ pc' = "load"
  /\ UNCHANGED <<discoveryVars, faults, world, run, draft, clock, store>>

\* Mutant: one attempt too many.
Exit_OneMore(code) ==
  /\ pc' = "idle" /\ run' = NoRun
  /\ aibom' = None /\ ref' = None /\ sig' = None
  /\ job' = [job EXCEPT !.state =
       CASE code = 0 -> "succeeded"
         [] code = 1 /\ job.attempts > BackoffLimit + 1 -> "failed"
         [] OTHER -> @]

\* The process ends; a Job with too many failed attempts has failed.
Exit(code) ==
  /\ pc' = "idle" /\ run' = NoRun
  /\ aibom' = None /\ ref' = None /\ sig' = None
  /\ job' = [job EXCEPT !.state =
       CASE code = 0 -> "succeeded"
         [] code = 1 /\ job.attempts > BackoffLimit -> "failed"
         [] OTHER -> @]

Crash ==
  /\ pc # "idle" /\ Fault /\ Exit(1)
  /\ UNCHANGED <<discoveryVars, world, clock, store>>

-----------------------------------------------------------------------------
(* Detection *)

\* The labels of one image may not be read (not in the cluster, and not in its
\* registry); the next container's are then as good.
Detect ==
  /\ pc = "load"
  /\ \E unread \in 0 .. Len(input.containers) :
       /\ \/ unread = 0 /\ UNCHANGED faults
          \/ unread # 0 /\ Fault
       /\ run' = [run EXCEPT !.prov = detected_provenance(
                detect_git_provenance_from_runtime_info(input.runtime),
                detect_git_clone_from_containers(input.containers),
                detect_git_provenance_from_containers(
                  RemoveAt(input.containers, unread)))]
  /\ pc' = IF input.prometheus = "on" THEN "pod" ELSE "compile"
  /\ UNCHANGED <<rest, clock>>

-----------------------------------------------------------------------------
(* Telemetry: collect_telemetry, collect_vllm_telemetry and
   _collect_metrics_with_retry *)

Pod == job.pods[run.i]
LoopDone == run.i > Len(job.pods)
Later == clock .. Horizon
Telemetry == run.tele[run.loop][Pod]
HasGPU(p) == pod_gpu_count(p, input.containers, input.gpus[p]) # 0

\* The moments at which the pod is scraped.
Scraped(p) ==
  LET end == _pod_finished_ms(p, input.containers)
  IN input.start[p] + 1 .. IF end = None THEN Horizon ELSE end

\* Prometheus ingests scrapes late, and in their order.  (Only while they can
\* be asked for: at another time it is the same as before the next question.)
Ingest(p, m) ==
  /\ pc \in {"query", "lines"} /\ m \in input.exported
  /\ \E t \in Scraped(p) \ ingested[p][m] :
       /\ \A u \in Scraped(p) : u < t => u \in ingested[p][m]
       /\ t <= clock
       /\ ingested' = [ingested EXCEPT ![p][m] = @ \cup {t}]
  /\ UNCHANGED <<discoveryVars, faults, input, job, pc, run, draft, clock, store>>

\* A pod without a GPU has no statistics of its usage.
SkipPod ==
  /\ pc = "pod" /\ ~LoopDone /\ run.loop = "usage" /\ ~HasGPU(Pod)
  /\ run' = [run EXCEPT !.i = @ + 1]
  /\ UNCHANGED <<rest, faults, clock, pc>>

BeginPod ==
  /\ pc = "pod" /\ ~LoopDone /\ (run.loop = "usage" => HasGPU(Pod))
  /\ pc' = "query"
  /\ \E now \in Later :
       /\ clock' = now
       /\ run' = [run EXCEPT !.round = 1, !.todo = Metrics(run.loop),
            !.tele[run.loop][Pod] =
               [win |-> StatsWindow(input.start[Pod],
                          _pod_finished_ms(Pod, input.containers), now),
                tries |-> [m \in Metrics(run.loop) |-> 0],
                points |-> [m \in Metrics(run.loop) |-> {}]]]
  /\ UNCHANGED <<rest, faults>>

\* The scrapes that a query has to compute its point at a moment from, when it
\* looks back over width: there is no rate of a single scrape.
Computed(m, scrapes, moment, width) ==
  LET seen == {t \in scrapes : moment - width < t /\ t <= moment}
  IN IF m \in Gauges \/ \E t, u \in seen : t # u THEN seen ELSE {}

\* The scrapes that a range query over the window is answered from, a point for
\* each moment of it: of a gauge the latest counts.
Points(m) ==
  UNION {LET seen == Computed(m, ingested[Pod][m], now, RateWindow)
         IN {t \in seen : m \in Gauges => \A u \in seen : u <= t} :
           now \in Telemetry.win.stats .. Telemetry.win.end}

\* One query.  One that fails is one without data.
Query(m) ==
  /\ pc = "query" /\ m \in run.todo
  /\ LET found(ps) ==
           run' = [run EXCEPT !.todo = @ \ {m},
             !.tele[run.loop][Pod] =
               [Telemetry EXCEPT !.points[m] = ps, !.tries[m] = @ + 1]]
     IN \/ found(Points(m)) /\ UNCHANGED faults
        \/ found({}) /\ Fault
  /\ UNCHANGED <<rest, clock, pc>>

Missing == {m \in DOMAIN Telemetry.points : Telemetry.points[m] = {}}
NextRound == pc' = pc /\ run' = [run EXCEPT !.round = @ + 1, !.todo = Missing]
NextPod == pc' = "pod" /\ run' = [run EXCEPT !.i = @ + 1]

\* Mutant: one attempt too few.
EndRound_OffByOne ==
  /\ pc = "query" /\ run.todo = {}
  /\ IF Missing # {} /\ run.round < TELEMETRY_RETRY_ATTEMPTS - 1
     THEN NextRound ELSE NextPod
  /\ UNCHANGED <<rest, faults, clock>>

\* Mutant: a pod whose metrics stay missing is begun again.
EndRound_SamePod ==
  /\ pc = "query" /\ run.todo = {}
  /\ IF Missing # {} /\ run.round < TELEMETRY_RETRY_ATTEMPTS THEN NextRound
     ELSE pc' = "pod" /\ run' = [run EXCEPT !.i = IF Missing = {} THEN @ + 1 ELSE @]
  /\ UNCHANGED <<rest, faults, clock>>

\* Only what is missing is queried again, after a pause.
EndRound ==
  /\ pc = "query" /\ run.todo = {}
  /\ IF Missing # {} /\ run.round < TELEMETRY_RETRY_ATTEMPTS
     THEN NextRound ELSE NextPod
  /\ UNCHANGED <<rest, faults, clock>>

\* After the pods' usage come the serving metrics, for an engine that has them.
EndLoop ==
  /\ pc = "pod" /\ LoopDone
  /\ IF run.loop = "usage" /\ input.engine = "known"
     THEN pc' = pc /\ run' = [run EXCEPT !.loop = "serving", !.i = 1]
     ELSE pc' = "series" /\ run' = run
  /\ UNCHANGED <<rest, faults, clock>>

-----------------------------------------------------------------------------
(* The series document: collect_telemetry_series, _collect_series_metrics *)

Collected(loop) == {p \in Pods : run.tele[loop][p] # None}
Windows == UNION {{run.tele[l][p].win : p \in Collected(l)} : l \in Loops}

\* Mutant: the window is the first pod's.
SeriesWindow_First(wins) ==
  LET w == CHOOSE v \in wins : \A u \in wins : v.start <= u.start
  IN [start |-> w.start, end |-> w.end, step |-> SeriesStep(w.end - w.start)]

\* From the first start to the last end of the pods' windows.
SeriesWindow(wins) ==
  LET start == Min({w.start : w \in wins})
      end   == Max({w.end : w \in wins})
  IN [start |-> start, end |-> end, step |-> SeriesStep(end - start)]

BeginSeries ==
  /\ pc = "series"
  /\ IF Windows # {} /\ SeriesWindow(Windows).end > SeriesWindow(Windows).start
     THEN /\ pc' = "lines"
          /\ run' = [run EXCEPT !.window = SeriesWindow(Windows),
               !.todo = UNION {Metrics(l) : l \in {k \in Loops : Collected(k) # {}}}]
     ELSE pc' = "compile" /\ run' = run
  /\ UNCHANGED <<rest, faults, clock>>

\* The points of a range query.  Those of a gauge tile the window, {win} being
\* the step; a rate is over [5m], which leaves gaps when the step is longer.
Grid(k) == run.window.start + k * run.window.step
Width(m) == IF m \in Gauges THEN run.window.step ELSE RateWindow
Line(m, scrapes) ==
  {k \in 1 .. Horizon : /\ Grid(k) <= run.window.end
                        /\ Computed(m, scrapes, Grid(k), Width(m)) # {}}

\* The lines of a metric: those of the pods that have points.
Lines(m) ==
  LET all == [i \in DOMAIN job.pods |->
                IF job.pods[i] \in Collected(IF m \in Usage THEN "usage" ELSE "serving")
                THEN Line(m, ingested[job.pods[i]][m]) ELSE {}]
  IN Among(all, ToSet(all) \ {{}})

\* A metric's entry in the document; too many lines are not kept.
Entry(lines, peak) ==
  [agg |-> UNION ToSet(lines), peak |-> peak,
   lines |-> IF Len(lines) > SERIES_MAX_SERIES_PER_METRIC THEN <<>> ELSE lines]

\* What the queries of a metric add to the document: nothing without data.  A
\* second query asks for the peaks of a gauge.
With(m, peak) ==
  [n \in DOMAIN run.raw \cup {m} |->
     IF n = m THEN Entry(Lines(m), peak) ELSE run.raw[n]]
Answers(m) ==
  IF Lines(m) = <<>> THEN {run.raw}
  ELSE {With(m, IF m \in Gauges THEN UNION ToSet(Lines(m)) ELSE {})}
PartialAnswers(m) == {run.raw} \cup {With(m, {}) : g \in Gauges \cap {m}}

QuerySeries(m) ==
  /\ pc = "lines" /\ m \in run.todo
  /\ \E raw \in Answers(m) \cup PartialAnswers(m) :
       /\ \/ raw \in Answers(m) /\ UNCHANGED faults
          \/ Lines(m) # <<>> /\ raw \in PartialAnswers(m) /\ Fault
       /\ run' = [run EXCEPT !.todo = @ \ {m}, !.raw = raw]
  /\ UNCHANGED <<rest, clock, pc>>

Fit ==
  /\ pc = "lines" /\ run.todo = {}
  /\ pc' = "compile"
  /\ run' = [run EXCEPT !.doc = IF DOMAIN run.raw = {} THEN NoDoc
                              ELSE _fit_series_doc(run.raw)]
  /\ UNCHANGED <<rest, faults, clock>>

-----------------------------------------------------------------------------
(* Compilation *)

Entries == [i \in DOMAIN job.pods |-> PodEntry(job.pods[i], input.containers)]

compile_aibom(now) ==
  [pods |-> Entries, status |-> Rollup(Entries),
   source |-> source_code(input.annotated, run.prov),
   duration |-> Duration({input.start[p] : p \in ToSet(job.pods)},
                  {_pod_finished_ms(p, input.containers) : p \in ToSet(job.pods)},
                  now)]

\* The first pod's memory is converted to a number: the text that stands for
\* an unread value raises, and the process ends with 1.
Readable == \A i \in DOMAIN job.pods : i = 1 => data[job.pods[i]].memory = "read"

Compile ==
  /\ pc = "compile"
  /\ \/ ~Readable /\ Exit(1) /\ UNCHANGED clock
     \/ /\ Readable /\ pc' = "publish"
        /\ \E now \in Later : clock' = now /\ aibom' = compile_aibom(now)
        /\ UNCHANGED <<job, run, ref, sig>>
  /\ UNCHANGED <<discoveryVars, faults, world, store>>

-----------------------------------------------------------------------------
(* Publication.  A request takes effect and is answered; or it fails, before
   or after it took effect. *)

Answered(effect) == effect /\ UNCHANGED faults
Failed(effect, nothing) == (effect \/ nothing) /\ Fault

Stored == series' = [series EXCEPT ![job.attempts] = run.doc]
Reference == [name |-> job.attempts, digest |-> run.doc]

\* Mutant: the reference is made whether or not the object was stored.
Publish_AlwaysRef ==
  /\ pc = "publish" /\ run.doc # NoDoc /\ pc' = "sign" /\ ref' = Reference
  /\ Answered(Stored) \/ Failed(Stored, UNCHANGED series)
  /\ UNCHANGED <<discoveryVars, world, job, run, aibom, sig, clock, owner,
                 aiboms, anchor>>

\* publish_series_object: the reference carries the digest of what is stored.
Publish ==
  /\ pc = "publish" /\ run.doc # NoDoc /\ pc' = "sign"
  /\ \/ Answered(Stored) /\ ref' = Reference
     \/ Failed(Stored, UNCHANGED series) /\ UNCHANGED ref
  /\ UNCHANGED <<discoveryVars, world, job, run, aibom, sig, clock, owner,
                 aiboms, anchor>>

NoSeries ==
  /\ pc = "publish" /\ run.doc = NoDoc /\ pc' = "sign"
  /\ UNCHANGED <<rest, faults, run, clock>>

\* sign_aibom: a signature is of the data as they are now.
sign_aibom ==
  /\ pc = "sign"
  /\ \/ /\ input.signing = "key" /\ UNCHANGED faults
        /\ pc' = "anchor" /\ sig' = <<aibom, ref>>
     \/ /\ \/ input.signing = "none" /\ UNCHANGED faults
           \/ input.signing = "key" /\ Fault
        /\ pc' = "create" /\ UNCHANGED sig
  /\ UNCHANGED <<discoveryVars, world, job, run, aibom, ref, clock, store>>

PublishKey ==
  /\ pc = "anchor" /\ pc' = "create"
  /\ \/ Answered(anchor' = "published")
     \/ Failed(anchor' = "published", UNCHANGED anchor)
  /\ UNCHANGED <<discoveryVars, world, job, run, draft, clock, series, owner,
                 aiboms>>

Created == aiboms' = [aiboms EXCEPT ![job.attempts] =
                        [data |-> aibom, ref |-> ref, sig |-> sig]]

\* Mutant: an AIBOM that could not be created is only warned of.
CreateAibom_WarnOnly ==
  /\ pc = "create"
  /\ \/ /\ Answered(Created)
        /\ \/ ref = None /\ Exit(0)
           \/ ref # None /\ pc' = "owner" /\ UNCHANGED <<job, run, draft>>
     \/ Failed(Created, UNCHANGED aiboms) /\ Exit(0)
  /\ UNCHANGED <<discoveryVars, world, clock, series, owner, anchor>>

CreateAibom ==
  /\ pc = "create"
  /\ \/ /\ Answered(Created)
        /\ \/ ref = None /\ Exit(0)
           \/ ref # None /\ pc' = "owner" /\ UNCHANGED <<job, run, draft>>
     \/ Failed(Created, UNCHANGED aiboms) /\ Exit(1)
  /\ UNCHANGED <<discoveryVars, world, clock, series, owner, anchor>>

\* Mutant: the series object never gets its owner.
SetOwner_Skip ==
  /\ pc = "owner" /\ Exit(0)
  /\ UNCHANGED <<discoveryVars, faults, world, clock, store>>

\* set_custom_object_owner; a failure is only a warning.
Owned == owner' = [owner EXCEPT ![ref.name] = job.attempts]
SetOwner ==
  /\ pc = "owner" /\ Exit(0)
  /\ Answered(Owned) \/ Failed(Owned, UNCHANGED owner)
  /\ UNCHANGED <<discoveryVars, world, clock, series, aiboms, anchor>>

-----------------------------------------------------------------------------
(* Users and the garbage collector *)

Ended == job.state \in {"succeeded", "failed"}

DeleteAibom(a) ==
  /\ Ended /\ aiboms[a] # None /\ aiboms' = [aiboms EXCEPT ![a] = None]
  /\ UNCHANGED <<discoveryVars, faults, world, job, pc, run, draft, clock,
                 series, owner, anchor>>

CollectSeries(n) ==
  /\ series[n] # NoDoc /\ owner[n] # 0 /\ aiboms[owner[n]] = None
  /\ series' = [series EXCEPT ![n] = NoDoc]
  /\ UNCHANGED <<discoveryVars, faults, world, job, pc, run, draft, clock,
                 owner, aiboms, anchor>>

-----------------------------------------------------------------------------
Init ==
  /\ input \in Inputs /\ faults = input.faults /\ clock = input.now
  /\ ingested = input.scrapes
  /\ snap = [p \in Pods |-> IF p \in input.discovering THEN NoSnap ELSE Snapped]
  /\ data = [p \in Pods |-> IF p \in input.discovering THEN NoEntry
                            ELSE Entered(input.key)]
  /\ isvc = (IF input.discovering = {} THEN "absent" ELSE "present")
  /\ key = input.key
  /\ job = [state |-> "waiting", attempts |-> 0, pods |-> <<>>]
  /\ pc = "idle" /\ run = NoRun /\ aibom = None /\ ref = None /\ sig = None
  /\ series = [a \in Attempts |-> NoDoc] /\ owner = [a \in Attempts |-> 0]
  /\ aiboms = [a \in Attempts |-> None] /\ anchor = "absent"

\* The pods, before they have ended.
Workload ==
  /\ job.state = "waiting"
  /\ (\E p \in Pods : DiscoveryStep(p) \/ Again(p)) \/ DeleteService \/ KeyAppears
  /\ UNCHANGED <<world, job, pc, run, draft, clock, store>>

Collect ==
  \/ Detect \/ SkipPod \/ BeginPod \/ EndRound \/ EndLoop \/ BeginSeries \/ Fit
  \/ \E m \in Usage \cup Serving : Query(m) \/ QuerySeries(m)

Deliver ==
  \/ Compile \/ Publish \/ NoSeries \/ sign_aibom \/ PublishKey
  \/ CreateAibom \/ SetOwner

RunStep == StartAttempt \/ Collect \/ Deliver

Next ==
  \/ Workload \/ WorkloadEnds \/ RunStep \/ Crash
  \/ \E p \in Pods, m \in Usage \cup Serving : Ingest(p, m)
  \/ \E a \in Attempts : DeleteAibom(a) \/ CollectSeries(a)

Spec == Init /\ [][Next]_vars

\* The kubelet runs the init containers, whose stages have deadlines, and the
\* Job's process, whose requests have timeouts; what it computes between them
\* comes to an end.
PodStep(p) == Workload /\ snap[p].pc # "done" /\ snap'[p] # snap[p]
Request ==
  \/ StartAttempt \/ SkipPod \/ BeginPod \/ EndRound \/ EndLoop \/ BeginSeries
  \/ \E m \in Usage \cup Serving : Query(m)
  \/ Publish \/ NoSeries \/ sign_aibom \/ PublishKey \/ CreateAibom \/ SetOwner
Fairness ==
  /\ \A p \in Pods : WF_vars(PodStep(p))
  /\ WF_vars(Request) /\ \A c \in {"load", "lines", "compile"} : []<>(pc # c)

FairSpec == Spec /\ Fairness

-----------------------------------------------------------------------------
(* Properties *)

SnapPCs == {"collect", "name", "sign", "storage", "files", "signStorage",
            "write", "done"}
RunPCs == {"idle", "load", "pod", "query", "series", "lines", "compile",
           "publish", "sign", "anchor", "create", "owner"}

TypeOK ==
  /\ faults \in 0 .. input.faults /\ clock \in 0 .. Horizon
  /\ isvc \in {"present", "absent"} /\ key \in {"mounted", "missing"}
  /\ \A p \in Pods :
       /\ snap[p].pc \in SnapPCs /\ snap[p].run \in 1 .. MaxExecutions
       /\ data[p].disc \in 0 .. MaxExecutions /\ data[p].memory \in {"read", "unread"}
  /\ job \in [state : {"waiting", "active", "succeeded", "failed"},
              attempts : 0 .. BackoffLimit + 1, pods : Seq(Pods)]
  /\ pc \in RunPCs /\ (pc # "idle" => job.state = "active")
  /\ (ref # None => ref.name = job.attempts)
  /\ owner \in [Attempts -> 0 .. BackoffLimit + 1]
  /\ DOMAIN series = Attempts /\ DOMAIN aiboms = Attempts
  /\ anchor \in {"published", "absent"}

\* A signature in the ConfigMap is that of the payload beside it, also after
\* an init container ran again with other results and a merge patch replaced
\* only some of the keys (generate_snapshot.py, data_updates).
EntriesVerify ==
  \A p \in Pods : /\ data[p].sig \in {0, data[p].disc}
                  /\ data[p].storSig \in {0, data[p].stor}

\* Whatever a discovery container meets, its pod gets to start (_run_stage).
PodsStart == \A p \in Pods : <>(snap[p].pc = "done")

\* Following directories by their last names is as good as following them by
\* their paths, for a plain script (detect_git_clone_from_command).
CloneFollowsScript ==
  pc = "load" => \A c \in ToSet(input.containers) : Shell(c.script).plain =>
    detect_git_clone_from_command(c.script) = ShellCheckout(c.script)

\* The reported source code is one checkout: sources that do not contradict
\* each other, the annotations among them, provide every field of it
\* (merge_provenance, main: "if it describes the same checkout").
OneCheckout ==
  pc = "publish" =>
    LET images == {ImageProvenance(c.labels) : c \in ToSet(input.containers)}
        said == [a |-> input.annotated, r |-> input.runtime,
                 c |-> detect_git_clone_from_containers(input.containers)]
    IN \E used \in SUBSET DOMAIN said : \E image \in images \cup {Nothing} :
         /\ \A x, y \in used : ~Contradict(said[x], said[y])
         /\ \A x \in used : ~Contradict(said[x], image)
         /\ (input.annotated # Nothing => "a" \in used)
         /\ \A f \in {"commit", "repo", "branch", "dirty"} :
              aibom.source[f] # None =>
                \/ image[f] = aibom.source[f]
                \/ \E x \in used : said[x][f] = aibom.source[f]

\* The workload's status does not depend on the order of pods and containers:
\* a kill that counts is reported, "Completed" means that nothing that counts
\* failed; and no kill is invisible, whatever restarted or was retried
\* (compile_aibom, pod_status_from_containers, pod_restart_info).
StatusIsWorst ==
  pc = "publish" =>
    LET listed   == {c \in ToSet(input.containers) : c.pod \in ToSet(job.pods)}
        counted  == {c \in listed : c.job # "Complete"}
        reasons  == {c.reason : c \in counted} \ {None}
        finished == {c \in listed : c.job = "Complete" \/ c.reason = "Completed"}
    IN /\ aibom.status = "OOMKilled" <=> "OOMKilled" \in reasons
       /\ aibom.status = "Completed" <=>
            /\ reasons \subseteq {"Completed"} /\ finished # {}
            /\ \A c \in listed : c.job # "Failed"
       /\ aibom.status # "Failed" => aibom.status \in reasons \cup {None, "Completed"}
       /\ \A c \in listed : "OOMKilled" \in {c.reason, c.last} =>
            \E i \in DOMAIN aibom.pods :
              aibom.pods[i].pod = c.pod
              /\ "OOMKilled" \in {aibom.pods[i].status, aibom.pods[i].last}

\* A container that was killed is in the status of the workload, unless its
\* Job completed: "OOMKilled if any pod hit it" (compile_aibom).
OOMReported ==
  pc = "publish" =>
    ((\E c \in ToSet(input.containers) :
        c.reason = "OOMKilled" /\ c.job # "Complete")
     => aibom.status = "OOMKilled")

\* The statistics of a pod that ran cover a part of its run, and no more than
\* the duration that is reported later (_pod_stats_window, compile_aibom).
WindowsWithinRun ==
  \A l \in Loops : \A p \in Collected(l) :
    LET win == run.tele[l][p].win
    IN /\ win.start <= win.stats /\ (win.start < win.end => win.stats < win.end)
       /\ win.end <= clock \/ win.end = win.start
       /\ pc = "publish" =>
            aibom.duration >= win.end - Min({input.start[q] : q \in ToSet(job.pods)})

\* A pod's metric is given up only after the last attempt, also when others
\* arrived earlier (_collect_metrics_with_retry).
RetriedUntilFound ==
  pc \in {"series", "compile"} =>
    \A l \in Loops : \A p \in Collected(l) : \A m \in Metrics(l) :
      LET got == run.tele[l][p]
      IN got.tries[m] = TELEMETRY_RETRY_ATTEMPTS \/ got.points[m] # {}

\* What the statistics of any pod were computed from is in the series as well,
\* up to the last whole step, for the metrics that the series have: each value
\* of a gauge; and each two scrapes of a counter, as long as the step is so
\* much shorter than the rate's window that one window has them both
\* (collect_telemetry_series runs after the retries, over all windows).
SeriesSeesStats ==
  pc = "lines" =>
    \A l \in Loops : \A p \in Collected(l) : \A m \in Metrics(l) \cap DOMAIN run.raw :
      \A u, t \in run.tele[l][p].points[m] :
        /\ IF m \in Gauges THEN u = t
           ELSE u < t /\ t - u + run.window.step <= RateWindow
        /\ \E k \in 1 .. Horizon, w \in Windows : t <= Grid(k) /\ Grid(k) <= w.end
        => \E k \in run.raw[m].agg : Grid(k) - Width(m) < u /\ t <= Grid(k)

\* The stored document is the collected one on a coarser grid: every bucket
\* that had a point has one, no aggregate is dropped, the longest line keeps
\* SERIES_MIN_POINTS, and detail goes only if no allowed grid fits with it
\* (_fit_series_doc).
FitSound ==
  pc = "compile" /\ run.raw # NoDoc =>
    LET buckets(line, f) == {b \in 0 .. Horizon : \E i \in line :
                               b * f <= i /\ i < (b + 1) * f}
        coarser(f) == \A m \in DOMAIN run.raw :
            /\ run.doc[m].agg = buckets(run.raw[m].agg, f)
            /\ run.doc[m].peak = buckets(run.raw[m].peak, f)
            /\ run.doc[m].lines \in
                 {<<>>, [i \in DOMAIN run.raw[m].lines |->
                           buckets(run.raw[m].lines[i], f)]}
        kept(m) == Len(run.doc[m].lines) = Len(run.raw[m].lines)
        grids == {1} \cup Factors(run.raw)
    IN \/ /\ run.doc = NoDoc
          /\ ~Fits(WithoutDetail(_rebucket_series_doc(run.raw, Max(grids)),
                                 DOMAIN run.raw))
       \/ /\ DOMAIN run.doc = DOMAIN run.raw /\ Fits(run.doc)
          /\ \E f \in grids : coarser(f)
          /\ Longest(run.doc) >= Min({SERIES_MIN_POINTS, Longest(run.raw)})
          /\ \/ \A m \in DOMAIN run.raw : kept(m)
             \/ \A f \in grids : ~Fits(_rebucket_series_doc(run.raw, f))

\* The series object that an AIBOM refers to exists and is what the reference
\* says, and a signature is of the data and the reference, whatever fails in
\* between and whatever is deleted and collected later (main,
\* publish_series_object, set_custom_object_owner).
RefStored ==
  \A a \in Attempts : aiboms[a] # None =>
    LET r == aiboms[a].ref
    IN /\ r # None => series[r.name] # NoDoc /\ series[r.name] = r.digest
       /\ aiboms[a].sig \in {None, <<aiboms[a].data, r>>}

\* Every object too many costs a failed call or process: second AIBOMs, series
\* that nothing refers to or will be collected with, a key not published.
LeftoversCostFaults ==
  LET referred(n) == \/ ref # None /\ ref.name = n
                     \/ \E a \in Attempts : aiboms[a] # None
                          /\ aiboms[a].ref # None /\ aiboms[a].ref.name = n
      created  == {a \in Attempts : aiboms[a] # None}
      orphans  == {n \in Attempts : series[n] # NoDoc /\ owner[n] = 0 /\ ~referred(n)}
      unknown  == {k \in {"key"} : anchor = "absent"
                                   /\ \E a \in created : aiboms[a].sig # None}
  IN Cardinality(orphans) + Max({Cardinality(created) - 1, 0})
     + Cardinality(unknown) <= input.faults - faults

\* A postprocess Job that started ends, with or without telemetry.
JobEnds == job.state = "active" ~> Ended

\* A Job succeeds only with an AIBOM, and fails only if each of its processes
\* met a failure or what it was given cannot be compiled (main, sys.exit).
JobTellsTruth ==
  [][/\ job'.state = "succeeded" /\ job.state # "succeeded" =>
          aiboms'[job.attempts] # None
     /\ job'.state = "failed" /\ job.state # "failed" =>
          \/ input.faults - faults' > BackoffLimit
          \/ ~Readable]_vars

=============================================================================
