--------------------------- MODULE TelemetryProofs ---------------------------
(***************************************************************************)
(* What the AIBOM says of the run is what the process was given: telemetry *)
(* is asked for until it is found or the attempts are used up, the windows *)
(* are within the run, the series has what the statistics were computed    *)
(* from, and the status is the worst that counts; for any pods, metrics,   *)
(* containers, scrapes and attempts.                                       *)
(***************************************************************************)
EXTENDS PostprocessProofs, DiscoveryProofs, ReportProofs

Times == 0 .. Horizon
AllMetrics == Usage \cup Serving

\* Scrapes are of the time after their pod's start.
Timed ==
  /\ input \in Inputs /\ clock \in Times
  /\ ingested \in [Pods -> [AllMetrics -> SUBSET (1 .. Horizon)]]
  /\ \A p \in Pods, m \in AllMetrics : \A t \in ingested[p][m] : input.start[p] < t

\* The process is at a pod of the Job's, in one of the two loops.
Place ==
  /\ job.pods \in Seq(Pods)
  /\ DOMAIN run = {"prov", "loop", "i", "round", "todo", "tele", "window", "raw", "doc"}
  /\ run.loop \in Loops /\ run.i \in Nat \ {0}
  /\ DOMAIN run.tele = Loops /\ \A l \in Loops : DOMAIN run.tele[l] = Pods
  /\ pc = "idle" => run = NoRun
  /\ pc = "query" => /\ run.i <= Len(job.pods)
                     /\ run.round \in 1 .. TELEMETRY_RETRY_ATTEMPTS
                     /\ run.todo \subseteq Metrics(run.loop)

Current(l, p) == pc = "query" /\ l = run.loop /\ p = Pod

\* A window is of its pod's run, as far as it was known when it was asked for.
WindowOK(p, win) ==
  LET f == _pod_finished_ms(p, input.containers)
  IN /\ win.start = input.start[p] /\ win.stats \in Nat /\ win.end \in Nat
     /\ win.start <= win.stats /\ (win.start < win.end => win.stats < win.end)
     /\ win.end = win.start \/ (win.end <= clock /\ (f # None => win.end <= f))

\* A metric of the pod that is being asked about was asked about in this round,
\* in the last one, or found; one of a pod that is done was asked about in the
\* last possible round, or found.
AskedEnough(l, p, m) ==
  LET got == run.tele[l][p]
  IN IF Current(l, p) /\ m \in run.todo THEN got.tries[m] = run.round - 1
     ELSE \/ got.points[m] # {}
          \/ got.tries[m] = IF Current(l, p) THEN run.round
                            ELSE TELEMETRY_RETRY_ATTEMPTS

Told(l, p) ==
  LET got == run.tele[l][p]
  IN /\ DOMAIN got = {"win", "tries", "points"}
     /\ p \in ToSet(job.pods) /\ WindowOK(p, got.win)
     /\ DOMAIN got.tries = Metrics(l) /\ DOMAIN got.points = Metrics(l)
     /\ \A m \in Metrics(l) :
          got.points[m] \subseteq ingested[p][m] /\ AskedEnough(l, p, m)

TeleInv ==
  \A l \in Loops, p \in Pods : run.tele[l][p] # None \/ Current(l, p) => Told(l, p)

-----------------------------------------------------------------------------
(* Time and scrapes *)

LEMMA Given ==
  ASSUME input \in Inputs
  PROVE  InputOK(input) /\ Horizon \in Nat
BY PostprocessAssumption

LEMMA MetricsOf ==
  /\ \A l \in Loops : Metrics(l) \subseteq AllMetrics
  /\ AllMetrics = Usage \cup Serving
BY DEF Metrics, Loops, AllMetrics

LEMMA TimedInit == Init => Timed
<1> SUFFICES ASSUME Init PROVE Timed
  OBVIOUS
<1>1. input \in Inputs /\ clock = input.now /\ ingested = input.scrapes
  BY DEF Init
<1> QED
  BY <1>1, Given DEF Timed, InputOK, Times, AllMetrics

\* What a step does to the clock and to what Prometheus has.
LEMMA TimedNext ==
  ASSUME Timed, [Next]_vars
  PROVE  /\ Timed' /\ input' = input /\ clock <= clock'
         /\ \A p \in Pods, m \in AllMetrics : ingested[p][m] \subseteq ingested'[p][m]
<1>1. ASSUME input' = input, clock' \in Times, clock <= clock', ingested' = ingested
      PROVE  /\ Timed' /\ input' = input /\ clock <= clock'
             /\ \A p \in Pods, m \in AllMetrics : ingested[p][m] \subseteq ingested'[p][m]
  BY <1>1 DEF Timed
<1>2. Horizon \in Nat /\ clock \in Times /\ clock <= clock
  BY Given DEF Timed, Times
<1>3. \A now \in Later : now \in Times /\ clock <= now
  BY <1>2 DEF Later, Times
<1>4. CASE Workload \/ WorkloadEnds \/ StartAttempt \/ Crash
  BY <1>1, <1>2, <1>4 DEF Workload, WorkloadEnds, StartAttempt, Crash, world
<1>5. CASE Collect
  <2>1. CASE BeginPod
    BY <1>1, <1>3, <2>1 DEF BeginPod, rest, world
  <2>2. CASE Detect \/ SkipPod \/ EndRound \/ EndLoop \/ BeginSeries \/ Fit
    BY <1>1, <1>2, <2>2 DEF Detect, SkipPod, EndRound, EndLoop, BeginSeries, Fit, rest, world
  <2>3. CASE \E m \in AllMetrics : Query(m) \/ QuerySeries(m)
    BY <1>1, <1>2, <2>3 DEF Query, QuerySeries, rest, world
  <2> QED
    BY <1>5, <2>1, <2>2, <2>3 DEF Collect, AllMetrics
<1>6. CASE Deliver
  <2>1. CASE Compile
    BY <1>1, <1>2, <1>3, <2>1 DEF Compile, world
  <2>2. CASE Publish \/ NoSeries \/ sign_aibom \/ PublishKey \/ CreateAibom \/ SetOwner
    BY <1>1, <1>2, <2>2 DEF Publish, NoSeries, sign_aibom, PublishKey, CreateAibom,
                            SetOwner, rest, world
  <2> QED
    BY <1>6, <2>1, <2>2 DEF Deliver
<1>7. CASE \E a \in Attempts : DeleteAibom(a) \/ CollectSeries(a)
  BY <1>1, <1>2, <1>7 DEF DeleteAibom, CollectSeries, world
<1>8. CASE UNCHANGED vars
  BY <1>1, <1>2, <1>8 DEF vars, world
<1>9. ASSUME NEW p \in Pods, NEW m \in AllMetrics, Ingest(p, m)
      PROVE  /\ Timed' /\ input' = input /\ clock <= clock'
             /\ \A q \in Pods, n \in AllMetrics : ingested[q][n] \subseteq ingested'[q][n]
  <2>1. PICK t \in Scraped(p) : /\ t <= clock
                                /\ ingested' = [ingested EXCEPT ![p][m] = @ \cup {t}]
    BY <1>9 DEF Ingest
  <2>2. input' = input /\ clock' = clock
    BY <1>9 DEF Ingest
  <2>3. input.start[p] \in Nat /\ t \in input.start[p] + 1 .. clock
    <3>1. input.start[p] \in Nat
      BY Given DEF Timed, InputOK
    <3> HIDE DEF Times
    <3> QED
      BY <3>1, <2>1, <1>2 DEF Scraped, Times
  <2>4. t \in 1 .. Horizon /\ input.start[p] < t
    BY <2>3, <1>2 DEF Times
  <2>5. ingested' \in [Pods -> [AllMetrics -> SUBSET (1 .. Horizon)]]
    BY <2>1, <2>4 DEF Timed
  <2>6. \A q \in Pods, n \in AllMetrics :
          ingested'[q][n] = IF q = p /\ n = m THEN ingested[q][n] \cup {t}
                            ELSE ingested[q][n]
    BY <2>1 DEF Timed
  <2>7. \A q \in Pods, n \in AllMetrics :
          /\ ingested[q][n] \subseteq ingested'[q][n]
          /\ \A u \in ingested'[q][n] : input.start[q] < u
    <3> SUFFICES ASSUME NEW q \in Pods, NEW n \in AllMetrics
                 PROVE  /\ ingested[q][n] \subseteq ingested'[q][n]
                        /\ \A u \in ingested'[q][n] : input.start[q] < u
      OBVIOUS
    <3>1. \A u \in ingested[q][n] : input.start[q] < u
      BY DEF Timed
    <3>2. ingested'[q][n] = ingested[q][n]
          \/ (q = p /\ ingested'[q][n] = ingested[q][n] \cup {t})
      BY <2>6
    <3> QED
      BY <2>4, <3>1, <3>2
  <2>8. Timed'
    BY <2>2, <2>5, <2>7 DEF Timed
  <2> QED
    BY <1>2, <2>2, <2>7, <2>8
<1> QED
  BY <1>4, <1>5, <1>6, <1>7, <1>8, <1>9 DEF Next, RunStep, AllMetrics

-----------------------------------------------------------------------------
(* Telemetry *)

LEMMA Attempted == TELEMETRY_RETRY_ATTEMPTS \in Nat \ {0}
BY PostprocessAssumption

LEMMA TeleInit == Init => Place /\ TeleInv
<1> SUFFICES ASSUME Init PROVE Place /\ TeleInv
  OBVIOUS
<1>1. /\ pc = "idle" /\ run = NoRun /\ job.pods = <<>>
      /\ run.tele = NoTelemetry
  BY DEF Init, NoRun
<1>2. Place
  BY <1>1 DEF Place, NoRun, NoTelemetry, Loops
<1>3. TeleInv
  BY <1>1 DEF TeleInv, NoTelemetry, Current
<1> QED
  BY <1>2, <1>3

\* A window stays a window of the run as the clock advances.
LEMMA WindowKept ==
  ASSUME NEW p, NEW win, WindowOK(p, win), input' = input,
         clock \in Int, clock' \in Int, clock <= clock', NEW win1, win1 = win
  PROVE  WindowOK(p, win1)'
BY DEF WindowOK

\* Nothing is lost of what was collected.
LEMMA TeleKept ==
  ASSUME TeleInv, Timed, Timed', input' = input, clock <= clock',
         \A p \in Pods, m \in AllMetrics : ingested[p][m] \subseteq ingested'[p][m],
         job'.pods = job.pods, run'.tele = run.tele,
         pc' = "query" <=> pc = "query",
         pc = "query" => /\ run'.loop = run.loop /\ run'.i = run.i
                         /\ run'.round = run.round /\ run'.todo = run.todo
  PROVE  TeleInv'
<1> SUFFICES ASSUME NEW l \in Loops, NEW p \in Pods,
                    run'.tele[l][p] # None \/ Current(l, p)'
             PROVE  Told(l, p)'
  BY DEF TeleInv
<1>1. Current(l, p)' <=> Current(l, p)
  BY DEF Current, Pod
<1>2. Told(l, p) /\ run'.tele[l][p] = run.tele[l][p]
  BY <1>1 DEF TeleInv
<1> DEFINE got == run.tele[l][p]
<1>3. WindowOK(p, got.win)'
  <2>1. clock \in Int /\ clock' \in Int
    BY Given DEF Timed, Times
  <2> QED
    BY <1>2, <2>1, WindowKept DEF Told
<1>4. ASSUME NEW m \in Metrics(l)
      PROVE  got'.points[m] \subseteq ingested'[p][m] /\ AskedEnough(l, p, m)'
  <2>1. AskedEnough(l, p, m)'
    <3>1. AskedEnough(l, p, m)
      BY <1>2 DEF Told
    <3>2. Current(l, p) => run'.round = run.round /\ run'.todo = run.todo
      BY DEF Current
    <3> QED
      BY <1>1, <1>2, <3>1, <3>2 DEF AskedEnough
  <2>2. m \in AllMetrics
    BY MetricsOf
  <2> QED
    BY <1>2, <2>1, <2>2 DEF Told
<1> QED
  BY <1>2, <1>3, <1>4 DEF Told

LEMMA TeleEmpty ==
  ASSUME pc' # "query", run'.tele = NoTelemetry
  PROVE  TeleInv'
BY DEF TeleInv, NoTelemetry, Current

\* The process ends, and leaves nothing.
LEMMA TeleExit ==
  ASSUME Shape, Place, NEW code \in {0, 1}, Exit(code)
  PROVE  Place' /\ TeleInv'
<1>1. pc' = "idle" /\ run' = NoRun /\ run'.tele = NoTelemetry
  BY DEF Exit, NoRun
<1>2. job'.pods = job.pods
  BY DEF Exit, Shape
<1>3. Place'
  BY <1>1, <1>2 DEF Place, NoRun, NoTelemetry, Loops
<1> QED
  BY <1>1, <1>3, TeleEmpty

\* A step that is not at a pod's metrics, and goes on to none.
LEMMA TeleAside ==
  ASSUME Shape, Place, TeleInv, Timed, Timed', input' = input, clock <= clock',
         \A p \in Pods, m \in AllMetrics : ingested[p][m] \subseteq ingested'[p][m],
         job'.pods = job.pods,
         \/ /\ run' = run /\ pc' = pc
         \/ /\ run' = run /\ pc' \notin {"idle", "query"} /\ pc # "query"
         \/ /\ DOMAIN run' = DOMAIN run /\ run'.tele = run.tele
            /\ run'.loop \in Loops /\ run'.i \in Nat \ {0}
            /\ pc \notin {"idle", "query"} /\ pc' \notin {"idle", "query"}
  PROVE  Place' /\ TeleInv'
<1>1. TeleInv'
  BY TeleKept
<1>2. Place'
  BY DEF Place
<1> QED
  BY <1>1, <1>2

LEMMA SkipTele ==
  ASSUME Place, NEW m,
         Detect \/ SkipPod \/ EndLoop \/ BeginSeries \/ Fit \/ QuerySeries(m)
  PROVE  /\ DOMAIN run' = DOMAIN run /\ run'.tele = run.tele
         /\ run'.loop \in Loops /\ run'.i \in Nat \ {0}
         /\ pc \notin {"idle", "query"} /\ pc' \notin {"idle", "query"}
         /\ job' = job /\ ingested' = ingested
<1>1. CASE Detect
  BY <1>1 DEF Detect, Place, rest, world
<1>2. CASE SkipPod
  BY <1>2 DEF SkipPod, Place, rest, world
<1>3. CASE EndLoop
  <2>1. \/ run' = [run EXCEPT !.loop = "serving", !.i = 1] /\ pc' = pc
        \/ run' = run /\ pc' = "series"
    BY <1>3 DEF EndLoop
  <2>2. pc = "pod" /\ job' = job /\ ingested' = ingested
    BY <1>3 DEF EndLoop, rest, world
  <2>3. CASE run' = [run EXCEPT !.loop = "serving", !.i = 1] /\ pc' = pc
    BY <2>2, <2>3 DEF Place, Loops
  <2>4. CASE run' = run /\ pc' = "series"
    BY <2>2, <2>4 DEF Place
  <2> QED
    BY <2>1, <2>3, <2>4
<1>4. CASE BeginSeries
  BY <1>4 DEF BeginSeries, Place, rest, world
<1>5. CASE Fit
  BY <1>5 DEF Fit, Place, rest, world
<1>6. CASE QuerySeries(m)
  BY <1>6 DEF QuerySeries, Place, rest, world
<1> QED
  BY <1>1, <1>2, <1>3, <1>4, <1>5, <1>6

\* The pod at hand is one of the Job's.
LEMMA PodAt ==
  ASSUME Place, run.i <= Len(job.pods)
  PROVE  Pod \in Pods /\ Pod \in ToSet(job.pods)
<1>1. run.i \in 1 .. Len(job.pods) /\ Pod = job.pods[run.i]
  BY DEF Place, Pod
<1> QED
  BY <1>1 DEF Place, ToSet

\* The rest of what was told stays so when one pod's telemetry changes.
LEMMA ToldOthers ==
  ASSUME TeleInv, Timed, Timed', input' = input, clock <= clock',
         ingested' = ingested, job' = job,
         NEW l \in Loops, NEW p \in Pods, run.tele[l][p] # None,
         run'.tele[l][p] = run.tele[l][p], ~Current(l, p), ~Current(l, p)'
  PROVE  Told(l, p)'
<1>1. Told(l, p)
  BY DEF TeleInv
<1> DEFINE got == run.tele[l][p]
<1>2. WindowOK(p, got.win)'
  <2>1. clock \in Int /\ clock' \in Int
    BY Given DEF Timed, Times
  <2> QED
    BY <1>1, <2>1, WindowKept DEF Told
<1>3. ASSUME NEW m \in Metrics(l) PROVE AskedEnough(l, p, m)'
  BY <1>1 DEF Told, AskedEnough
<1> QED
  BY <1>1, <1>2, <1>3 DEF Told

LEMMA BeginTele ==
  ASSUME Place, TeleInv, Timed, Timed', input' = input, clock <= clock', BeginPod
  PROVE  Place' /\ TeleInv'
<1>1. /\ pc = "pod" /\ pc' = "query" /\ run.i <= Len(job.pods)
      /\ job' = job /\ ingested' = ingested
  <2>1. Len(job.pods) \in Nat /\ run.i \in Nat
    BY DEF Place
  <2> QED
    BY <2>1 DEF BeginPod, LoopDone, rest, world
<1>2. PICK l0 \in Loops, p0 \in Pods :
        l0 = run.loop /\ p0 = Pod /\ p0 \in ToSet(job.pods)
  BY <1>1, PodAt DEF Place
<1>3. PICK now \in Later :
        /\ clock' = now
        /\ run' = [run EXCEPT !.round = 1, !.todo = Metrics(run.loop),
             !.tele[run.loop][Pod] =
               [win |-> StatsWindow(input.start[Pod],
                          _pod_finished_ms(Pod, input.containers), now),
                tries |-> [m \in Metrics(run.loop) |-> 0],
                points |-> [m \in Metrics(run.loop) |-> {}]]]
  BY DEF BeginPod
<1>4. PICK f, win : /\ f = _pod_finished_ms(p0, input.containers)
                    /\ win = StatsWindow(input.start[p0], f, now)
  OBVIOUS
<1>5. PICK got : got = [win |-> win, tries |-> [m \in Metrics(l0) |-> 0],
                        points |-> [m \in Metrics(l0) |-> {}]]
  OBVIOUS
<1>6. /\ DOMAIN run' = DOMAIN run /\ run'.loop = l0 /\ run'.i = run.i
      /\ run'.round = 1 /\ run'.todo = Metrics(l0)
      /\ run'.tele = [run.tele EXCEPT ![l0][p0] = got]
  BY <1>2, <1>3, <1>4, <1>5 DEF Place
<1>7. /\ DOMAIN run'.tele = Loops /\ \A l \in Loops : DOMAIN run'.tele[l] = Pods
      /\ run'.tele[l0][p0] = got
      /\ \A l \in Loops, p \in Pods : l # l0 \/ p # p0 => run'.tele[l][p] = run.tele[l][p]
  BY <1>2, <1>6 DEF Place
<1>8. Place'
  BY <1>1, <1>2, <1>6, <1>7, Attempted DEF Place
<1>9. Current(l0, p0)' /\ \A l, p : Current(l, p)' => l = l0 /\ p = p0
  BY <1>1, <1>2, <1>6 DEF Current, Pod
<1>10. WindowOK(p0, win)'
  <2>1. /\ input.start[p0] \in Nat /\ now \in Nat
        /\ input.containers \in Seq(ToSet(input.containers))
        /\ \A c \in ToSet(input.containers) : c.finished \in Nat \cup {None}
    BY Given DEF Timed, InputOK, Later, Times
  <2>2. f \in Nat \cup {None}
    BY <1>4, <2>1, PodFinished
  <2>3. PICK start \in Nat : start = input.start[p0]
    BY <2>1
  <2>4. /\ win = [start |-> start, end |-> win.end, stats |-> win.stats]
        /\ win.stats \in Nat /\ win.end \in Nat
        /\ start <= win.stats /\ start <= win.end
        /\ start < win.end => win.stats < win.end
        /\ win.end = start \/ (win.end <= now /\ (f # None => win.end <= f))
    BY <1>4, <2>1, <2>2, <2>3, WindowOf
  <2>5. win.start = start
    BY <2>4
  <2> QED
    BY <1>3, <1>4, <2>3, <2>4, <2>5 DEF WindowOK
<1>11. Told(l0, p0)'
  <2>1. got.win = win /\ DOMAIN got = {"win", "tries", "points"}
        /\ DOMAIN got.tries = Metrics(l0) /\ DOMAIN got.points = Metrics(l0)
        /\ \A m \in Metrics(l0) : got.points[m] = {} /\ got.tries[m] = 0
    BY <1>5
  <2>2. \A m \in Metrics(l0) : AskedEnough(l0, p0, m)'
    BY <1>6, <1>7, <1>9, <2>1 DEF AskedEnough
  <2> QED
    BY <1>1, <1>2, <1>7, <1>10, <2>1, <2>2 DEF Told
<1>12. ASSUME NEW l \in Loops, NEW p \in Pods, l # l0 \/ p # p0,
              run'.tele[l][p] # None
       PROVE  Told(l, p)'
  BY <1>1, <1>7, <1>9, <1>12, ToldOthers DEF Current
<1> QED
  BY <1>2, <1>8, <1>9, <1>11, <1>12 DEF TeleInv

\* What the pod at hand was told, beside the metric in question.
LEMMA AtPod ==
  ASSUME Place, TeleInv, pc = "query"
  PROVE  \E l0 \in Loops, p0 \in Pods :
           /\ l0 = run.loop /\ p0 = Pod /\ p0 \in ToSet(job.pods)
           /\ Current(l0, p0) /\ Told(l0, p0)
           /\ \A l, p : Current(l, p) => l = l0 /\ p = p0
<1>1. PICK l0 \in Loops, p0 \in Pods :
        l0 = run.loop /\ p0 = Pod /\ p0 \in ToSet(job.pods)
  BY PodAt DEF Place
<1>2. Current(l0, p0) /\ \A l, p : Current(l, p) => l = l0 /\ p = p0
  BY <1>1 DEF Current
<1>3. Told(l0, p0)
  BY <1>2 DEF TeleInv
<1> QED
  BY <1>1, <1>2, <1>3

LEMMA QueryTele ==
  ASSUME Place, TeleInv, Timed, Timed', input' = input, clock <= clock',
         NEW m \in AllMetrics, Query(m)
  PROVE  Place' /\ TeleInv'
<1>1. pc = "query" /\ pc' = "query" /\ job' = job /\ ingested' = ingested /\ m \in run.todo
  BY DEF Query, rest, world
<1>2. PICK l0 \in Loops, p0 \in Pods :
           /\ l0 = run.loop /\ p0 = Pod /\ p0 \in ToSet(job.pods)
           /\ Current(l0, p0) /\ Told(l0, p0)
           /\ \A l, p : Current(l, p) => l = l0 /\ p = p0
  BY <1>1, AtPod
<1>3. PICK ps \in SUBSET ingested[p0][m] :
        run' = [run EXCEPT !.todo = @ \ {m},
             !.tele[run.loop][Pod] =
               [Telemetry EXCEPT !.points[m] = ps, !.tries[m] = @ + 1]]
  <2>1. Points(m) \subseteq ingested[p0][m]
    BY <1>2 DEF Points, Computed
  <2> QED
    BY <1>2, <2>1 DEF Query
<1>4. PICK old : /\ old = run.tele[l0][p0] /\ m \in Metrics(l0)
                 /\ DOMAIN old = {"win", "tries", "points"}
                 /\ DOMAIN old.tries = Metrics(l0) /\ DOMAIN old.points = Metrics(l0)
  BY <1>1, <1>2 DEF Told, Place
<1>5. PICK new : /\ new = [old EXCEPT !.points[m] = ps, !.tries[m] = @ + 1]
                 /\ run' = [run EXCEPT !.todo = @ \ {m}, !.tele[l0][p0] = new]
  <2>1. Telemetry = old /\ l0 = run.loop /\ p0 = Pod
    BY <1>2, <1>4 DEF Telemetry
  <2> QED
    BY <1>3, <2>1
<1>6. /\ DOMAIN run' = DOMAIN run /\ run'.loop = l0 /\ run'.i = run.i
      /\ run'.round = run.round /\ run'.todo = run.todo \ {m}
      /\ run'.tele = [run.tele EXCEPT ![l0][p0] = new]
  BY <1>2, <1>5 DEF Place
<1>7. /\ DOMAIN new = {"win", "tries", "points"} /\ new.win = old.win
      /\ DOMAIN new.tries = Metrics(l0) /\ DOMAIN new.points = Metrics(l0)
      /\ new.points[m] = ps /\ new.tries[m] = old.tries[m] + 1
      /\ \A n \in Metrics(l0) : n # m =>
           new.points[n] = old.points[n] /\ new.tries[n] = old.tries[n]
  BY <1>4, <1>5
<1>8. /\ DOMAIN run'.tele = Loops /\ \A l \in Loops : DOMAIN run'.tele[l] = Pods
      /\ run'.tele[l0][p0] = new
      /\ \A l \in Loops, p \in Pods : l # l0 \/ p # p0 => run'.tele[l][p] = run.tele[l][p]
  BY <1>2, <1>6 DEF Place
<1>9. Place'
  BY <1>1, <1>2, <1>6, <1>8 DEF Place
<1>10. Current(l0, p0)' /\ \A l, p : Current(l, p)' => l = l0 /\ p = p0
  BY <1>1, <1>2, <1>6 DEF Current, Pod
<1>11. Told(l0, p0)'
  <2>1. WindowOK(p0, new.win)'
    <3>1. clock \in Int /\ clock' \in Int
      BY Given DEF Timed, Times
    <3> QED
      BY <1>2, <1>4, <1>7, <3>1, WindowKept DEF Told
  <2>2. \A n \in Metrics(l0) : AskedEnough(l0, p0, n)'
    <3> SUFFICES ASSUME NEW n \in Metrics(l0) PROVE AskedEnough(l0, p0, n)'
      OBVIOUS
    <3>1. AskedEnough(l0, p0, n) /\ AskedEnough(l0, p0, m)
      BY <1>2, <1>4 DEF Told
    <3>2. run.round \in Nat
      BY <1>1 DEF Place
    <3>3. CASE n = m
      <4>1. old.tries[m] = run.round - 1
        BY <1>1, <1>2, <1>4, <3>1 DEF AskedEnough
      <4>2. new.tries[m] = run'.round /\ m \notin run'.todo
        BY <1>6, <1>7, <3>2, <4>1
      <4> QED
        BY <1>8, <1>10, <3>3, <4>2 DEF AskedEnough
    <3>4. CASE n # m
      BY <1>2, <1>4, <1>6, <1>7, <1>8, <1>10, <3>1, <3>4 DEF AskedEnough
    <3> QED
      BY <3>3, <3>4
  <2>3. \A n \in Metrics(l0) : new.points[n] \subseteq ingested'[p0][n]
    BY <1>1, <1>2, <1>3, <1>4, <1>7 DEF Told
  <2> QED
    BY <1>1, <1>2, <1>7, <1>8, <2>1, <2>2, <2>3 DEF Told
<1>12. ASSUME NEW l \in Loops, NEW p \in Pods, l # l0 \/ p # p0,
              run'.tele[l][p] # None
       PROVE  Told(l, p)'
  <2>1. run'.tele[l][p] = run.tele[l][p] /\ ~Current(l, p) /\ ~Current(l, p)'
    BY <1>2, <1>8, <1>10, <1>12
  <2> QED
    BY <1>1, <1>12, <2>1, ToldOthers
<1> QED
  BY <1>9, <1>10, <1>11, <1>12 DEF TeleInv

\* A round that leaves nothing open: what is missing is asked for again, or was
\* asked for in the last possible round.
LEMMA RoundTele ==
  ASSUME Place, TeleInv, Timed, Timed', input' = input, clock <= clock', EndRound
  PROVE  Place' /\ TeleInv'
<1>1. /\ pc = "query" /\ run.todo = {} /\ job' = job /\ ingested' = ingested
      /\ \/ Missing # {} /\ run.round < TELEMETRY_RETRY_ATTEMPTS /\ NextRound
         \/ (Missing = {} \/ ~(run.round < TELEMETRY_RETRY_ATTEMPTS)) /\ NextPod
  BY DEF EndRound, rest, world
<1>2. PICK l0 \in Loops, p0 \in Pods :
           /\ l0 = run.loop /\ p0 = Pod /\ p0 \in ToSet(job.pods)
           /\ Current(l0, p0) /\ Told(l0, p0)
           /\ \A l, p : Current(l, p) => l = l0 /\ p = p0
  BY <1>1, AtPod
<1>3. PICK got : /\ got = run.tele[l0][p0]
                 /\ DOMAIN got.points = Metrics(l0) /\ DOMAIN got.tries = Metrics(l0)
                 /\ \A m \in Metrics(l0) : got.tries[m] = run.round \/ got.points[m] # {}
  BY <1>1, <1>2 DEF Told, AskedEnough
<1>4. Missing = {m \in Metrics(l0) : got.points[m] = {}}
  BY <1>2, <1>3 DEF Missing, Telemetry
<1>5. run.round \in 1 .. TELEMETRY_RETRY_ATTEMPTS /\ run.i \in Nat \ {0}
  BY <1>1 DEF Place
<1>6. DOMAIN run' = DOMAIN run /\ run'.tele = run.tele /\ run'.loop = run.loop
  BY <1>1 DEF NextRound, NextPod, Place
<1>7. ASSUME NEW l \in Loops, NEW p \in Pods, l # l0 \/ p # p0,
             ~Current(l, p)', run'.tele[l][p] # None
      PROVE  Told(l, p)'
  <2>1. run'.tele[l][p] = run.tele[l][p] /\ ~Current(l, p)
    BY <1>2, <1>6, <1>7
  <2> QED
    BY <1>1, <1>7, <2>1, ToldOthers
<1>8. ASSUME \A m \in Metrics(l0) : AskedEnough(l0, p0, m)' PROVE Told(l0, p0)'
  <2>1. WindowOK(p0, got.win)'
    <3>1. clock \in Int /\ clock' \in Int
      BY Given DEF Timed, Times
    <3> QED
      BY <1>2, <1>3, <3>1, WindowKept DEF Told
  <2> QED
    BY <1>1, <1>2, <1>3, <1>6, <1>8, <2>1 DEF Told
<1>9. CASE Missing # {} /\ run.round < TELEMETRY_RETRY_ATTEMPTS /\ NextRound
  <2>1. pc' = "query" /\ run'.round = run.round + 1 /\ run'.todo = Missing /\ run'.i = run.i
    BY <1>1, <1>9 DEF NextRound, Place
  <2>2. Place'
    BY <1>1, <1>2, <1>4, <1>5, <1>6, <1>9, <2>1, Attempted DEF Place
  <2>3. Current(l0, p0)' /\ \A l, p : Current(l, p)' => l = l0 /\ p = p0
    BY <1>1, <1>2, <1>6, <2>1 DEF Current, Pod
  <2>4. \A m \in Metrics(l0) : AskedEnough(l0, p0, m)'
    BY <1>3, <1>4, <1>5, <1>6, <2>1, <2>3 DEF AskedEnough
  <2> QED
    BY <1>7, <1>8, <2>2, <2>3, <2>4 DEF TeleInv
<1>10. CASE (Missing = {} \/ ~(run.round < TELEMETRY_RETRY_ATTEMPTS)) /\ NextPod
  <2>1. pc' = "pod" /\ run'.i = run.i + 1
    BY <1>10 DEF NextPod, Place
  <2>2. Place'
    BY <1>1, <1>5, <1>6, <2>1 DEF Place
  <2>3. \A l, p : ~Current(l, p)'
    BY <2>1 DEF Current
  <2>4. \A m \in Metrics(l0) : AskedEnough(l0, p0, m)'
    BY <1>3, <1>4, <1>5, <1>6, <1>10, <2>3, Attempted DEF AskedEnough
  <2> QED
    BY <1>7, <1>8, <2>2, <2>3, <2>4 DEF TeleInv
<1> QED
  BY <1>1, <1>9, <1>10

LEMMA TeleDeliver ==
  ASSUME RefInv, Place, Deliver
  PROVE  \/ Exit(0) \/ Exit(1)
         \/ run' = run /\ pc # "query" /\ pc' \notin {"idle", "query"} /\ job' = job
<1>1. CASE Compile
  BY <1>1 DEF Compile
<1>2. CASE Publish \/ NoSeries \/ sign_aibom \/ PublishKey
  BY <1>2 DEF Publish, NoSeries, sign_aibom, PublishKey, rest
<1>3. CASE CreateAibom
  BY <1>3 DEF CreateAibom
<1>4. CASE SetOwner
  BY <1>4 DEF SetOwner
<1> QED
  BY <1>1, <1>2, <1>3, <1>4 DEF Deliver

LEMMA TeleNext ==
  ASSUME RefInv, Timed, Place, TeleInv, [Next]_vars
  PROVE  Place' /\ TeleInv'
<1>1. /\ Timed' /\ input' = input /\ clock <= clock'
      /\ \A p \in Pods, m \in AllMetrics : ingested[p][m] \subseteq ingested'[p][m]
  BY TimedNext
<1>2. Shape
  BY DEF RefInv
<1>3. CASE \/ Workload \/ UNCHANGED vars
           \/ \E p \in Pods, m \in Usage \cup Serving : Ingest(p, m)
           \/ \E a \in Attempts : DeleteAibom(a) \/ CollectSeries(a)
  <2>1. run' = run /\ pc' = pc /\ job' = job
    BY <1>3 DEF Workload, vars, Ingest, DeleteAibom, CollectSeries
  <2> QED
    BY <1>1, <1>2, <2>1, TeleAside
<1>4. CASE WorkloadEnds
  <2>1. /\ job.state = "waiting" /\ pc = "idle" /\ pc' = "idle" /\ run' = run
        /\ job'.pods = discoveries
    BY <1>2, <1>4 DEF WorkloadEnds, RefInv, AttemptsLeft, Shape
  <2>2. run = NoRun /\ run.tele = NoTelemetry
    BY <2>1 DEF Place, NoRun
  <2>3. discoveries \in Seq(Pods)
    <3> DEFINE S == {p \in Pods : Verified(p)}
    <3>1. input.pods \in Seq(Pods)
      BY Given DEF Timed, InputOK
    <3>2. Among(input.pods, S) \in Seq(Pods \cap S)
      <4> HIDE DEF S
      <4> QED
        BY <3>1, AmongOf
    <3>3. discoveries = Among(input.pods, S) /\ Pods \cap S \subseteq Pods
      BY DEF discoveries
    <3> HIDE DEF S
    <3> QED
      BY <3>2, <3>3
  <2> QED
    BY <2>1, <2>2, <2>3, TeleEmpty DEF Place
<1>5. CASE StartAttempt
  <2>1. run' = run /\ pc = "idle" /\ pc' = "load" /\ job'.pods = job.pods
    BY <1>2, <1>5 DEF StartAttempt, Shape
  <2> QED
    BY <1>1, <1>2, <2>1, TeleAside
<1>6. CASE Crash
  BY <1>2, <1>6, TeleExit DEF Crash
<1>7. CASE Deliver
  BY <1>1, <1>2, <1>7, TeleDeliver, TeleExit, TeleAside
<1>8. CASE Collect
  <2>1. CASE BeginPod
    BY <1>1, <2>1, BeginTele
  <2>2. CASE EndRound
    BY <1>1, <2>2, RoundTele
  <2>3. ASSUME NEW m \in AllMetrics, Query(m) PROVE Place' /\ TeleInv'
    BY <1>1, <2>3, QueryTele
  <2>4. ASSUME NEW m,
               Detect \/ SkipPod \/ EndLoop \/ BeginSeries \/ Fit \/ QuerySeries(m)
        PROVE  Place' /\ TeleInv'
    BY <1>1, <1>2, <2>4, SkipTele, TeleAside
  <2> QED
    BY <1>8, <2>1, <2>2, <2>3, <2>4 DEF Collect, AllMetrics
<1> QED
  BY <1>3, <1>4, <1>5, <1>6, <1>7, <1>8 DEF Next, RunStep

\* The retries (_collect_metrics_with_retry): only what was found, or asked for
\* in every attempt, is no longer asked for, whatever arrived in the meantime.
THEOREM Retried == Spec => []RetriedUntilFound
<1>1. Init => RefInv /\ Timed /\ Place /\ TeleInv
  BY RefInit, TimedInit, TeleInit
<1>2. RefInv /\ Timed /\ Place /\ TeleInv /\ [Next]_vars
        => RefInv' /\ Timed' /\ Place' /\ TeleInv'
  BY RefNext, TimedNext, TeleNext
<1>3. TeleInv => RetriedUntilFound
  <2> SUFFICES ASSUME TeleInv, pc \in {"series", "compile"}, NEW l \in Loops,
                      NEW p \in Collected(l), NEW m \in Metrics(l)
               PROVE  LET got == run.tele[l][p]
                      IN got.tries[m] = TELEMETRY_RETRY_ATTEMPTS \/ got.points[m] # {}
    BY DEF RetriedUntilFound
  <2>1. p \in Pods /\ run.tele[l][p] # None /\ ~Current(l, p)
    BY DEF Collected, Current
  <2>2. AskedEnough(l, p, m)
    BY <2>1 DEF TeleInv, Told
  <2> QED
    BY <2>1, <2>2 DEF AskedEnough
<1> QED
  BY <1>1, <1>2, <1>3, PTL DEF Spec

-----------------------------------------------------------------------------
(* The report *)

\* The AIBOM is compiled from what the process has, and not changed later.
Reported == pc = "publish" => aibom = compile_aibom(clock)

LEMMA ReportNext ==
  ASSUME RefInv, Timed, Place, Reported, [Next]_vars
  PROVE  Reported'
<1> SUFFICES ASSUME pc' = "publish" PROVE aibom' = compile_aibom(clock)'
  BY DEF Reported
<1>1. input' = input
  BY TimedNext
<1>2. CASE Compile
  <2>1. aibom' = compile_aibom(clock') /\ job' = job /\ run' = run
    BY <1>2 DEF Compile, Exit
  <2> QED
    BY <1>1, <2>1 DEF compile_aibom, Entries
<1>3. ASSUME ~Compile
      PROVE  pc = "publish" /\ UNCHANGED <<job, run, clock, aibom>>
  <2>1. CASE Workload \/ UNCHANGED vars
    BY <2>1 DEF Workload, vars, draft
  <2>6. CASE WorkloadEnds
    BY <2>6 DEF WorkloadEnds, RefInv, AttemptsLeft
  <2>2. CASE \/ \E p \in Pods, m \in Usage \cup Serving : Ingest(p, m)
             \/ \E a \in Attempts : DeleteAibom(a) \/ CollectSeries(a)
    BY <2>2 DEF Ingest, DeleteAibom, CollectSeries, draft
  <2>3. CASE StartAttempt \/ Crash
    BY <2>3 DEF StartAttempt, Crash, Exit
  <2>4. CASE Collect
    <3>1. CASE Detect \/ SkipPod \/ BeginPod
      BY <3>1 DEF Detect, SkipPod, BeginPod
    <3>2. CASE EndRound \/ EndLoop \/ BeginSeries \/ Fit
      BY <3>2 DEF EndRound, NextRound, NextPod, EndLoop, BeginSeries, Fit
    <3>3. CASE \E m \in Usage \cup Serving : Query(m) \/ QuerySeries(m)
      BY <3>3 DEF Query, QuerySeries
    <3> QED
      BY <2>4, <3>1, <3>2, <3>3 DEF Collect
  <2>5. CASE Deliver
    <3>1. CASE Publish \/ NoSeries \/ sign_aibom \/ PublishKey
      BY <3>1 DEF Publish, NoSeries, sign_aibom, PublishKey
    <3>2. CASE CreateAibom \/ SetOwner
      BY <3>2 DEF CreateAibom, SetOwner, Exit
    <3> QED
      BY <1>3, <2>5, <3>1, <3>2 DEF Deliver
  <2> QED
    BY <2>1, <2>2, <2>3, <2>4, <2>5, <2>6 DEF Next, RunStep
<1>4. CASE ~Compile
  BY <1>1, <1>3, <1>4 DEF Reported, compile_aibom, Entries
<1> QED
  BY <1>2, <1>4

\* What is known at every moment.
Informed == RefInv /\ Timed /\ Place /\ TeleInv /\ Reported

LEMMA AlwaysInformed == Spec => []Informed
<1>1. Init => Informed
  <2>1. Init => Reported
    BY DEF Init, Reported
  <2> QED
    BY <2>1, RefInit, TimedInit, TeleInit DEF Informed
<1>2. Informed /\ [Next]_vars => Informed'
  BY RefNext, TimedNext, TeleNext, ReportNext DEF Informed
<1> QED
  BY <1>1, <1>2, PTL DEF Spec

LEMMA GivenStatus ==
  ASSUME input \in Inputs
  PROVE  \A c, d \in ToSet(input.containers) : d.pod = c.pod => d.job = c.job
BY Given DEF InputOK

\* The status of the workload is the worst of its pods that count, for any
\* number of pods and containers in any order (compile_aibom).
THEOREM Status == Spec => []StatusIsWorst
<1>1. ASSUME Informed PROVE StatusIsWorst
  <2> SUFFICES ASSUME pc = "publish" PROVE StatusIsWorst
    BY DEF StatusIsWorst
  <2>1. PICK es : es = Entries
    OBVIOUS
  <2>2. aibom.pods = es /\ aibom.status = Rollup(es)
    BY <1>1, <2>1 DEF Informed, Reported, compile_aibom
  <2>3. /\ DOMAIN es = DOMAIN job.pods
        /\ \A i \in DOMAIN job.pods : es[i] = PodEntry(job.pods[i], input.containers)
    BY <2>1 DEF Entries
  <2>4. PICK ps \in Seq(Pods), cs \in Seq(ToSet(input.containers)) :
          ps = job.pods /\ cs = input.containers
    BY <1>1, Given DEF Informed, Timed, Place, InputOK
  <2>5. \A c, d \in ToSet(cs) : d.pod = c.pod => d.job = c.job
    BY <1>1, <2>4, GivenStatus DEF Informed, Timed
  <2>6. PICK listed : listed = {c \in ToSet(cs) : c.pod \in ToSet(ps)}
    OBVIOUS
  <2>7. /\ Worst(Rollup(es), listed)
        /\ \A c \in listed : "OOMKilled" \in {c.reason, c.last} =>
             \E i \in DOMAIN es :
               es[i].pod = c.pod /\ "OOMKilled" \in {es[i].status, es[i].last}
    BY <2>3, <2>4, <2>5, <2>6, ReportIsWorst
  <2>8. listed = {c \in ToSet(input.containers) : c.pod \in ToSet(job.pods)}
    BY <2>4, <2>6
  <2>9. Worst(aibom.status, listed)
    BY <2>2, <2>7
  <2>10. \A c \in listed : "OOMKilled" \in {c.reason, c.last} =>
           \E i \in DOMAIN aibom.pods :
             aibom.pods[i].pod = c.pod
             /\ "OOMKilled" \in {aibom.pods[i].status, aibom.pods[i].last}
    BY <2>2, <2>7
  <2> QED
    BY <2>8, <2>9, <2>10 DEF StatusIsWorst, Worst
<1> QED
  BY <1>1, AlwaysInformed, PTL

-----------------------------------------------------------------------------
(* The windows and the duration *)

\* The clocks of the nodes agree so far that no container of a pod finished
\* before the pod started, and no pod starts after the process did.
ClocksAgree ==
  \A i \in Inputs : \A p \in Pods :
    /\ i.start[p] <= i.now
    /\ \A c \in ToSet(i.containers) :
         c.pod = p /\ c.finished # None => i.start[p] <= c.finished

\* The clock has not run backwards.
Started == \A p \in Pods : input.start[p] <= clock

LEMMA StartedInit == ASSUME ClocksAgree PROVE Init => Started
BY DEF Init, Started, ClocksAgree

LEMMA StartedNext ==
  ASSUME Timed, Started, [Next]_vars PROVE Started'
<1>1. Timed' /\ input' = input /\ clock <= clock'
  BY TimedNext
<1>2. /\ clock \in Int /\ clock' \in Int
      /\ \A p \in Pods : input.start[p] \in Nat
  BY <1>1, Given DEF Timed, Times, InputOK
<1> QED
  BY <1>1, <1>2 DEF Started

\* The duration reaches from the least start to the end of every window that
\* ends now at the latest, and at its pod's finish if that is known.
LEMMA DurationOf ==
  ASSUME NEW T, NEW ps \in Seq(T), NEW start, NEW fin, NEW now \in Nat,
         NEW p \in ToSet(ps), NEW e \in Nat,
         \A q \in ToSet(ps) : start[q] \in Nat /\ fin[q] \in Nat \cup {None},
         e <= now, fin[p] # None => e <= fin[p]
  PROVE  LET starts == {start[q] : q \in ToSet(ps)}
         IN /\ Duration(starts, {fin[q] : q \in ToSet(ps)}, now) >= e - MinOf(starts)
            /\ MinOf(starts) \in Nat
            /\ \A q \in ToSet(ps) : MinOf(starts) <= start[q]
<1> DEFINE starts == {start[q] : q \in ToSet(ps)}
           fins == {fin[q] : q \in ToSet(ps)}
           end == IF None \in fins THEN now ELSE MinOf({MaxOf(fins), now})
           least == MinOf(starts)
<1>1. starts \in SUBSET Nat /\ starts # {} /\ \A q \in ToSet(ps) : start[q] \in starts
  OBVIOUS
<1>2. least \in Nat /\ \A q \in ToSet(ps) : least <= start[q]
  <2> HIDE DEF starts
  <2> QED
    BY <1>1, MinOfIs
<1>3. Duration(starts, fins, now) = end - least
  BY <1>1 DEF Duration
<1>4. end \in Nat /\ e <= end
  <2>1. CASE None \in fins
    BY <2>1
  <2>2. CASE None \notin fins
    <3>1. \A q \in ToSet(ps) : fin[q] \in Nat
      BY <2>2
    <3>2. ToSet(ps) # {}
      OBVIOUS
    <3>3. MaxOf(fins) \in fins /\ \A q \in ToSet(ps) : fin[q] <= MaxOf(fins)
      BY <3>1, <3>2, MaxOfSeq
    <3>4. PICK top \in Nat : top = MaxOf(fins) /\ fin[p] <= top
      BY <3>1, <3>3
    <3>5. fin[p] \in Nat /\ e <= fin[p]
      BY <3>1, AbsentAssumption
    <3>8. end = MinOf({top, now})
      BY <2>2, <3>4
    <3> HIDE DEF fins, end
    <3>7. MinOf({top, now}) = IF top <= now THEN top ELSE now
      <4>1. top \in Int /\ now \in Int
        OBVIOUS
      <4> QED
        BY <4>1, PairOf, Zenon
    <3>6. end = IF top <= now THEN top ELSE now
      BY <3>7, <3>8
    <3> QED
      BY <3>4, <3>5, <3>6
  <2> QED
    BY <2>1, <2>2
<1> HIDE DEF end, least, starts, fins
<1>5. Duration(starts, fins, now) >= e - least
  BY <1>2, <1>3, <1>4
<1> QED
  BY <1>2, <1>5 DEF least, starts, fins

\* Statistics are of a part of the run, which the duration covers, if the
\* clocks agree (_pod_stats_window, compile_aibom).
THEOREM Covered == ASSUME ClocksAgree PROVE Spec => []WindowsWithinRun
<1>1. ASSUME Informed, Started PROVE WindowsWithinRun
  <2> SUFFICES ASSUME NEW l \in Loops, NEW p \in Collected(l)
               PROVE  LET win == run.tele[l][p].win
                      IN /\ win.start <= win.stats
                         /\ win.start < win.end => win.stats < win.end
                         /\ win.end <= clock \/ win.end = win.start
                         /\ pc = "publish" =>
                              aibom.duration >= win.end
                                - Min({input.start[q] : q \in ToSet(job.pods)})
    BY DEF WindowsWithinRun
  <2>1. PICK win : win = run.tele[l][p].win
    OBVIOUS
  <2>2. p \in Pods /\ p \in ToSet(job.pods) /\ WindowOK(p, win)
    BY <1>1, <2>1 DEF Informed, TeleInv, Told, Collected
  <2>3. ASSUME pc = "publish"
        PROVE  aibom.duration >= win.end - Min({input.start[q] : q \in ToSet(job.pods)})
    <3>1. PICK ps \in Seq(Pods), cs \in Seq(ToSet(input.containers)) :
            ps = job.pods /\ cs = input.containers
      BY <1>1, Given DEF Informed, Timed, Place, InputOK
    <3>2. PICK start, fin :
            /\ start = input.start
            /\ fin = [q \in ToSet(ps) |-> _pod_finished_ms(q, cs)]
      OBVIOUS
    <3>3. aibom.duration = Duration({start[q] : q \in ToSet(ps)},
                                    {fin[q] : q \in ToSet(ps)}, clock)
      <4>1. aibom.duration = Duration({input.start[q] : q \in ToSet(job.pods)},
              {_pod_finished_ms(q, input.containers) : q \in ToSet(job.pods)}, clock)
        BY <1>1, <2>3 DEF Informed, Reported, compile_aibom
      <4>2. {_pod_finished_ms(q, cs) : q \in ToSet(ps)} = {fin[q] : q \in ToSet(ps)}
        BY <3>2
      <4> QED
        BY <3>1, <3>2, <4>1, <4>2
    <3>4. ToSet(ps) \subseteq Pods
      BY DEF ToSet
    <3>5. /\ \A c \in ToSet(cs) : c.finished \in Nat \cup {None}
          /\ \A q \in Pods : start[q] \in Nat
          /\ clock \in Nat
      BY <1>1, <3>1, <3>2, Given DEF Informed, Timed, Times, InputOK
    <3>6. \A q \in ToSet(ps) :
            /\ fin[q] \in Nat \cup {None}
            /\ fin[q] # None => \E c \in ToSet(cs) : c.pod = q /\ c.finished = fin[q]
      BY <3>2, <3>5, PodFinished
    <3>7. PICK e \in Nat : e = win.end
      BY <2>2 DEF WindowOK
    <3>8. e <= clock /\ (fin[p] # None => e <= fin[p])
      <4>1. CASE e <= clock /\ (fin[p] # None => e <= fin[p])
        BY <4>1
      <4>2. CASE e = start[p]
        <5>1. e <= clock
          BY <1>1, <2>2, <3>2, <4>2 DEF Started
        <5>2. ASSUME fin[p] # None PROVE e <= fin[p]
          <6>1. PICK c \in ToSet(cs) : c.pod = p /\ c.finished = fin[p]
            BY <2>2, <3>1, <3>6, <5>2
          <6>2. input \in Inputs
            BY <1>1 DEF Informed, Timed
          <6> QED
            BY <2>2, <3>1, <3>2, <4>2, <5>2, <6>1, <6>2 DEF ClocksAgree
        <5> QED
          BY <5>1, <5>2
      <4>3. fin[p] = _pod_finished_ms(p, input.containers)
        BY <2>2, <3>1, <3>2
      <4> QED
        BY <2>2, <3>2, <3>7, <4>1, <4>2, <4>3 DEF WindowOK
    <3>9. PICK least : least = MinOf({start[q] : q \in ToSet(ps)})
      OBVIOUS
    <3>10. aibom.duration >= e - least
      <4>1. PICK now \in Nat : now = clock
        BY <3>5
      <4>2. \A q \in ToSet(ps) : start[q] \in Nat /\ fin[q] \in Nat \cup {None}
        BY <3>4, <3>5, <3>6
      <4>3. p \in ToSet(ps) /\ e <= now /\ (fin[p] # None => e <= fin[p])
        BY <2>2, <3>1, <3>8, <4>1
      <4>4. Duration({start[q] : q \in ToSet(ps)}, {fin[q] : q \in ToSet(ps)}, now)
              >= e - MinOf({start[q] : q \in ToSet(ps)})
        BY <4>2, <4>3, DurationOf
      <4> QED
        BY <3>3, <3>9, <4>1, <4>4
    <3>11. least = Min({input.start[q] : q \in ToSet(job.pods)})
      BY <3>1, <3>2, <3>9 DEF Min, MinOf
    <3> QED
      BY <3>7, <3>10, <3>11
  <2> QED
    BY <2>1, <2>2, <2>3 DEF WindowOK
<1>2. Init => Informed /\ Started
  <2>1. Init => Reported
    BY DEF Init, Reported
  <2> QED
    BY <2>1, RefInit, TimedInit, TeleInit, StartedInit, ClocksAgree DEF Informed
<1>3. Informed /\ Started /\ [Next]_vars => Informed' /\ Started'
  BY RefNext, TimedNext, TeleNext, ReportNext, StartedNext DEF Informed
<1> QED
  BY <1>1, <1>2, <1>3, PTL DEF Spec

-----------------------------------------------------------------------------
(* The series *)

\* A metric that is in the series has its statistics' scrapes in the aggregate.
Seen(l, p, m) == Line(m, run.tele[l][p].points[m]) \subseteq run.raw[m].agg

GridInv ==
  /\ pc \in {"idle", "load", "pod", "query", "series"} => run.raw = NoDoc
  /\ pc = "lines" =>
       /\ Windows # {} /\ run.window = SeriesWindow(Windows)
       /\ run.todo \subseteq AllMetrics
       /\ \A l \in Loops : \A p \in Collected(l) :
            \A m \in Metrics(l) \cap DOMAIN run.raw : Seen(l, p, m)

\* More scrapes make no point disappear.
LEMMA LineGrows ==
  ASSUME NEW m, NEW s, NEW t, s \subseteq t PROVE Line(m, s) \subseteq Line(m, t)
<1>1. \A moment, width : Computed(m, s, moment, width) \subseteq Computed(m, t, moment, width)
  BY DEF Computed
<1> QED
  BY <1>1 DEF Line

\* The line of each pod that was collected is among those of the metric.
LEMMA LinesOf ==
  ASSUME Place, NEW l \in Loops, NEW p \in Collected(l), p \in ToSet(job.pods),
         NEW m \in Metrics(l), Line(m, ingested[p][m]) # {}
  PROVE  Line(m, ingested[p][m]) \in ToSet(Lines(m))
<1> DEFINE loop == IF m \in Usage THEN "usage" ELSE "serving"
           all == [i \in DOMAIN job.pods |->
                     IF job.pods[i] \in Collected(loop)
                     THEN Line(m, ingested[job.pods[i]][m]) ELSE {}]
           Points_ == SUBSET (1 .. Horizon)
<1>1. loop = l
  BY PostprocessAssumption DEF Metrics, Loops
<1>2. PICK k \in DOMAIN job.pods : job.pods[k] = p
  BY DEF ToSet
<1>3. all[k] = Line(m, ingested[p][m])
  BY <1>1, <1>2
<1>4. all \in Seq(Points_)
  <2>1. DOMAIN job.pods = 1 .. Len(job.pods) /\ Len(job.pods) \in Nat
    BY DEF Place
  <2>2. \A i \in DOMAIN job.pods : all[i] \in Points_
    BY DEF Line
  <2>3. DOMAIN all = DOMAIN job.pods /\ all = [i \in DOMAIN job.pods |-> all[i]]
    OBVIOUS
  <2> HIDE DEF all, Points_
  <2>4. all \in [1 .. Len(job.pods) -> Points_]
    BY <2>1, <2>2, <2>3
  <2> QED
    BY <2>1, <2>4
<1>5. Lines(m) = Among(all, ToSet(all) \ {{}})
  BY DEF Lines
<1>6. all[k] \in ToSet(all)
  BY <1>2 DEF ToSet
<1> HIDE DEF all, Points_
<1>7. ToSet(Among(all, ToSet(all) \ {{}})) = ToSet(all) \cap (ToSet(all) \ {{}})
  BY <1>4, AmongOf
<1> QED
  BY <1>3, <1>5, <1>6, <1>7

LEMMA GridQuery ==
  ASSUME Timed, Place, TeleInv, GridInv, NEW m \in AllMetrics, QuerySeries(m)
  PROVE  GridInv'
<1>1. /\ pc = "lines" /\ pc' = "lines" /\ UNCHANGED <<input, job, ingested>>
      /\ m \in run.todo
  BY DEF QuerySeries, rest, world
<1>2. PICK raw \in Answers(m) \cup PartialAnswers(m) :
        run' = [run EXCEPT !.todo = @ \ {m}, !.raw = raw]
  BY DEF QuerySeries
<1>3. /\ run'.tele = run.tele /\ run'.window = run.window
      /\ run'.todo = run.todo \ {m} /\ run'.raw = raw
  BY <1>2 DEF Place
<1>4. /\ \A l : Collected(l)' = Collected(l)
      /\ Windows' = Windows /\ \A n, s : Line(n, s)' = Line(n, s)
  BY <1>3 DEF Collected, Windows, Line, Grid, Width, Computed
<1>5. raw = run.raw \/ \E peak : raw = With(m, peak)
  <2>1. raw \in Answers(m) => raw = run.raw \/ \E peak : raw = With(m, peak)
    BY DEF Answers
  <2>2. raw \in PartialAnswers(m) => raw = run.raw \/ \E peak : raw = With(m, peak)
    BY DEF PartialAnswers
  <2> QED
    BY <2>1, <2>2
<1>6. ASSUME NEW l \in Loops, NEW p \in Collected(l),
             NEW n \in Metrics(l) \cap DOMAIN raw
      PROVE  Line(n, run.tele[l][p].points[n]) \subseteq raw[n].agg
  <2>1. CASE n \in DOMAIN run.raw /\ raw[n] = run.raw[n]
    BY <1>1, <2>1 DEF GridInv, Seen
  <2>2. CASE n = m /\ \E peak : raw = With(m, peak)
    <3>1. PICK peak : raw = With(m, peak)
      BY <2>2
    <3>2. raw[m].agg = UNION ToSet(Lines(m))
      BY <3>1 DEF With, Entry
    <3>3. p \in ToSet(job.pods) /\ run.tele[l][p].points[m] \subseteq ingested[p][m]
      BY <2>2 DEF TeleInv, Told, Collected
    <3>4. Line(m, ingested[p][m]) \subseteq UNION ToSet(Lines(m))
      BY <2>2, <3>3, LinesOf
    <3> QED
      BY <2>2, <3>2, <3>3, <3>4, LineGrows
  <2>3. \/ n \in DOMAIN run.raw /\ raw[n] = run.raw[n]
        \/ n = m /\ \E peak : raw = With(m, peak)
    <3>1. CASE raw = run.raw
      BY <3>1
    <3>2. ASSUME NEW peak, raw = With(m, peak), n # m
          PROVE  n \in DOMAIN run.raw /\ raw[n] = run.raw[n]
      BY <3>2 DEF With
    <3> QED
      BY <1>5, <3>1, <3>2
  <2> QED
    BY <2>1, <2>2, <2>3
<1>7. ASSUME NEW l \in Loops, NEW p \in Collected(l)',
             NEW n \in Metrics(l) \cap DOMAIN run'.raw
      PROVE  Seen(l, p, n)'
  BY <1>3, <1>4, <1>6 DEF Seen, Line, Grid, Width, Computed
<1> QED
  BY <1>1, <1>3, <1>4, <1>7 DEF GridInv

LEMMA GridNext ==
  ASSUME RefInv, Timed, Place, TeleInv, GridInv, [Next]_vars
  PROVE  GridInv'
<1>1. ASSUME run' = run, pc' = pc PROVE GridInv'
  <2>1. /\ \A l : Collected(l)' = Collected(l)
        /\ Windows' = Windows /\ \A n, s : Line(n, s)' = Line(n, s)
    BY <1>1 DEF Collected, Windows, Line, Grid, Width, Computed
  <2>2. \A l, p, m : Seen(l, p, m)' <=> Seen(l, p, m)
    BY <1>1 DEF Seen, Line, Grid, Width, Computed
  <2>3. SeriesWindow(Windows)' = SeriesWindow(Windows)
    BY <2>1 DEF SeriesWindow
  <2>4. CASE pc = "lines"
    BY <1>1, <2>1, <2>2, <2>3, <2>4 DEF GridInv
  <2> QED
    BY <1>1, <2>4 DEF GridInv
<1>2. ASSUME pc' # "lines", run'.raw = NoDoc \/ pc' \notin {"idle", "load", "pod", "query", "series"}
      PROVE  GridInv'
  BY <1>2 DEF GridInv
<1>3. CASE \/ Workload \/ WorkloadEnds \/ UNCHANGED vars
           \/ \E p \in Pods, m \in Usage \cup Serving : Ingest(p, m)
           \/ \E a \in Attempts : DeleteAibom(a) \/ CollectSeries(a)
  BY <1>1, <1>3 DEF Workload, WorkloadEnds, vars, Ingest, DeleteAibom, CollectSeries
<1>4. ASSUME NEW code \in {0, 1}, Exit(code) PROVE GridInv'
  <2>1. pc' = "idle" /\ run'.raw = NoDoc
    BY <1>4 DEF Exit, NoRun
  <2> QED
    BY <1>2, <2>1
<1>5. CASE StartAttempt
  <2>1. pc' = "load" /\ run'.raw = NoDoc
    BY <1>5 DEF StartAttempt, GridInv
  <2> QED
    BY <1>2, <2>1
<1>6. CASE Crash
  BY <1>4, <1>6 DEF Crash
<1>7. CASE Deliver
  <2>1. CASE Compile \/ CreateAibom \/ SetOwner
    BY <1>2, <1>4, <2>1 DEF Compile, CreateAibom, SetOwner
  <2>2. CASE Publish \/ NoSeries \/ sign_aibom \/ PublishKey
    BY <1>2, <2>2 DEF Publish, NoSeries, sign_aibom, PublishKey
  <2> QED
    BY <1>7, <2>1, <2>2 DEF Deliver
<1>8. CASE Collect
  <2>1. CASE Detect
    <3>1. pc = "load" /\ pc' \in {"pod", "compile"} /\ run'.raw = run.raw
      BY <2>1 DEF Detect, Place
    <3> QED
      BY <1>2, <3>1 DEF GridInv
  <2>2. CASE SkipPod \/ BeginPod
    <3>1. pc = "pod" /\ pc' \in {"pod", "query"} /\ run'.raw = run.raw
      BY <2>2 DEF SkipPod, BeginPod, Place
    <3> QED
      BY <1>2, <3>1 DEF GridInv
  <2>3. CASE EndRound
    <3>1. pc = "query" /\ pc' \in {"pod", "query"} /\ run'.raw = run.raw
      BY <2>3 DEF EndRound, NextRound, NextPod, Place
    <3> QED
      BY <1>2, <3>1 DEF GridInv
  <2>4. CASE EndLoop
    <3>1. pc = "pod" /\ pc' \in {"pod", "series"}
      BY <2>4 DEF EndLoop
    <3>2. run'.raw = run.raw
      BY <2>4 DEF EndLoop, Place
    <3> QED
      BY <1>2, <3>1, <3>2 DEF GridInv
  <2>5. CASE BeginSeries
    <3>1. CASE pc' = "compile"
      BY <1>2, <3>1
    <3>2. CASE pc' # "compile"
      <4>1. /\ pc = "series" /\ pc' = "lines" /\ Windows # {}
            /\ run' = [run EXCEPT !.window = SeriesWindow(Windows),
                 !.todo = UNION {Metrics(l) : l \in {k \in Loops : Collected(k) # {}}}]
        BY <2>5, <3>2 DEF BeginSeries
      <4>2. /\ run'.window = SeriesWindow(Windows) /\ run'.tele = run.tele
            /\ run'.raw = run.raw
            /\ run'.todo = UNION {Metrics(l) : l \in {k \in Loops : Collected(k) # {}}}
        BY <4>1 DEF Place
      <4>3. DOMAIN run'.raw = {}
        BY <4>1, <4>2 DEF GridInv, NoDoc
      <4>4. Windows' = Windows
        BY <4>2 DEF Windows, Collected
      <4>5. run'.todo \subseteq AllMetrics
        BY <4>2, MetricsOf
      <4> QED
        BY <4>1, <4>2, <4>3, <4>4, <4>5 DEF GridInv
    <3> QED
      BY <3>1, <3>2
  <2>6. CASE Fit
    BY <1>2, <2>6 DEF Fit
  <2>7. ASSUME NEW m \in AllMetrics, Query(m) PROVE GridInv'
    <3>1. pc = "query" /\ pc' = "query" /\ run'.raw = run.raw
      BY <2>7 DEF Query, Place
    <3> QED
      BY <1>2, <3>1 DEF GridInv
  <2>8. ASSUME NEW m \in AllMetrics, QuerySeries(m) PROVE GridInv'
    BY <2>8, GridQuery
  <2> QED
    BY <1>8, <2>1, <2>2, <2>3, <2>4, <2>5, <2>6, <2>7, <2>8 DEF Collect, AllMetrics
<1> QED
  BY <1>3, <1>5, <1>6, <1>7, <1>8 DEF Next, RunStep

\* The least and the greatest of a set, and the greater of two.
LEMMA LeastAndGreatest ==
  ASSUME NEW S \in SUBSET Nat, S # {}, NEW b \in Nat, \A x \in S : x <= b
  PROVE  /\ Min(S) \in Nat /\ \A x \in S : Min(S) <= x
         /\ Max(S) \in Nat /\ \A x \in S : x <= Max(S)
<1>1. \E k \in S : \A x \in S : k <= x
  BY Least
<1>2. \E k \in S : \A x \in S : x <= k
  BY Bounded
<1>3. \E k \in S : \A x \in S : k >= x
  BY <1>2
<1>4. Min(S) \in S /\ \A x \in S : Min(S) <= x
  BY <1>1 DEF Min
<1>5. Max(S) \in S /\ \A x \in S : Max(S) >= x
  BY <1>3 DEF Max
<1> QED
  BY <1>4, <1>5

LEMMA StepOf ==
  ASSUME NEW span \in Int PROVE SeriesStep(span) \in Nat \ {0}
<1> DEFINE c == Ceil(span, SERIES_TARGET_POINTS)
<1>1. c \in Int
  BY SeriesAssumption DEF Ceil
<1> HIDE DEF c
<1>2. \E k \in {c, 1} : \A x \in {c, 1} : k >= x
  BY <1>1
<1>3. Max({c, 1}) \in {c, 1} /\ \A x \in {c, 1} : Max({c, 1}) >= x
  BY <1>2 DEF Max
<1> QED
  BY <1>1, <1>3 DEF SeriesStep, c

LEMMA GridGrows ==
  ASSUME NEW s \in Nat, NEW step \in Nat, NEW j \in Nat, NEW k \in Nat, j <= k
  PROVE  s + j * step <= s + k * step /\ s + j * step \in Nat /\ s + k * step \in Nat
<1>1. PICK d \in Nat : k = j + d
  <2>1. k - j \in Nat /\ k = j + (k - j)
    OBVIOUS
  <2> QED
    BY <2>1
<1>2. k * step = j * step + d * step
  BY <1>1
<1>3. j * step \in Nat /\ d * step \in Nat
  OBVIOUS
<1> QED
  BY <1>2, <1>3

\* The series' window has all windows of the pods in it.
LEMMA WindowRange ==
  ASSUME Informed, GridInv, pc = "lines"
  PROVE  /\ run.window.start \in Nat /\ run.window.end \in Nat
         /\ run.window.step \in Nat \ {0}
         /\ \A w \in Windows : w.start \in Nat /\ w.end \in Nat
                               /\ run.window.start <= w.start /\ w.end <= run.window.end
<1> DEFINE starts == {w.start : w \in Windows}
           ends == {w.end : w \in Windows}
<1>1. input \in Inputs /\ clock \in Nat /\ clock <= Horizon /\ Horizon \in Nat
  BY Given DEF Informed, Timed, Times
<1>2. PICK ps \in Seq(Pods), start \in [Pods -> Nat] :
        ps = job.pods /\ start = input.start
  BY <1>1, Given DEF Informed, Place, InputOK
<1>3. ASSUME NEW w \in Windows
      PROVE  /\ w.start \in Nat /\ w.end \in Nat
             /\ \E p \in ToSet(ps) : w.end = start[p] \/ w.end <= clock
  <2>4. PICK l \in Loops : \E p \in Collected(l) : w = run.tele[l][p].win
    BY DEF Windows
  <2>1. PICK p \in Collected(l) : w = run.tele[l][p].win
    BY <2>4
  <2>2. p \in Pods /\ p \in ToSet(job.pods) /\ WindowOK(p, w)
    BY <2>1 DEF Informed, TeleInv, Told, Collected
  <2>3. start[p] \in Nat
    BY <2>2
  <2> QED
    BY <1>2, <2>2, <2>3 DEF WindowOK
<1>4. ToSet(ps) \subseteq Pods
  BY DEF ToSet
<1>5. Windows # {} /\ run.window = SeriesWindow(Windows)
  BY DEF GridInv
<1> HIDE DEF Windows
<1>6. \E p \in ToSet(ps) : TRUE
  BY <1>3, <1>5
<1>7. PICK top \in Nat : \A p \in ToSet(ps) : start[p] <= top
  <2>1. MaxOf({start[p] : p \in ToSet(ps)}) \in {start[p] : p \in ToSet(ps)}
        /\ \A p \in ToSet(ps) : start[p] <= MaxOf({start[x] : x \in ToSet(ps)})
    BY <1>4, <1>6, MaxOfSeq
  <2> QED
    BY <1>4, <2>1
<1>8. PICK b \in Nat : b = top + Horizon
  BY <1>1
<1>9. /\ ends \in SUBSET Nat /\ ends # {} /\ \A x \in ends : x <= b
  <2>1. \A w \in Windows : w.end \in Nat /\ w.end <= b
    <3> SUFFICES ASSUME NEW w \in Windows PROVE w.end \in Nat /\ w.end <= b
      OBVIOUS
    <3>1. PICK p \in ToSet(ps) : w.end = start[p] \/ w.end <= clock
      BY <1>3
    <3>2. w.end \in Nat /\ start[p] <= top /\ start[p] \in Nat
      BY <1>3, <1>4, <1>7
    <3> QED
      BY <1>1, <1>8, <3>1, <3>2
  <2> QED
    BY <1>5, <2>1
<1>10. starts \in SUBSET Nat /\ starts # {}
  BY <1>3, <1>5
<1>11. \A w \in Windows : w.start \in starts /\ w.end \in ends
  OBVIOUS
<1>12. PICK s, e : s = Min(starts) /\ e = Max(ends)
  OBVIOUS
<1>13. run.window = [start |-> s, end |-> e, step |-> SeriesStep(e - s)]
  BY <1>5, <1>12 DEF SeriesWindow
<1> HIDE DEF starts, ends
<1>14. e \in Nat /\ \A x \in ends : x <= e
  BY <1>9, <1>12, LeastAndGreatest
<1>15. s \in Nat /\ \A x \in starts : s <= x
  BY <1>10, <1>12, Least DEF Min
<1>16. SeriesStep(e - s) \in Nat \ {0}
  BY <1>14, <1>15, StepOf
<1> QED
  BY <1>3, <1>11, <1>13, <1>14, <1>15, <1>16

\* Two scrapes of which the later one is within the last step before a moment
\* of the grid have a point there: of a gauge, of which they are one, because
\* the steps tile; of a rate when its window is longer by their distance.
LEMMA PointOf ==
  ASSUME NEW m, NEW scrapes, NEW u \in scrapes \cap Nat, NEW t \in scrapes \cap Nat,
         NEW n \in 1 .. Horizon, NEW g \in Nat, NEW step \in Nat, g = Grid(n),
         step = run.window.step, g <= run.window.end, g - step < t, t <= g,
         IF m \in Gauges THEN u = t ELSE u < t /\ t - u + step <= RateWindow
  PROVE  n \in Line(m, scrapes) /\ g - Width(m) < u
<1>1. PICK width \in Nat : width = Width(m)
  BY PostprocessAssumption DEF Width
<1>2. g - width < u /\ u <= g /\ g - width < t
  <2>1. CASE m \in Gauges
    BY <1>1, <2>1 DEF Width
  <2>2. CASE m \notin Gauges
    BY <1>1, <2>2, PostprocessAssumption DEF Width
  <2> QED
    BY <2>1, <2>2
<1>3. m \in Gauges \/ u # t
  OBVIOUS
<1>4. Computed(m, scrapes, g, width) # {}
  BY <1>2, <1>3 DEF Computed
<1> QED
  BY <1>1, <1>2, <1>4 DEF Line

\* The series has every value of a gauge that the statistics of any pod were
\* computed from, whenever it was ingested, and every two scrapes of a counter
\* that are as close as the step leaves room for in the rate's window
\* (collect_telemetry_series, SERIES_QUERIES).
THEOREM SeriesHasStats == Spec => []SeriesSeesStats
<1>1. ASSUME Informed, GridInv PROVE SeriesSeesStats
  <2> SUFFICES ASSUME pc = "lines", NEW l \in Loops, NEW p \in Collected(l),
                      NEW m \in Metrics(l) \cap DOMAIN run.raw,
                      NEW u \in run.tele[l][p].points[m],
                      NEW t \in run.tele[l][p].points[m],
                      IF m \in Gauges THEN u = t
                      ELSE u < t /\ t - u + run.window.step <= RateWindow,
                      NEW k \in 1 .. Horizon, NEW w \in Windows,
                      t <= Grid(k), Grid(k) <= w.end
               PROVE  \E n \in run.raw[m].agg : Grid(n) - Width(m) < u /\ t <= Grid(n)
    BY DEF SeriesSeesStats
  <2>1. PICK s \in Nat, e \in Nat, step \in Nat :
          s = run.window.start /\ e = run.window.end /\ step = run.window.step
    BY <1>1, WindowRange
  <2>2. \A n : Grid(n) = s + n * step
    BY <2>1 DEF Grid
  <2>3. w.end \in Nat /\ w.end <= e
    BY <1>1, <2>1, WindowRange
  <2>4. t \in Nat /\ u \in Nat /\ s < t /\ Horizon \in Nat
    <3>1. /\ run.tele[l][p].win \in Windows
          /\ run.tele[l][p].win.start = input.start[p]
          /\ t \in ingested[p][m] /\ u \in ingested[p][m]
          /\ p \in Pods /\ m \in AllMetrics
      BY <1>1, MetricsOf DEF Informed, TeleInv, Told, WindowOK, Collected, Windows
    <3>2. s <= input.start[p] /\ input.start[p] \in Nat
      BY <1>1, <2>1, <3>1, WindowRange
    <3>3. /\ t \in 1 .. Horizon /\ u \in 1 .. Horizon
          /\ input.start[p] < t /\ Horizon \in Nat
      BY <1>1, <3>1, Given DEF Informed, Timed
    <3> QED
      BY <3>2, <3>3
  <2> DEFINE S == {n \in 1 .. Horizon : t <= s + n * step}
  <2>5. PICK n \in S : \A j \in S : n <= j
    <3>1. S \in SUBSET Nat /\ k \in S
      BY <2>2
    <3> HIDE DEF S
    <3> QED
      BY <3>1, Least
  <2>6. n \in 1 .. Horizon /\ t <= s + n * step /\ n <= k /\ n \in Nat /\ k \in Nat
    <3>1. k \in S
      BY <2>2
    <3>2. n \in 1 .. Horizon /\ t <= s + n * step /\ n <= k
      BY <2>5, <3>1
    <3> QED
      BY <2>4, <3>2
  <2>7. s + n * step <= e
    <3>1. s + n * step <= s + k * step /\ s + n * step \in Nat /\ s + k * step \in Nat
      BY <2>6, GridGrows
    <3>2. s + k * step <= w.end
      BY <2>2
    <3> QED
      BY <2>3, <3>1, <3>2
  <2>8. s + (n - 1) * step < t
    <3>1. CASE n = 1
      <4>1. (n - 1) * step = 0
        BY <3>1
      <4> QED
        BY <2>4, <4>1
    <3>2. CASE n # 1
      <4>1. n - 1 \in 1 .. Horizon /\ n - 1 \notin S /\ n - 1 \in Nat
        BY <2>4, <2>5, <2>6, <3>2
      <4>2. PICK before \in Nat : before = s + (n - 1) * step
        BY <4>1
      <4>3. ~(t <= before)
        BY <4>1, <4>2
      <4> QED
        BY <2>4, <4>2, <4>3
    <3> QED
      BY <3>1, <3>2
  <2>9. PICK g \in Nat : g = s + n * step
    BY <2>6
  <2>10. g - step < t /\ t <= g /\ g <= e
    <3>1. (n - 1) * step = n * step - step /\ n * step \in Nat
      BY <2>6
    <3> QED
      BY <2>4, <2>6, <2>7, <2>8, <2>9, <3>1
  <2>11. n \in Line(m, run.tele[l][p].points[m]) /\ g - Width(m) < u
    BY <2>1, <2>2, <2>4, <2>6, <2>9, <2>10, PointOf
  <2>12. n \in run.raw[m].agg
    BY <1>1, <2>11 DEF GridInv, Seen
  <2> QED
    BY <2>2, <2>9, <2>10, <2>11, <2>12
<1>2. Init => GridInv
  BY DEF Init, GridInv, NoRun
<1>3. Informed /\ GridInv /\ [Next]_vars => GridInv'
  BY GridNext DEF Informed
<1> QED
  BY <1>1, <1>2, <1>3, AlwaysInformed, PTL DEF Spec

-----------------------------------------------------------------------------
(* The document that is stored *)

\* The collected document has lines of the grid, and the one to store is what
\* _fit_series_doc makes of it.
FitInv ==
  /\ DocOK(run.raw, Horizon)
  /\ pc = "compile" /\ run.raw # NoDoc => run.doc = _fit_series_doc(run.raw)

LEMMA NoDocOK == DocOK(NoDoc, Horizon) /\ DOMAIN NoDoc = {}
<1>1. DOMAIN NoDoc = {} /\ NoDoc = [m \in {} |-> NoDoc[m]]
  BY DEF NoDoc
<1> QED
  BY <1>1, FS_EmptySet DEF DocOK

LEMMA EmptyDoc ==
  ASSUME NEW doc, DocOK(doc, Horizon), DOMAIN doc = {} PROVE doc = NoDoc
BY DEF DocOK, NoDoc

LEMMA LinesAre ==
  ASSUME Place, NEW m
  PROVE  Lines(m) \in Seq(SUBSET (0 .. Horizon))
<1> DEFINE loop == IF m \in Usage THEN "usage" ELSE "serving"
           all == [i \in DOMAIN job.pods |->
                     IF job.pods[i] \in Collected(loop)
                     THEN Line(m, ingested[job.pods[i]][m]) ELSE {}]
           P == SUBSET (0 .. Horizon)
<1>1. all \in Seq(P)
  <2>1. DOMAIN job.pods = 1 .. Len(job.pods) /\ Len(job.pods) \in Nat
    BY DEF Place
  <2>2. \A i \in DOMAIN job.pods : all[i] \in P
    BY DEF Line
  <2>3. DOMAIN all = DOMAIN job.pods /\ all = [i \in DOMAIN job.pods |-> all[i]]
    OBVIOUS
  <2> HIDE DEF all, P
  <2>4. all \in [1 .. Len(job.pods) -> P]
    BY <2>1, <2>2, <2>3
  <2> QED
    BY <2>1, <2>4
<1>2. Lines(m) = Among(all, ToSet(all) \ {{}})
  BY DEF Lines
<1> HIDE DEF all, P
<1>3. Among(all, ToSet(all) \ {{}}) \in Seq(P \cap (ToSet(all) \ {{}}))
  BY <1>1, AmongOf
<1>4. \A S, T : T \in Seq(P \cap S) => T \in Seq(P)
  OBVIOUS
<1> QED
  BY <1>2, <1>3, <1>4 DEF P

LEMMA EntryIs ==
  ASSUME Place, NEW m, NEW peak \in {{}, UNION ToSet(Lines(m))}
  PROVE  Entry(Lines(m), peak) \in SeriesEntries(Horizon)
<1>1. PICK ls \in Seq(SUBSET (0 .. Horizon)) : ls = Lines(m)
  BY LinesAre
<1>2. UNION ToSet(ls) \in SUBSET (0 .. Horizon)
  BY DEF ToSet
<1>3. <<>> \in Seq(SUBSET (0 .. Horizon))
  OBVIOUS
<1>4. Entry(ls, peak) \in SeriesEntries(Horizon)
  BY <1>1, <1>2, <1>3 DEF Entry, SeriesEntries
<1> QED
  BY <1>1, <1>4

LEMMA DocGrows ==
  ASSUME Place, DocOK(run.raw, Horizon), NEW m,
         NEW raw \in Answers(m) \cup PartialAnswers(m)
  PROVE  DocOK(raw, Horizon)
<1>1. raw = run.raw \/ \E peak \in {{}, UNION ToSet(Lines(m))} : raw = With(m, peak)
  <2>1. raw \in Answers(m) =>
          raw = run.raw \/ \E peak \in {{}, UNION ToSet(Lines(m))} : raw = With(m, peak)
    BY DEF Answers
  <2>2. raw \in PartialAnswers(m) =>
          raw = run.raw \/ \E peak \in {{}, UNION ToSet(Lines(m))} : raw = With(m, peak)
    BY DEF PartialAnswers
  <2> QED
    BY <2>1, <2>2
<1>2. ASSUME NEW peak \in {{}, UNION ToSet(Lines(m))}, raw = With(m, peak)
      PROVE  DocOK(raw, Horizon)
  <2>1. PICK e : e = Entry(Lines(m), peak) /\ e \in SeriesEntries(Horizon)
    BY EntryIs
  <2>2. raw = [n \in DOMAIN run.raw \cup {m} |-> IF n = m THEN e ELSE run.raw[n]]
    BY <1>2, <2>1 DEF With
  <2>3. IsFiniteSet(DOMAIN run.raw \cup {m})
    BY FS_AddElement DEF DocOK
  <2> QED
    BY <2>1, <2>2, <2>3 DEF DocOK
<1> QED
  BY <1>1, <1>2

LEMMA FitNext ==
  ASSUME RefInv, Timed, Place, GridInv, FitInv, [Next]_vars
  PROVE  FitInv'
<1>0. DocOK(run.raw, Horizon)' <=> DocOK(run'.raw, Horizon)
  BY DEF DocOK, SeriesEntries
<1>1. ASSUME run' = run, pc' = pc PROVE FitInv'
  BY <1>1 DEF FitInv
<1>2. ASSUME DocOK(run'.raw, Horizon), pc' # "compile" \/ run'.raw = NoDoc
      PROVE  FitInv'
  BY <1>0, <1>2 DEF FitInv
<1>3. CASE \/ Workload \/ WorkloadEnds \/ UNCHANGED vars
           \/ \E p \in Pods, m \in Usage \cup Serving : Ingest(p, m)
           \/ \E a \in Attempts : DeleteAibom(a) \/ CollectSeries(a)
  BY <1>1, <1>3 DEF Workload, WorkloadEnds, vars, Ingest, DeleteAibom, CollectSeries
<1>4. ASSUME NEW code \in {0, 1}, Exit(code) PROVE FitInv'
  <2>1. pc' = "idle" /\ run'.raw = NoDoc
    BY <1>4 DEF Exit, NoRun
  <2> QED
    BY <1>2, <2>1, NoDocOK
<1>5. CASE StartAttempt
  BY <1>2, <1>5 DEF StartAttempt, FitInv
<1>6. CASE Crash
  BY <1>4, <1>6 DEF Crash
<1>7. CASE Deliver
  <2>1. CASE Compile \/ CreateAibom \/ SetOwner
    <3>1. CASE \E code \in {0, 1} : Exit(code)
      BY <1>4, <3>1
    <3>2. CASE ~ \E code \in {0, 1} : Exit(code)
      <4>1. run' = run /\ pc' # "compile"
        BY <2>1, <3>2 DEF Compile, CreateAibom, SetOwner
      <4> QED
        BY <1>2, <4>1 DEF FitInv
    <3> QED
      BY <3>1, <3>2
  <2>2. CASE Publish \/ NoSeries \/ sign_aibom \/ PublishKey
    <3>1. run' = run /\ pc' # "compile"
      BY <2>2 DEF Publish, NoSeries, sign_aibom, PublishKey
    <3> QED
      BY <1>2, <3>1 DEF FitInv
  <2> QED
    BY <1>7, <2>1, <2>2 DEF Deliver
<1>8. CASE Collect
  <2>1. CASE Detect \/ SkipPod \/ BeginPod \/ EndRound \/ EndLoop
    <3>1. pc \in {"load", "pod", "query"} /\ run'.raw = run.raw
      <4>1. CASE Detect \/ SkipPod \/ BeginPod
        BY <4>1 DEF Detect, SkipPod, BeginPod, Place
      <4>2. CASE EndRound
        BY <4>2 DEF EndRound, NextRound, NextPod, Place
      <4>3. CASE EndLoop
        BY <4>3 DEF EndLoop, Place
      <4> QED
        BY <2>1, <4>1, <4>2, <4>3
    <3> QED
      BY <1>2, <3>1, NoDocOK DEF GridInv
  <2>2. CASE BeginSeries
    <3>1. run'.raw = run.raw /\ pc = "series"
      BY <2>2 DEF BeginSeries, Place
    <3> QED
      BY <1>2, <3>1, NoDocOK DEF GridInv
  <2>3. CASE Fit
    <3>1. /\ run'.raw = run.raw /\ pc' = "compile"
          /\ run'.doc = IF DOMAIN run.raw = {} THEN NoDoc ELSE _fit_series_doc(run.raw)
      BY <2>3 DEF Fit, Place
    <3>2. DOMAIN run.raw = {} => run.raw = NoDoc
      BY EmptyDoc DEF FitInv
    <3>3. run.raw # NoDoc => run'.doc = _fit_series_doc(run'.raw)
      BY <3>1, <3>2
    <3>4. _fit_series_doc(run.raw)' = _fit_series_doc(run'.raw)
      BY DEF _fit_series_doc
    <3> QED
      BY <1>0, <3>1, <3>3 DEF FitInv
  <2>4. ASSUME NEW m \in AllMetrics, Query(m) PROVE FitInv'
    <3>1. pc' = "query" /\ run'.raw = run.raw
      BY <2>4 DEF Query, Place
    <3> QED
      BY <1>2, <3>1 DEF FitInv
  <2>5. ASSUME NEW m \in AllMetrics, QuerySeries(m) PROVE FitInv'
    <3>1. PICK raw \in Answers(m) \cup PartialAnswers(m) :
            run' = [run EXCEPT !.todo = @ \ {m}, !.raw = raw]
      BY <2>5 DEF QuerySeries
    <3>2. run'.raw = raw /\ pc' = "lines"
      BY <2>5, <3>1 DEF Place, QuerySeries
    <3> QED
      BY <1>2, <3>2, DocGrows DEF FitInv
  <2> QED
    BY <1>8, <2>1, <2>2, <2>3, <2>4, <2>5 DEF Collect, AllMetrics
<1> QED
  BY <1>3, <1>5, <1>6, <1>7, <1>8 DEF Next, RunStep

\* The stored document is the collected one on a coarser grid: for any document
\* and limit, nothing but detail is lost, lines stay long enough, and none is
\* stored only if none fits (_fit_series_doc).
THEOREM FitIsSound == Spec => []FitSound
<1>1. ASSUME FitInv PROVE FitSound
  <2> SUFFICES ASSUME pc = "compile", run.raw # NoDoc PROVE FitSound
    BY DEF FitSound
  <2>1. DocOK(run.raw, Horizon) /\ run.doc = _fit_series_doc(run.raw)
    BY <1>1 DEF FitInv
  <2>2. DOMAIN run.raw # {}
    BY <2>1, EmptyDoc
  <2>3. FitGood(run.raw, run.doc, Horizon)
    BY <2>1, <2>2, FitIsGood, PostprocessAssumption
  <2> QED
    BY <2>3 DEF FitGood, FitSound, Coarser, Kept, Grids, Buckets
<1>2. Init => FitInv
  BY NoDocOK DEF Init, FitInv, NoRun
<1>3. Init => GridInv
  BY DEF Init, GridInv, NoRun
<1>4. Informed /\ GridInv /\ FitInv /\ [Next]_vars => GridInv' /\ FitInv'
  BY GridNext, FitNext DEF Informed
<1> QED
  BY <1>1, <1>2, <1>3, <1>4, AlwaysInformed, PTL DEF Spec

-----------------------------------------------------------------------------
(* Types *)

\* Failed calls and dead processes are counted; the InferenceService goes once.
Counted ==
  input.faults \in Nat /\ faults \in 0 .. input.faults
  /\ isvc \in {"present", "absent"} /\ anchor \in {"published", "absent"}

LEMMA CountedNext ==
  ASSUME RefInv, Timed, Counted, [Next]_vars PROVE Counted'
<1>1. input' = input
  BY TimedNext
<1>2. faults' = faults \/ Fault
  <2>1. CASE Workload
    BY <2>1, DiscoveryFaults
  <2>2. CASE WorkloadEnds \/ StartAttempt \/ Crash \/ UNCHANGED vars
    BY <2>2 DEF WorkloadEnds, StartAttempt, Crash, vars
  <2>3. CASE Collect
    <3>1. CASE Detect \/ SkipPod \/ BeginPod
      BY <3>1 DEF Detect, SkipPod, BeginPod
    <3>2. CASE EndRound \/ EndLoop \/ BeginSeries \/ Fit
      BY <3>2 DEF EndRound, EndLoop, BeginSeries, Fit
    <3>3. CASE \E m \in Usage \cup Serving : Query(m) \/ QuerySeries(m)
      BY <3>3 DEF Query, QuerySeries
    <3> QED
      BY <2>3, <3>1, <3>2, <3>3 DEF Collect
  <2>4. CASE Deliver
    BY <2>4 DEF Deliver, Compile, Publish, NoSeries, sign_aibom, PublishKey,
                CreateAibom, SetOwner, Answered, Failed
  <2>5. CASE \/ \E p \in Pods, m \in Usage \cup Serving : Ingest(p, m)
             \/ \E a \in Attempts : DeleteAibom(a) \/ CollectSeries(a)
    BY <2>5 DEF Ingest, DeleteAibom, CollectSeries
  <2> QED
    BY <2>1, <2>2, <2>3, <2>4, <2>5 DEF Next, RunStep
<1>3. isvc' \in {isvc, "absent"}
  <2>1. CASE Workload
    BY <2>1 DEF Workload, DiscoveryStep, Snapshot, ResolveName, Sign,
                resolve_inference_service_storage, read_model_source_files,
                SignStorage, Write, Again, DeleteService, KeyAppears
  <2>2. Workload \/ UNCHANGED discoveryVars
    BY DEF Next, WorkloadEnds, RunStep, StartAttempt, Crash, Ingest, DeleteAibom,
           CollectSeries, Collect, Detect, SkipPod, BeginPod, Query, EndRound,
           EndLoop, BeginSeries, QuerySeries, Fit, Deliver, Compile, Publish,
           NoSeries, sign_aibom, PublishKey, CreateAibom, SetOwner, rest, vars
  <2> QED
    BY <2>1, <2>2 DEF discoveryVars
<1>4. anchor' \in {anchor, "published"}
  BY DEF Next, Workload, WorkloadEnds, RunStep, StartAttempt, Crash, Ingest,
         DeleteAibom, CollectSeries, Collect, Detect, SkipPod, BeginPod, Query,
         EndRound, EndLoop, BeginSeries, QuerySeries, Fit, Deliver, Compile,
         Publish, NoSeries, sign_aibom, PublishKey, CreateAibom, SetOwner, rest,
         vars, store, Answered, Failed
<1> QED
  BY <1>1, <1>2, <1>3, <1>4 DEF Counted, Fault

\* The types of the Job's state, of the process and of what discovery left.
THEOREM PostprocessTypeOK == Spec => []TypeOK
<1>1. ASSUME RefInv, SignedInv, Timed, Place, Counted PROVE TypeOK
  <2>1. /\ \A p \in Pods : /\ snap[p].pc \in SnapPCs /\ snap[p].run \in 1 .. MaxExecutions
                           /\ data[p].disc \in 0 .. MaxExecutions
                           /\ data[p].memory \in {"read", "unread"}
        /\ key \in {"mounted", "missing"}
    BY <1>1, DiscoveryAssumption DEF SignedInv, DiscoveryTypeOK, Snaps, DataEntries, Runs
  <2>2. job \in [state : {"waiting", "active", "succeeded", "failed"},
                 attempts : 0 .. BackoffLimit + 1, pods : Seq(Pods)]
    BY <1>1 DEF RefInv, Shape, Place
  <2>3. /\ pc \in RunPCs /\ (pc # "idle" => job.state = "active")
        /\ ref # None => ref.name = job.attempts
        /\ owner \in [Attempts -> 0 .. BackoffLimit + 1]
        /\ DOMAIN series = Attempts /\ DOMAIN aiboms = Attempts
    <3>1. DOMAIN series = Attempts /\ DOMAIN aiboms = Attempts
      BY <1>1 DEF RefInv, Shape
    <3> QED
      BY <1>1, <3>1 DEF RefInv, Shape, AttemptsLeft, DraftStored, RunPCs, Collecting,
                        Delivering
  <2> QED
    BY <1>1, <2>1, <2>2, <2>3 DEF TypeOK, Timed, Times, Counted
<1>2. Init => Counted
  <2> SUFFICES ASSUME Init PROVE Counted
    OBVIOUS
  <2>1. input \in Inputs /\ faults = input.faults
    BY DEF Init
  <2> QED
    BY <2>1, Given DEF Init, InputOK, Counted
<1>3. Informed /\ SignedInv /\ Counted /\ [Next]_vars => SignedInv' /\ Counted'
  BY SignedNext, CountedNext DEF Informed
<1>4. Spec => [](SignedInv /\ Counted)
  BY <1>2, <1>3, SignedInit, AlwaysInformed, PTL DEF Spec
<1> QED
  BY <1>1, <1>4, AlwaysInformed, PTL DEF Informed

-----------------------------------------------------------------------------
(* The checkout *)

\* What the process ranked: the runtime's, the command's and one image's
\* account of the checkout.
Images == {ImageProvenance(c.labels) : c \in ToSet(input.containers)} \cup {Nothing}
RankedWith(image) ==
  detected_provenance(detect_git_provenance_from_runtime_info(input.runtime),
                      detect_git_clone_from_containers(input.containers), image)
Ranked == pc \notin {"idle", "load"} => \E image \in Images : run.prov = RankedWith(image)

LEMMA RankedNext ==
  ASSUME Timed, Place, Ranked, [Next]_vars
  PROVE  Ranked'
<1> SUFFICES ASSUME pc' \notin {"idle", "load"}
             PROVE  (\E image \in Images : run.prov = RankedWith(image))'
  BY DEF Ranked
<1>1. input' = input
  BY TimedNext
<1>2. CASE Detect
  <2>1. PICK unread \in 0 .. Len(input.containers) :
          run' = [run EXCEPT !.prov = RankedWith(
                   detect_git_provenance_from_containers(
                     RemoveAt(input.containers, unread)))]
    BY <1>2 DEF Detect, RankedWith
  <2>2. input.containers \in Seq(ToSet(input.containers))
    BY Given DEF Timed, InputOK
  <2> DEFINE image == detect_git_provenance_from_containers(
                        RemoveAt(input.containers, unread))
  <2>3. image \in Images
    BY <2>2, RemovedIn, FirstImage DEF Images
  <2> HIDE DEF image
  <2>4. run'.prov = RankedWith(image)
    BY <2>1 DEF Place, image
  <2> QED
    BY <1>1, <2>3, <2>4 DEF Images, RankedWith
<1>3. ASSUME ~Detect
      PROVE  pc \notin {"idle", "load"} /\ run'.prov = run.prov
  <2>1. CASE Workload \/ UNCHANGED vars
    BY <2>1 DEF Workload, vars, draft
  <2>2. CASE WorkloadEnds
    BY <2>2 DEF WorkloadEnds
  <2>3. CASE \/ \E p \in Pods, m \in Usage \cup Serving : Ingest(p, m)
             \/ \E a \in Attempts : DeleteAibom(a) \/ CollectSeries(a)
    BY <2>3 DEF Ingest, DeleteAibom, CollectSeries, draft
  <2>4. CASE StartAttempt \/ Crash
    BY <2>4 DEF StartAttempt, Crash, Exit
  <2>5. CASE Collect
    <3>1. CASE SkipPod \/ BeginPod
      BY <3>1 DEF SkipPod, BeginPod, Place
    <3>2. CASE EndRound \/ EndLoop
      BY <3>2 DEF EndRound, NextRound, NextPod, EndLoop, Place
    <3>3. CASE BeginSeries \/ Fit
      BY <3>3 DEF BeginSeries, Fit, Place
    <3>4. CASE \E m \in Usage \cup Serving : Query(m)
      BY <3>4 DEF Query, Place
    <3>5. CASE \E m \in Usage \cup Serving : QuerySeries(m)
      BY <3>5 DEF QuerySeries, Place
    <3> QED
      BY <1>3, <2>5, <3>1, <3>2, <3>3, <3>4, <3>5 DEF Collect
  <2>6. CASE Deliver
    <3>1. CASE Publish \/ NoSeries \/ sign_aibom \/ PublishKey
      BY <3>1 DEF Publish, NoSeries, sign_aibom, PublishKey
    <3>2. CASE CreateAibom \/ SetOwner \/ Compile
      BY <3>2 DEF CreateAibom, SetOwner, Compile, Exit
    <3> QED
      BY <2>6, <3>1, <3>2 DEF Deliver
  <2> QED
    BY <2>1, <2>2, <2>3, <2>4, <2>5, <2>6 DEF Next, RunStep
<1>4. CASE ~Detect
  BY <1>1, <1>3, <1>4 DEF Ranked, Images, RankedWith
<1> QED
  BY <1>2, <1>4

\* The source code that the AIBOM reports is one checkout: sources of which no
\* two contradict each other provide all of it, for any annotations, runtime
\* detector, commands and images (merge_provenance, main).
THEOREM OneSource == Spec => []OneCheckout
<1>1. ASSUME Informed, Ranked PROVE OneCheckout
  <2> SUFFICES ASSUME pc = "publish" PROVE OneCheckout
    BY DEF OneCheckout
  <2> DEFINE A == input.annotated
             R == input.runtime
             C == detect_git_clone_from_containers(input.containers)
             s == aibom.source
             images == {ImageProvenance(c.labels) : c \in ToSet(input.containers)}
             said == [a |-> A, r |-> R, c |-> C]
  <2>1. input \in Inputs /\ InputOK(input)
    BY <1>1, Given DEF Informed, Timed
  <2>2. SourceOK(A) /\ SourceOK(R) /\ \A p \in Abbrev : p[1] # R.commit
    BY <2>1 DEF InputOK, SourceOK
  <2>3. CloneOK(C)
    <3>1. /\ input.containers \in Seq(ToSet(input.containers))
          /\ \A c \in ToSet(input.containers) : ScriptOK(c.script)
      BY <2>1 DEF InputOK
    <3> QED
      BY <3>1, FirstClone
  <2>4. PICK I \in images \cup {Nothing} : run.prov = RankedWith(I)
    BY <1>1 DEF Ranked, Images
  <2>5. SourceOK(I)
    BY <2>4, ImageIs, NothingIs
  <2>6. s = source_code(A, RankedWith(I))
    BY <1>1, <2>4 DEF Informed, Reported, compile_aibom
  <2>7. \E r \in {R, Nothing}, c \in {C, Nothing}, i \in {I, Nothing} :
          OneOf(s, A, r, c, i)
    <3> HIDE DEF A, R, C, s
    <3>1. RankedWith(I) = detected_provenance(
                            detect_git_provenance_from_runtime_info(R), C, I)
      BY DEF RankedWith, R, C
    <3>2. /\ DOMAIN A = DOMAIN Nothing /\ DOMAIN R = DOMAIN Nothing
          /\ DOMAIN C = DOMAIN Nothing /\ DOMAIN I = DOMAIN Nothing
          /\ C.commit # None => C.repo # None
      BY <2>2, <2>3, <2>5 DEF CloneOK, SourceOK
    <3> QED
      BY <2>2, <2>6, <3>1, <3>2, SourceIsOne
  <2>8. PICK r \in {R, Nothing}, c \in {C, Nothing}, i \in {I, Nothing} :
          OneOf(s, A, r, c, i)
    BY <2>7
  <2> DEFINE used == {"a"} \cup (IF r = R THEN {"r"} ELSE {})
                           \cup (IF c = C THEN {"c"} ELSE {})
  <2> HIDE DEF A, R, C, s, images
  <2>9. /\ DOMAIN said = {"a", "r", "c"}
        /\ said["a"] = A /\ said["r"] = R /\ said["c"] = C
    OBVIOUS
  <2> HIDE DEF said
  <2>10. /\ \A x \in used : x = "a" \/ (x = "r" /\ r = R) \/ (x = "c" /\ c = C)
         /\ "a" \in used /\ (r = R => "r" \in used) /\ (c = C => "c" \in used)
         /\ used \subseteq DOMAIN said
    BY <2>9
  <2> HIDE DEF used
  <2>11. \A x \in used : said[x] \in {A, r, c}
    BY <2>9, <2>10
  <2>12. /\ ~Contradict(A, r) /\ ~Contradict(A, c) /\ ~Contradict(A, i)
         /\ ~Contradict(r, c) /\ ~Contradict(r, i) /\ ~Contradict(c, i)
         /\ ~Contradict(r, A) /\ ~Contradict(c, A) /\ ~Contradict(c, r)
    BY <2>8, ContradictSym DEF OneOf
  <2>13. ~Contradict(A, A) /\ ~Contradict(r, r) /\ ~Contradict(c, c)
    BY DEF Contradict, SameCommit, SameRepo
  <2>14. /\ \A x, y \in used : ~Contradict(said[x], said[y])
         /\ \A x \in used : ~Contradict(said[x], i)
    BY <2>11, <2>12, <2>13
  <2>15. ASSUME NEW f \in {"commit", "repo", "branch", "dirty"}, s[f] # None
         PROVE  i[f] = s[f] \/ \E x \in used : said[x][f] = s[f]
    <3>1. s[f] \in {A[f], r[f], c[f], i[f]}
      BY <2>8, <2>15 DEF OneOf
    <3>2. Nothing[f] = None
      BY DEF Nothing
    <3>3. s[f] = r[f] => r = R
      BY <2>8, <2>15, <3>2
    <3>4. s[f] = c[f] => c = C
      BY <2>8, <2>15, <3>2
    <3> QED
      BY <2>9, <2>10, <3>1, <3>3, <3>4
  <2>16. i \in images \cup {Nothing}
    BY <2>4, <2>8
  <2>17. \E u \in SUBSET DOMAIN said : \E image \in images \cup {Nothing} :
           /\ \A x, y \in u : ~Contradict(said[x], said[y])
           /\ \A x \in u : ~Contradict(said[x], image)
           /\ (A # Nothing => "a" \in u)
           /\ \A f \in {"commit", "repo", "branch", "dirty"} :
                s[f] # None => image[f] = s[f] \/ \E x \in u : said[x][f] = s[f]
    BY <2>10, <2>14, <2>15, <2>16
  <2> QED
    BY <2>17 DEF OneCheckout, A, R, C, s, images, said
<1>2. Init => Ranked
  BY DEF Init, Ranked
<1>3. Informed /\ Ranked /\ [Next]_vars => Ranked'
  BY RankedNext DEF Informed
<1> QED
  BY <1>1, <1>2, <1>3, AlwaysInformed, PTL DEF Spec

\* For every plain script of any length, following names finds the checkout
\* that following paths finds (detect_git_clone_from_command).
THEOREM NamesSuffice == Spec => []CloneFollowsScript
<1>1. ASSUME Informed PROVE CloneFollowsScript
  <2>1. \A c \in ToSet(input.containers) : ScriptOK(c.script)
    BY <1>1, Given DEF Informed, Timed, InputOK
  <2> QED
    BY <2>1, PlainScript DEF CloneFollowsScript
<1> QED
  BY <1>1, AlwaysInformed, PTL

===============================================================================
